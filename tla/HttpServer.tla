----------------------------- MODULE HttpServer -----------------------------
(***************************************************************************)
(* net/http/server.cc: connections that read a request, hand it to the     *)
(* handler, write the response and read again, each with a Timer that      *)
(* closes the connection.  A connection lives as long as the completion    *)
(* handler of its operation, or the callback given to the handler.         *)
(*                                                                         *)
(* The Timer is as TimerService promises: it fires once, Duration or later *)
(* after its last update.  close() destroys it; timer_->update() after     *)
(* that reads a destroyed object.  When the Timer had fired, the build     *)
(* finds handle_ at end() there and does nothing; when it was cancelled,   *)
(* handle_ dangles and the behaviour is undefined (broken).                *)
(***************************************************************************)
EXTENDS Naturals

CONSTANTS
  Connections,   \* accepted connections
  Duration       \* Options::connection_timeout

ASSUME HttpServerAssumption == Duration \in Nat

VARIABLES
  accepting,  \* async_accept is outstanding
  op,      \* the operation in flight: "read", "handle", "write"; "none" when
           \* the connection is destroyed, "new" before it is accepted
  out,     \* how it completed: "pending", "ok", "error"
  timer,   \* timer_: "none", "listed", "fired" or "cancelled", both destroyed
  left,    \* time until a listed timer is due
  closed,  \* stream_ is closed
  broken,  \* behaviour is undefined from here on
  quiet    \* time since the connection last did something (for the properties)

vars == <<accepting, op, out, timer, left, closed, broken, quiet>>

Init ==
  /\ accepting = TRUE
  /\ op = [c \in Connections |-> "new"]
  /\ out = [c \in Connections |-> "pending"]
  /\ timer = [c \in Connections |-> "none"]
  /\ left = [c \in Connections |-> 0]
  /\ closed = [c \in Connections |-> FALSE]
  /\ broken = FALSE
  /\ quiet = [c \in Connections |-> 0]

Tick ==
  /\ left' = [c \in Connections |-> IF left[c] = 0 THEN 0 ELSE left[c] - 1]
  /\ quiet' = [c \in Connections |->
                 IF quiet[c] = Duration THEN Duration ELSE quiet[c] + 1]
  /\ UNCHANGED <<accepting, op, out, timer, closed, broken>>

-----------------------------------------------------------------------------
(* Parts of the handlers *)

\* An asynchronous operation starts, holding a reference to the connection.
Start(c, kind) ==
  /\ op' = [op EXCEPT ![c] = kind]
  /\ out' = [out EXCEPT ![c] = "pending"]
  /\ quiet' = [quiet EXCEPT ![c] = 0]

\* timer_->update() after the steps before it left timer_ as it is.
UpdateTimer(c) ==
  /\ left' = [left EXCEPT ![c] = IF timer[c] = "listed" THEN Duration ELSE @]
  /\ broken' = (timer[c] = "cancelled")
  /\ UNCHANGED <<timer, closed>>

\* Deviation: close() leaves the timer.
close_keepTimer(c) ==
  /\ closed' = [closed EXCEPT ![c] = TRUE]
  /\ UNCHANGED timer

\* close(): ~Timer cancels a scheduled timer.
close(c) ==
  /\ timer' = [timer EXCEPT ![c] = IF @ = "listed" THEN "cancelled" ELSE @]
  /\ closed' = [closed EXCEPT ![c] = TRUE]

\* The last reference goes: the connection is destroyed with its timer.
Destroyed(c) ==
  /\ op' = [op EXCEPT ![c] = "none"]
  /\ left' = [left EXCEPT ![c] = 0]
  /\ UNCHANGED <<out, quiet>>

CloseAndEnd(c) == close(c) /\ Destroyed(c) /\ UNCHANGED broken

-----------------------------------------------------------------------------
(* Handlers *)

\* Server::accept() and the constructor of Connection.
accept(c) ==
  /\ accepting
  /\ op[c] = "new"
  /\ Start(c, "read")
  /\ timer' = [timer EXCEPT ![c] = "listed"]
  /\ left' = [left EXCEPT ![c] = Duration]
  /\ UNCHANGED <<accepting, closed, broken>>

\* An error of async_accept ends accepting for good.
AcceptFails ==
  /\ accepting
  /\ accepting' = FALSE
  /\ UNCHANGED <<op, out, timer, left, closed, broken, quiet>>

\* asio completes a read or write: on a closed stream only with an error.
Complete(c, result) ==
  /\ op[c] \in {"read", "write"}
  /\ out[c] = "pending"
  /\ closed[c] => result = "error"
  /\ out' = [out EXCEPT ![c] = result]
  /\ UNCHANGED <<op, timer, left, closed, broken, quiet>>

\* The handler of async_read.  The handler_ calls its callback later, or at once
\* with success or with an error; in each case timer_ is updated afterwards.
ReadHandler(c) ==
  /\ op[c] = "read"
  /\ \/ out[c] = "error" /\ CloseAndEnd(c)
     \/ out[c] = "ok" /\ Start(c, "handle") /\ UpdateTimer(c)
     \/ out[c] = "ok" /\ Start(c, "write") /\ UpdateTimer(c)
     \/ /\ out[c] = "ok"
        /\ close(c)
        /\ broken' = (timer'[c] = "cancelled")
        /\ Destroyed(c)

\* The handler_ calls its callback later: with success or with an error.
Reply(c) ==
  /\ op[c] = "handle"
  /\ \/ Start(c, "write") /\ UpdateTimer(c)
     \/ CloseAndEnd(c)

\* The handler_ drops its callback: the connection is destroyed.
Abandon(c) ==
  /\ op[c] = "handle"
  /\ timer' = [timer EXCEPT ![c] = IF @ = "listed" THEN "cancelled" ELSE @]
  /\ Destroyed(c)
  /\ UNCHANGED <<closed, broken>>

\* The handler of async_write; a response without a length ends the connection.
WriteHandler(c) ==
  /\ op[c] = "write"
  /\ \/ out[c] \in {"ok", "error"} /\ CloseAndEnd(c)
     \/ out[c] = "ok" /\ Start(c, "read") /\ UpdateTimer(c)

\* Deviation: the timer only stops.
TimedOut_keepOpen(c) ==
  /\ timer[c] = "listed"
  /\ left[c] = 0
  /\ timer' = [timer EXCEPT ![c] = "fired"]
  /\ UNCHANGED <<op, out, left, closed, broken, quiet>>

\* The timer fires and closes the connection.
TimedOut(c) ==
  /\ timer[c] = "listed"
  /\ left[c] = 0
  /\ timer' = [timer EXCEPT ![c] = "fired"]
  /\ closed' = [closed EXCEPT ![c] = TRUE]
  /\ UNCHANGED <<op, out, left, broken, quiet>>

Step(c) ==
  \/ ReadHandler(c)
  \/ Reply(c)
  \/ Abandon(c)
  \/ WriteHandler(c)
  \/ TimedOut(c)
  \/ \E result \in {"ok", "error"} : Complete(c, result)

Next ==
  \/ Tick
  \/ ~broken /\ AcceptFails
  \/ \E c \in Connections : ~broken /\ accept(c)
  \/ \E c \in Connections : ~broken /\ Step(c) /\ UNCHANGED accepting

Spec == Init /\ [][Next]_vars

\* The clock runs, due timers fire, completed operations run their handlers and
\* a closed stream ends its operation.  Peers and the handler_ owe nothing.
FairSpec ==
  /\ Spec
  /\ WF_vars(Tick)
  /\ \A c \in Connections :
       /\ WF_vars(~broken /\ TimedOut(c) /\ UNCHANGED accepting)
       /\ WF_vars(~broken /\ (ReadHandler(c) \/ WriteHandler(c))
                           /\ UNCHANGED accepting)
       /\ WF_vars(~broken /\ closed[c] /\ Complete(c, "error")
                           /\ UNCHANGED accepting)

-----------------------------------------------------------------------------
(* Properties *)

Alive(c) == op[c] \in {"read", "handle", "write"}

\* An open connection always has a scheduled timer, and a destroyed one none: no
\* callback of a timer can find its connection gone.  And the timer is not due
\* before the connection was quiet for the whole timeout: each request, response
\* and write starts the timeout again.
TimerGuards ==
  ~broken => \A c \in Connections :
    /\ Alive(c) /\ ~closed[c] => timer[c] = "listed"
    /\ ~Alive(c) => timer[c] # "listed"
    /\ timer[c] = "listed" /\ left[c] = 0 => quiet[c] = Duration

\* No read or write stays for ever, whatever the peer does.
ReadsAndWritesEnd ==
  \A c \in Connections :
    /\ (op[c] = "read") ~> (op[c] # "read" \/ broken)
    /\ (op[c] = "write") ~> (op[c] # "write" \/ broken)
=============================================================================
