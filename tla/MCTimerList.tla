---------------------------- MODULE MCTimerList ----------------------------
\* TimerList with one Timer of run() and others as TLC checks it; the
\* constants have their values in the .cfg file.
EXTENDS TimedRun
=============================================================================
