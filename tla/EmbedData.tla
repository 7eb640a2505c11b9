----------------------------- MODULE EmbedData -----------------------------
(***************************************************************************)
(* Files embedded in a program: tools/embed/generate-embed-data.cc writes  *)
(* two arrays, in rows of several elements, and util/embed-data.cc looks a *)
(* name up in them.  Names are numbers, for their order; the content of a  *)
(* file is an operator of its name.                                        *)
(***************************************************************************)
EXTENDS Integers, Sequences, SequencesExt

CONSTANTS
  RowSize,     \* elements in a row: 4 names of contents, 8 bytes
  Content(_)   \* the bytes of the file of that name

ASSUME EmbedDataAssumption == RowSize \in Nat \ {0}

\* The loops that print a row at a time, the last one as long as what is left;
\* the compiler reads the elements of all rows.
Printed(elements) ==
  LET rows == (Len(elements) + RowSize - 1) \div RowSize
      row(x) == SubSeq(elements, x * RowSize + 1, IF (x + 1) * RowSize < Len(elements)
                                                  THEN (x + 1) * RowSize
                                                  ELSE Len(elements))
  IN FlattenSeq([x \in 1..rows |-> row(x - 1)])

\* Deviation: the names are taken as they come.
SortedNames_asGiven(args) == args

\* std::sort() and std::unique() over the arguments of the program.
SortedNames(args) == SetToSortSeq(ToSet(args), <)

\* main(): the arrays names and contents.
Generate(args) ==
  LET files == SortedNames(args)
  IN [names |-> files,
      contents |-> Printed([i \in DOMAIN files |-> Printed(Content(files[i]))])]

\* std::lower_bound() on names[first..last - 1].
RECURSIVE LowerBound(_, _, _, _)
LowerBound(names, name, first, last) ==
  LET middle == (first + last) \div 2
  IN IF first = last THEN first
     ELSE IF names[middle] < name THEN LowerBound(names, name, middle + 1, last)
     ELSE LowerBound(names, name, first, middle)

\* get_content_by_name(): <<>> or the content.
get_content_by_name(data, name) ==
  LET iter == LowerBound(data.names, name, 1, Len(data.names) + 1)
  IN IF iter > Len(data.names) THEN <<>>
     ELSE IF data.names[iter] # name THEN <<>>
     ELSE <<data.contents[iter]>>
=============================================================================
