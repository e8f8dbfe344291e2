---------------------------- MODULE ImageSearch ----------------------------
(***************************************************************************)
(* inFile (pkg/enterchroot/enter.go): /init without an image beside it     *)
(* looks for one in its own program, behind the marker "_sqmagic_".  The   *)
(* file is read in pieces, and every byte is compared once, with the byte  *)
(* of the marker that would come next.                                     *)
(***************************************************************************)
EXTENDS Naturals, Sequences

CONSTANTS
  Bytes,
  Programs,  \* what the file can hold
  Marker,
  Buffer     \* how many bytes a Read returns at most

ASSUME MarkerAssumption == Marker \in Seq(Bytes) /\ Marker # <<>>
ASSUME ProgramsAssumption == Programs \subseteq Seq(Bytes)
ASSUME BufferAssumption == Buffer \in Nat \ {0}

VARIABLES
  program,  \* the file
  offset,   \* bytes compared
  ahead,    \* bytes in the buffer that are still to be compared
  found,    \* bytes of the marker that the last bytes matched
  result,   \* of the search, and where it says that the image begins
  start

searchVars == <<program, offset, ahead, found, result, start>>

SearchTypeOK ==
  /\ program \in Programs
  /\ offset \in 0 .. Len(program) /\ ahead \in 0 .. Buffer
  /\ offset + ahead <= Len(program)
  /\ found \in 0 .. Len(Marker) - 1
  /\ result \in {"none", "image", "failed", "missing"}
  /\ start \in 0 .. Len(program)

SearchInit ==
  /\ program \in Programs
  /\ offset = 0 /\ ahead = 0 /\ found = 0
  /\ result = "none" /\ start = 0

\* Mutant: every Read begins a new comparison.
Read_Restarts ==
  /\ result = "none" /\ ahead = 0
  /\ \/ /\ ahead' \in 1 .. Buffer /\ offset + ahead' <= Len(program)
        /\ found' = 0
        /\ UNCHANGED result
     \/ /\ offset = Len(program)
        /\ result' = "missing"
        /\ UNCHANGED <<ahead, found>>
  /\ UNCHANGED <<program, offset, start>>

\* A Read returns as much as it likes, and at the end of the file nothing.
Read ==
  /\ result = "none" /\ ahead = 0
  /\ \/ /\ ahead' \in 1 .. Buffer /\ offset + ahead' <= Len(program)
        /\ UNCHANGED result
     \/ /\ offset = Len(program)
        /\ result' = "missing"
        /\ UNCHANGED ahead
     \/ /\ result' = "failed"
        /\ UNCHANGED ahead
  /\ UNCHANGED <<program, offset, found, start>>

\* Behind the marker the search is over, and the rest of the buffer forgotten.
Match ==
  /\ result = "none" /\ ahead > 0
  /\ program[offset + 1] = Marker[found + 1]
  /\ IF found + 1 = Len(Marker)
     THEN /\ result' = "image" /\ start' = offset + 1 /\ ahead' = 0
          /\ UNCHANGED <<offset, found>>
     ELSE /\ found' = found + 1 /\ offset' = offset + 1 /\ ahead' = ahead - 1
          /\ UNCHANGED <<result, start>>
  /\ UNCHANGED program

\* The byte is not compared again, with the first of the marker.
Mismatch ==
  /\ result = "none" /\ ahead > 0
  /\ program[offset + 1] # Marker[found + 1]
  /\ found' = 0
  /\ offset' = offset + 1 /\ ahead' = ahead - 1
  /\ UNCHANGED <<program, result, start>>

SearchNext == Read \/ Match \/ Mismatch

-----------------------------------------------------------------------------
(* Properties *)

\* The first n bytes of the marker are those of the program before place i.
Ends(n, i) == n <= i /\ \A j \in 1 .. n : program[i - n + j] = Marker[j]

\* The marker ends at place i, and no beginning of one comes right before it.
Clean(i) ==
  /\ Ends(Len(Marker), i)
  /\ \A n \in 1 .. Len(Marker) - 1 : ~Ends(n, i - Len(Marker))

\* The place returned is behind a marker (enter.go:194-203).
MarkerBefore == result = "image" => Ends(Len(Marker), start)

\* A clean marker is not passed by, neither in vain nor for a later one
\* (enter.go:187-209).
FirstMarker ==
  /\ result = "missing" => \A i \in 1 .. Len(program) : ~Clean(i)
  /\ result = "image" => \A i \in 1 .. start - 1 : ~Clean(i)

\* However the program was cut into reads, the image that is mounted follows a
\* marker.  One is only passed by if a beginning of another comes right before it,
\* as in "__sqmagic_": the byte that does not go on from there is not compared
\* again, as the first of a marker.  The search goes on to the next, so that every
\* other one is found, if none was before (enter.go:187-209).
ImageFound == MarkerBefore /\ FirstMarker

=============================================================================
