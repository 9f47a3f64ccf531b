------------------------------ MODULE GovernedStore ------------------------------
(***************************************************************************)
(* A governed store of stores.py: a file of JSON lines that is only ever   *)
(* appended to, each line chained to the one before it and superseding the *)
(* record that was active.  Operators on the content of one such file.     *)
(*                                                                         *)
(* A record's id stands for its hash as well: the hash covers the id and   *)
(* the rest of the record, so equal hashes are equal records.              *)
(***************************************************************************)
EXTENDS Naturals, Sequences

CONSTANT Payload  \* what an artefact can contain

Genesis == 0

Records ==
  [id : Nat \ {Genesis}, sequence : Nat, previous : Nat,
   supersedes : SUBSET Nat, payload : Payload, ended : BOOLEAN]

\* A line that is not a record: its writer did not live to finish it, or something
\* was written on behind it.  A store nobody has written yet.
TornLine == [id |-> Genesis]

Missing == <<[missing |-> TRUE]>>

Lines == Seq(Records \cup {TornLine})

-----------------------------------------------------------------------------
\* _read_unverified: every line is a record and there is one.
Readable(file) ==
  /\ file # Missing
  /\ file # << >>
  /\ \A i \in DOMAIN file : file[i] # TornLine

Superseded(lines) == UNION {lines[i].supersedes : i \in DOMAIN lines}

\* active_records
Active(lines) == {lines[i].id : i \in DOMAIN lines} \ Superseded(lines)

ActiveRecord(lines) ==
  lines[CHOOSE i \in DOMAIN lines : lines[i].id \in Active(lines)]

ChainHead(lines) == IF lines = << >> THEN Genesis ELSE lines[Len(lines)].id

Chained(lines, i) ==
  /\ lines[i].sequence = i
  /\ lines[i].previous = ChainHead(SubSeq(lines, 1, i - 1))
  /\ \A j \in 1..(i - 1) : lines[j].id # lines[i].id
  /\ lines[i].supersedes \subseteq Active(SubSeq(lines, 1, i - 1))

\* verification_errors is empty.
Verifies(file) ==
  /\ Readable(file)
  /\ \A i \in DOMAIN file : Chained(file, i)

OneActive(file) == \E r \in Active(file) : Active(file) = {r}

\* _append_record: what is written after the records found, none in a new store.
NextRecord(lines, id, target, payload) ==
  [id |-> id, sequence |-> Len(lines) + 1, previous |-> ChainHead(lines),
   supersedes |-> target, payload |-> payload, ended |-> TRUE]

\* The record is whole and only the end of its line is missing.
Unended(record) == [record EXCEPT !.ended = FALSE]

\* What is written behind a line that was not ended becomes part of that line.
AddLine(lines, line) ==
  IF lines # << >> /\ ~lines[Len(lines)].ended
  THEN [lines EXCEPT ![Len(lines)] = TornLine]
  ELSE Append(lines, line)

Found(file) == IF file = Missing THEN << >> ELSE file

\* verify_run_stores, for one store and the artefact it is bound to.
Bound(file, artefact) ==
  /\ Verifies(file)
  /\ OneActive(file)
  /\ ActiveRecord(file).payload = artefact
=============================================================================
