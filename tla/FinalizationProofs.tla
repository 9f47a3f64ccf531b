--------------------------- MODULE FinalizationProofs ---------------------------
(***************************************************************************)
(* ClosedIsOneRelease, EvaluatedWasApproved and TornStoreStays for any     *)
(* number of calls, dying anywhere.  The invariant says what a call has    *)
(* written by the time it is at a step, and that a manifest describes one  *)
(* release of one call: as soon as a later call has written its first      *)
(* file, the directory is no longer the one that the manifest describes.   *)
(* An evaluation that did not begin on such a directory therefore has one  *)
(* file still to compare that cannot match: the first one that the later   *)
(* call wrote.                                                             *)
(***************************************************************************)
EXTENDS Finalization, SequenceTheorems, TLAPS

IsChain(s) == \E S : s \in Seq(S)

Fields == {"pc", "todo", "attempt", "status", "epg", "index", "lines", "heads"}

Sealing == {"chain", "control", "manifest", "save"}

Points == Writing \cup {"read", "append", "verify"} \cup Sealing

Shape ==
  /\ DOMAIN call = Fields
  /\ call.pc \in Points
  /\ call.attempt = attempts
  /\ IsChain(call.todo)
  /\ call.pc \notin Writing => call.todo = << >>

TypeInv ==
  /\ attempts \in Nat
  /\ verdict \in Verdicts
  /\ DOMAIN output = Files
  /\ DOMAIN stores = StoreNames
  /\ \A s \in StoreNames : IsChain(stores[s])

Sound == verdict.clear /\ verdict.epg /\ verdict.schemas

\* What the call has decided so far.
Decided ==
  call.status = Approves(IF call.pc \in {"first", "second"} THEN verdict.clear ELSE Sound)

\* What it is to have written when it has nothing left to write at its step.
Due(pc) ==
  Named(FirstPass)
    \cup (IF pc # "first" THEN Named(SecondPass) ELSE {})
    \cup (IF pc \notin {"first", "second", "refresh"} THEN Named(LastPass) ELSE {})
    \cup (IF pc \in {"control", "manifest", "save"} THEN {"integrity-chain"} ELSE {})

Stamped ==
  \A f \in Due(call.pc) :
    f \in Named(call.todo) \/ output[f] = Stamp(f, attempts, call.status)

\* The directory is no longer an earlier call's.
Begun ==
  call.pc # "first" \/ call.todo # FirstPass =>
    output["source-register"].attempt = attempts

\* The document that is bound is this call's, and says its status once that is decided.
DocumentBound ==
  verdict.epg /\ call.pc # "first" =>
    /\ call.epg = run.epg
    /\ call.pc # "refresh" => Of(run.epg, attempts, call.status)

\* Of the first n stores the record that was appended is the only one that can be active.
AppendedTo(n) ==
  /\ IsChain(call.heads) /\ Len(call.heads) = n
  /\ \A i \in 1..n : Active(stores[RunStores[i]]) \subseteq {call.heads[i]}

Persisting ==
  /\ call.pc \in Writing => call.index = 1 /\ call.heads = << >>
  /\ call.pc \in {"read", "append"} => call.index \in 1..5 /\ AppendedTo(call.index - 1)
  /\ call.pc = "append" =>
       call.lines = Found(stores[Store]) /\ Extensible(stores[Store])
  /\ call.pc \in {"verify"} \cup Sealing => AppendedTo(5)
  /\ call.pc \in Sealing => StoresBound

Controlled ==
  /\ call.pc \in {"manifest", "save"} =>
       control = [attempt |-> attempts, status |-> call.status, heads |-> call.heads]
  /\ call.pc = "save" =>
       manifest = [attempt |-> attempts, status |-> call.status, files |-> Directory]

CallInv ==
  /\ attempts >= 1 /\ run.status = "READY_TO_FINALISE"
  /\ Shape /\ Decided /\ Stamped /\ Begun /\ DocumentBound /\ Persisting /\ Controlled

\* What a manifest says was decided by its call, and as long as no later call has
\* begun to write the directory is as that call left it.
Release(m) ==
  /\ m.attempt \in 1..attempts
  /\ call # NoCall /\ call.pc # "save" => m.attempt < attempts
  /\ m.status = Approves(Sound)
  /\ m.files.output["source-register"].attempt = m.attempt
  /\ output["source-register"].attempt = m.attempt => OneRelease(m)

ManifestInv == manifest \in {Absent, Torn} \/ Release(manifest)

EvaluationFields ==
  {"pc", "todo", "control", "manifest", "record", "late", "identity", "whole"}

SourceEntry == <<"output", "source-register">>

\* What an evaluation knows once it has loaded manifest and control: if it did not
\* begin on a whole release, the source register is still to fail.
Loading ==
  /\ DOMAIN evaluation = EvaluationFields
  /\ IsChain(evaluation.todo) /\ IsChain(evaluation.late)
  /\ \/ evaluation.whole
     \/ Overtaken /\ evaluation.pc = "digests" /\ SourceEntry \in Named(evaluation.todo)
  /\ evaluation.pc = "late" => Named(evaluation.todo) \subseteq Files
  /\ evaluation.pc \in {"late", "loaded"} => evaluation.manifest.status = "APPROVED"
  /\ \A i \in DOMAIN evaluation.late :
       \/ Overtaken
       \/ evaluation.late[i].content =
            Stamp(evaluation.late[i].file, evaluation.manifest.attempt, "APPROVED")
  /\ evaluation.pc = "loaded" => Overtaken \/ evaluation.identity = evaluation.manifest

EvaluationInv ==
  evaluation.pc # "idle" =>
    Release(evaluation.manifest) /\ (evaluation.pc # "control" => Loading)

ClosedInv == Closed => call = NoCall /\ ClosedIsOneRelease

DirectoryInv == ManifestInv /\ EvaluationInv

IInv == TypeInv /\ (call = NoCall \/ CallInv) /\ DirectoryInv /\ ClosedInv

-----------------------------------------------------------------------------
(* Names. *)

LEMMA PassNames ==
  /\ Named(FirstPass) = {"source-register", "evidence-matrix", "argument-graph",
                         "article", "provenance", "provenance-v2"}
  /\ Named(SecondPass) = {"decision-ledger", "rpm", "scholarly-state"}
  /\ Named(Refreshed) = {"provenance", "decision-ledger", "scholarly-state",
                         "provenance-v2"}
  /\ Named(LastPass) = {"confidence-report"}
  /\ Named(<< >>) = {}
<1>1. DOMAIN FirstPass = 1..6 /\ DOMAIN SecondPass = 1..3 /\ DOMAIN Refreshed = 1..4
      /\ DOMAIN LastPass = 1..1
  BY DEF FirstPass, SecondPass, Refreshed, LastPass
<1>2. /\ 1..6 = {1, 2, 3, 4, 5, 6} /\ 1..3 = {1, 2, 3}
      /\ 1..4 = {1, 2, 3, 4} /\ 1..1 = {1}
  OBVIOUS
<1>3. Named(FirstPass) = {FirstPass[1], FirstPass[2], FirstPass[3], FirstPass[4],
                          FirstPass[5], FirstPass[6]}
  BY <1>1, <1>2 DEF Named
<1>4. Named(SecondPass) = {SecondPass[1], SecondPass[2], SecondPass[3]}
  BY <1>1, <1>2 DEF Named
<1>5. Named(Refreshed) = {Refreshed[1], Refreshed[2], Refreshed[3], Refreshed[4]}
  BY <1>1, <1>2 DEF Named
<1>6. Named(LastPass) = {LastPass[1]}
  BY <1>1, <1>2 DEF Named
<1>7. DOMAIN << >> = {}
  OBVIOUS
<1>8. Named(<< >>) = {}
  BY <1>7 DEF Named
<1> QED BY <1>3, <1>4, <1>5, <1>6, <1>8 DEF FirstPass, SecondPass, Refreshed, LastPass

LEMMA FileNames ==
  Files = {"source-register", "evidence-matrix", "argument-graph", "article",
           "provenance", "provenance-v2", "decision-ledger", "rpm",
           "scholarly-state", "confidence-report", "integrity-chain"}
BY PassNames DEF Files

LEMMA PassChains ==
  /\ IsChain(FirstPass) /\ IsChain(SecondPass) /\ IsChain(Refreshed)
  /\ IsChain(LastPass) /\ IsChain(<< >>)
<1>1. FirstPass \in Seq(Files) /\ SecondPass \in Seq(Files)
      /\ Refreshed \in Seq(Files) /\ LastPass \in Seq(Files)
  BY FileNames DEF FirstPass, SecondPass, Refreshed, LastPass
<1>2. << >> \in Seq({})
  BY EmptySeq
<1> QED BY <1>1, <1>2 DEF IsChain

LEMMA BearNames ==
  BearStatus = {"provenance", "decision-ledger", "scholarly-state", "provenance-v2",
                "confidence-report", "integrity-chain"}
BY PassNames DEF BearStatus

LEMMA RunStoreNames ==
  /\ Len(RunStores) = 5 /\ DOMAIN RunStores = 1..5
  /\ \A i \in 1..5 : RunStores[i] \in StoreNames
  /\ \A s \in StoreNames : \E i \in 1..5 : s = RunStores[i]
  /\ \A i, j \in 1..5 : RunStores[i] = RunStores[j] => i = j
  /\ \A s \in StoreNames : Artefact(s) \in Files \ {"integrity-chain"}
<1>1. Len(RunStores) = 5 /\ DOMAIN RunStores = 1..5
  BY DEF RunStores
<1>2. 1..5 = {1, 2, 3, 4, 5}
  OBVIOUS
<1>3. RunStores[1] = "epg" /\ RunStores[2] = "sdl" /\ RunStores[3] = "rpm"
      /\ RunStores[4] = "evidence_matrix" /\ RunStores[5] = "argument_graph"
  BY DEF RunStores
<1>4. \A i, j \in 1..5 : RunStores[i] = RunStores[j] => i = j
  BY <1>2, <1>3
<1>5. StoreNames = {RunStores[1], RunStores[2], RunStores[3], RunStores[4], RunStores[5]}
  BY <1>1, <1>2 DEF StoreNames, Named
<1>6. \A s \in StoreNames : Artefact(s) \in Files \ {"integrity-chain"}
  BY <1>3, <1>5, FileNames DEF Artefact
<1>7. /\ \A i \in 1..5 : RunStores[i] \in StoreNames
      /\ \A s \in StoreNames : \E i \in 1..5 : s = RunStores[i]
  BY <1>2, <1>5
<1> QED BY <1>1, <1>4, <1>6, <1>7

-----------------------------------------------------------------------------
(* Chains. *)

LEMMA ChainEntries ==
  ASSUME NEW s, IsChain(s)
  PROVE  Len(s) \in Nat /\ DOMAIN s = 1..Len(s)
<1>1. PICK S : s \in Seq(S)
  BY DEF IsChain
<1> QED BY <1>1, LenProperties

LEMMA AppendChain ==
  ASSUME NEW s, IsChain(s), NEW e
  PROVE  /\ IsChain(Append(s, e))
         /\ Len(Append(s, e)) = Len(s) + 1 /\ DOMAIN Append(s, e) = 1..(Len(s) + 1)
         /\ Append(s, e)[Len(s) + 1] = e
         /\ \A i \in DOMAIN s : Append(s, e)[i] = s[i]
<1>1. PICK S : s \in Seq(S)
  BY DEF IsChain
<1> DEFINE T == S \cup {e}
<1>2. s \in Seq(T) /\ e \in T
  <2>1. \A i \in 1..Len(s) : s[i] \in T
    BY <1>1, ElementOfSeq
  <2> QED BY <1>1, <2>1, LenProperties
<1> HIDE DEF T
<1>3. Append(s, e) \in Seq(T)
  BY <1>2, AppendProperties
<1> QED BY <1>2, <1>3, AppendProperties, LenProperties DEF IsChain

LEMMA SingletonChain == \A e : IsChain(<<e>>)
<1> SUFFICES ASSUME NEW e PROVE IsChain(<<e>>)
  OBVIOUS
<1>1. <<e>> \in Seq({e})
  OBVIOUS
<1> QED BY <1>1 DEF IsChain

LEMMA ConcatChain ==
  ASSUME NEW s, IsChain(s), NEW t, IsChain(t)
  PROVE  IsChain(s \o t)
<1>1. PICK S : s \in Seq(S)
  BY DEF IsChain
<1>2. PICK T : t \in Seq(T)
  BY DEF IsChain
<1> DEFINE U == S \cup T
<1>3. s \in Seq(U) /\ t \in Seq(U)
  <2>1. (\A i \in 1..Len(s) : s[i] \in U) /\ (\A i \in 1..Len(t) : t[i] \in U)
    BY <1>1, <1>2, ElementOfSeq
  <2> QED BY <1>1, <1>2, <2>1, LenProperties
<1> HIDE DEF U
<1>4. s \o t \in Seq(U)
  BY <1>3, ConcatProperties
<1> QED BY <1>4 DEF IsChain

LEMMA TailChain ==
  ASSUME NEW s, IsChain(s), s # << >>
  PROVE  IsChain(Tail(s)) /\ Named(s) = {s[1]} \cup Named(Tail(s))
<1>1. PICK S : s \in Seq(S)
  BY DEF IsChain
<1>2. /\ Tail(s) \in Seq(S) /\ Len(Tail(s)) = Len(s) - 1
      /\ \A i \in 1..Len(Tail(s)) : Tail(s)[i] = s[i + 1]
  BY <1>1, HeadTailProperties
<1>3. DOMAIN s = 1..Len(s) /\ DOMAIN Tail(s) = 1..(Len(s) - 1)
      /\ Len(s) \in Nat /\ Len(s) - 1 \in Nat
  BY <1>1, <1>2, LenProperties
<1>4. \A i \in DOMAIN Tail(s) : Tail(s)[i] = s[i + 1]
  BY <1>2, <1>3
<1>5. ASSUME NEW x \in Named(s) PROVE x \in {s[1]} \cup Named(Tail(s))
  <2>1. PICK i \in DOMAIN s : x = s[i]
    BY <1>5 DEF Named
  <2>2. CASE i = 1
    BY <2>1, <2>2
  <2>3. CASE i # 1
    <3>1. i - 1 \in DOMAIN Tail(s) /\ (i - 1) + 1 = i
      BY <1>3, <2>1, <2>3
    <3>2. Tail(s)[i - 1] = x
      BY <1>4, <2>1, <3>1
    <3> QED BY <3>1, <3>2 DEF Named
  <2> QED BY <2>2, <2>3
<1>6. ASSUME NEW x \in Named(Tail(s)) PROVE x \in Named(s)
  <2>1. PICK i \in DOMAIN Tail(s) : x = Tail(s)[i]
    BY <1>6 DEF Named
  <2>2. i + 1 \in DOMAIN s /\ x = s[i + 1]
    BY <1>3, <1>4, <2>1
  <2> QED BY <2>2 DEF Named
<1>7. s[1] \in Named(s)
  BY <1>3 DEF Named
<1> QED BY <1>2, <1>5, <1>6, <1>7 DEF IsChain

\* A record that supersedes what was active is the only one that can be.
LEMMA AppendSupersedes ==
  ASSUME NEW l, IsChain(l), NEW r, r.supersedes = Active(l)
  PROVE  IsChain(Append(l, r)) /\ Active(Append(l, r)) \subseteq {r.id}
<1> DEFINE m == Append(l, r)
<1>1. /\ IsChain(m) /\ DOMAIN l = 1..Len(l) /\ Len(l) \in Nat
      /\ DOMAIN m = 1..(Len(l) + 1) /\ m[Len(l) + 1] = r
      /\ \A i \in DOMAIN l : m[i] = l[i]
  BY AppendChain, ChainEntries
<1> HIDE DEF m
<1>2. ASSUME NEW i \in DOMAIN m, m[i].id \notin Superseded(m)
      PROVE  m[i].id = r.id
  <2>1. CASE i \in DOMAIN l
    <3>1. m[i].id \notin Superseded(l)
      BY <1>1, <1>2 DEF Superseded
    <3>2. m[i].id \in Active(l)
      BY <1>1, <2>1, <3>1 DEF Active
    <3>3. m[i].id \in m[Len(l) + 1].supersedes /\ Len(l) + 1 \in DOMAIN m
      BY <1>1, <3>2
    <3>4. m[i].id \in Superseded(m)
      BY <3>3 DEF Superseded
    <3> QED BY <1>2, <3>4
  <2>2. CASE i \notin DOMAIN l
    BY <1>1, <2>2
  <2> QED BY <2>1, <2>2
<1>3. Active(m) \subseteq {r.id}
  BY <1>2 DEF Active
<1> QED BY <1>1, <1>3 DEF m

\* What is written behind the last line of a store is a line of its own, or the store
\* does not verify.
LEMMA AddLineChain ==
  ASSUME NEW l, IsChain(l), NEW r
  PROVE  /\ IsChain(AddLine(l, r))
         /\ Verifies(AddLine(l, r)) => AddLine(l, r) = Append(l, r)
<1>1. CASE l # << >> /\ ~l[Len(l)].ended
  <2>1. PICK S : l \in Seq(S)
    BY DEF IsChain
  <2>2. Len(l) \in Nat /\ Len(l) # 0 /\ DOMAIN l = 1..Len(l)
    BY <1>1, <2>1, LenProperties, EmptySeq
  <2> DEFINE m == [l EXCEPT ![Len(l)] = TornLine]
  <2>3. m[Len(l)] = TornLine /\ Len(l) \in DOMAIN m
    BY <2>2
  <2>4. \A i \in 1..Len(l) : l[i] \in S \cup {TornLine}
    BY <2>1, <2>2, ElementOfSeq
  <2>5. m \in Seq(S \cup {TornLine})
    <3>1. PICK T : T = S \cup {TornLine}
      OBVIOUS
    <3>2. l \in Seq(T) /\ TornLine \in T /\ Len(l) \in 1..Len(l)
      BY <2>1, <2>2, <2>4, <3>1, LenProperties
    <3> QED BY <3>1, <3>2, ExceptSeq
  <2>6. ~Verifies(m)
    BY <2>3 DEF Verifies, Readable
  <2> QED BY <1>1, <2>5, <2>6 DEF AddLine, IsChain
<1>2. CASE ~(l # << >> /\ ~l[Len(l)].ended)
  BY <1>2, AppendChain DEF AddLine
<1> QED BY <1>1, <1>2

LEMMA ActiveIs ==
  ASSUME NEW file, OneActive(file), NEW h, Active(file) \subseteq {h}
  PROVE  ActiveRecord(file).id = h
<1>1. PICK i \in DOMAIN file : file[i].id \in Active(file)
  BY DEF OneActive, Active
<1>2. PICK j : j = CHOOSE k \in DOMAIN file : file[k].id \in Active(file)
  OBVIOUS
<1>3. file[j].id \in Active(file)
  BY <1>1, <1>2
<1> QED BY <1>2, <1>3 DEF ActiveRecord

-----------------------------------------------------------------------------
(* The steps of a call. *)

LEMMA InitIInv == Init => IInv
<1> SUFFICES ASSUME Init PROVE IInv
  OBVIOUS
<1>1. Missing \in Seq({[missing |-> TRUE]})
  BY DEF Missing
<1>2. TypeInv
  BY <1>1 DEF Init, TypeInv, IsChain
<1> QED BY <1>2 DEF Init, IInv, DirectoryInv, ManifestInv, EvaluationInv, NoEvaluation,
                    ClosedInv, Closed, Statuses

\* At a step of a call its invariant holds, and nothing is closed.
LEMMA InCall ==
  ASSUME IInv, call.pc \in Points
  PROVE  CallInv /\ call # NoCall
<1>1. call # NoCall
  BY DEF Points, Writing, Sealing, NoCall
<1> QED BY <1>1 DEF IInv

\* Nothing is closed while the run's status has not been set.
LEMMA StillOpen ==
  ASSUME run'.status = "READY_TO_FINALISE" \/ run'.status = "torn" PROVE ClosedInv'
BY DEF ClosedInv, Closed, Statuses

\* Either the directory does not change, or a call has begun to overwrite it.
Overwrites ==
  /\ call # NoCall /\ call.pc # "save"
  /\ output'["source-register"].attempt \in {attempts, 0}

Untouched == UNCHANGED <<output, stores, control, manifest>>

\* So a manifest stays true of the directory for as long as it has been.
LEMMA ReleaseKeeps ==
  ASSUME IInv, UNCHANGED verdict, attempts' \in Nat, attempts' >= attempts,
         call' # NoCall /\ call'.pc # "save" =>
           attempts' > attempts \/ (call # NoCall /\ call.pc # "save"),
         Untouched \/ Overwrites, NEW m, Release(m)
  PROVE  /\ Release(m)'
         /\ output'["source-register"].attempt = m.attempt =>
              output["source-register"].attempt = m.attempt
<1>1. attempts \in Nat /\ m.attempt \in 1..attempts
      /\ (call # NoCall /\ call.pc # "save" => m.attempt < attempts)
  BY DEF IInv, TypeInv, Release
<1>2. m.attempt \in 1..attempts'
      /\ (call' # NoCall /\ call'.pc # "save" => m.attempt < attempts')
  BY <1>1
<1>3. output'["source-register"].attempt = m.attempt => Untouched
  BY <1>1 DEF Overwrites
<1>4. Untouched => (OneRelease(m) <=> OneRelease(m)')
  BY DEF Untouched, OneRelease, StoresBound, Bound, Verifies, Directory
<1>5. output'["source-register"].attempt = m.attempt =>
        output["source-register"].attempt = m.attempt /\ OneRelease(m)'
  BY <1>3, <1>4 DEF Untouched, Release
<1>6. m.status = Approves(Sound)' /\ m.files.output["source-register"].attempt = m.attempt
  BY DEF Release, Sound
<1> QED BY <1>2, <1>5, <1>6 DEF Release

LEMMA DirectoryKeeps ==
  ASSUME IInv, UNCHANGED <<verdict, evaluation>>, attempts' \in Nat,
         attempts' >= attempts,
         call' # NoCall /\ call'.pc # "save" =>
           attempts' > attempts \/ (call # NoCall /\ call.pc # "save"),
         Untouched \/ Overwrites,
         manifest' = manifest \/ manifest' = Torn \/ Release(manifest)'
  PROVE  DirectoryInv'
<1>1. ManifestInv'
  <2>1. CASE manifest' = manifest /\ manifest \in {Absent, Torn}
    BY <2>1 DEF ManifestInv, Absent, Torn
  <2>2. CASE manifest' = manifest /\ Release(manifest)
    <3>1. PICK m : m = manifest
      OBVIOUS
    <3>2. Release(m)'
      BY <2>2, <3>1, ReleaseKeeps
    <3> QED BY <2>2, <3>1, <3>2 DEF ManifestInv
  <2>3. CASE manifest' = Torn \/ Release(manifest)'
    BY <2>3 DEF ManifestInv, Absent, Torn
  <2> QED BY <2>1, <2>2, <2>3 DEF IInv, DirectoryInv, ManifestInv
<1>2. EvaluationInv'
  <2> SUFFICES ASSUME evaluation.pc # "idle"
               PROVE  EvaluationInv'
    BY DEF EvaluationInv
  <2>1. Release(evaluation.manifest) /\ (evaluation.pc # "control" => Loading)
    BY DEF IInv, DirectoryInv, EvaluationInv
  <2>2. PICK m : m = evaluation.manifest
    OBVIOUS
  <2>3. /\ Release(m)'
        /\ output'["source-register"].attempt = m.attempt =>
             output["source-register"].attempt = m.attempt
    BY <2>1, <2>2, ReleaseKeeps
  <2>4. Overtaken => Overtaken'
    BY <2>2, <2>3 DEF Overtaken
  <2>5. Loading => Loading'
    BY <2>4 DEF Loading
  <2> QED BY <2>1, <2>2, <2>3, <2>5 DEF EvaluationInv
<1> QED BY <1>1, <1>2 DEF DirectoryInv

LEMMA StartKeeps == ASSUME IInv, Start PROVE IInv'
<1>1. /\ call = NoCall /\ attempts' = attempts + 1 /\ attempts \in Nat
      /\ UNCHANGED <<run, verdict, output, stores, control, manifest, evaluation>>
      /\ run.status = "READY_TO_FINALISE"
  BY DEF Start, At, IInv, CallInv, Shape, Points, Writing, Sealing, TypeInv
<1>2. /\ DOMAIN call' = Fields /\ call'.pc = "first" /\ call'.todo = FirstPass
      /\ call'.attempt = attempts' /\ call'.status = Approves(verdict.clear)
      /\ call'.epg = run.epg /\ call'.index = 1 /\ call'.heads = << >>
  BY <1>1 DEF Start, Fields
<1>3. TypeInv'
  BY <1>1 DEF IInv, TypeInv
<1>4. Shape'
  BY <1>2, PassChains DEF Shape, Points, Writing
<1>5. Decided' /\ Begun' /\ DocumentBound' /\ Controlled'
  BY <1>1, <1>2 DEF Decided, Begun, DocumentBound, Controlled
<1>6. Stamped'
  BY <1>2 DEF Stamped, Due
<1>7. Persisting'
  BY <1>2 DEF Persisting, Writing, Sealing
<1>8. CallInv'
  BY <1>1, <1>4, <1>5, <1>6, <1>7 DEF CallInv
<1>9. DirectoryInv'
  <2>1. attempts' \in Nat /\ attempts' > attempts
    BY <1>1
  <2> QED BY <1>1, <2>1, DirectoryKeeps DEF Untouched
<1>10. ClosedInv'
  BY <1>1, StillOpen
<1> QED BY <1>3, <1>8, <1>9, <1>10 DEF IInv

LEMMA WriteKeeps == ASSUME IInv, Write PROVE IInv'
<1>1. CallInv /\ call # NoCall /\ call.pc \in Writing /\ call.todo # << >>
  BY InCall DEF Write, Points
<1> DEFINE file == call.todo[1]
<1>2. /\ output' = [output EXCEPT ![file] = Stamp(file, attempts, call.status)]
      /\ UNCHANGED <<run, verdict, stores, control, manifest, attempts, evaluation>>
  BY <1>1 DEF Write, CallInv, Shape
<1>3. /\ DOMAIN call' = Fields /\ call'.pc = call.pc /\ call'.todo = Tail(call.todo)
      /\ call'.attempt = attempts /\ call'.status = call.status /\ call'.epg = call.epg
      /\ call'.index = call.index /\ call'.heads = call.heads /\ call' # NoCall
  <2>1. call' = [call EXCEPT !.todo = Tail(call.todo)] /\ DOMAIN call = Fields
    BY <1>1 DEF Write, CallInv, Shape
  <2>2. DOMAIN call' = Fields /\ DOMAIN NoCall # Fields
    BY <2>1 DEF Fields, NoCall
  <2> QED BY <1>1, <2>1, <2>2 DEF Fields, CallInv, Shape
<1>4. IsChain(Tail(call.todo)) /\ Named(call.todo) = {file} \cup Named(Tail(call.todo))
  BY <1>1, TailChain DEF CallInv, Shape
<1>5. DOMAIN output = Files /\ attempts \in Nat /\ attempts >= 1
  BY <1>1 DEF IInv, TypeInv, CallInv
<1>6. \A f \in Files : output'[f] =
        IF f = file THEN Stamp(file, attempts, call.status) ELSE output[f]
  BY <1>2, <1>5
<1>7. TypeInv'
  BY <1>2 DEF IInv, TypeInv
<1>8. Shape'
  BY <1>1, <1>2, <1>3, <1>4 DEF CallInv, Shape, Points
<1>9. Decided'
  BY <1>1, <1>2, <1>3 DEF CallInv, Decided, Sound
<1>10. Stamped'
  <2>1. Due(call.pc) \subseteq Files
    BY PassNames, FileNames DEF Due
  <2>2. ASSUME NEW f \in Due(call.pc), f \notin Named(Tail(call.todo))
        PROVE  output'[f] = Stamp(f, attempts, call.status)
    BY <1>1, <1>4, <1>6, <2>1, <2>2 DEF CallInv, Stamped
  <2> QED BY <1>2, <1>3, <2>2 DEF Stamped
<1>11. "source-register" \in Files
  BY FileNames
<1>12. output'["source-register"].attempt = attempts
  <2>1. CASE file = "source-register"
    BY <1>6, <1>11, <2>1 DEF Stamp
  <2>2. CASE file # "source-register"
    <3>1. FirstPass[1] = "source-register"
      BY DEF FirstPass
    <3>2. output["source-register"].attempt = attempts
      BY <1>1, <2>2, <3>1 DEF CallInv, Begun
    <3> QED BY <1>6, <1>11, <2>2, <3>2
  <2> QED BY <2>1, <2>2
<1>13. Begun'
  BY <1>2, <1>12 DEF Begun
<1>14. DocumentBound'
  BY <1>1, <1>2, <1>3 DEF CallInv, DocumentBound
<1>15. Persisting' /\ Controlled'
  BY <1>1, <1>3 DEF CallInv, Persisting, Controlled, Writing, Sealing
<1>16. CallInv'
  BY <1>1, <1>2, <1>8, <1>9, <1>10, <1>13, <1>14, <1>15 DEF CallInv
<1>17. DirectoryInv'
  BY <1>1, <1>2, <1>5, <1>12, DirectoryKeeps DEF Overwrites, Writing
<1>18. ClosedInv'
  BY <1>1, <1>2, StillOpen DEF CallInv
<1> QED BY <1>7, <1>16, <1>17, <1>18 DEF IInv

LEMMA BindKeeps ==
  ASSUME IInv, NEW from, NEW to, NEW todo, Bind(from, to, todo),
         \/ from = "first" /\ to = "second" /\ todo = SecondPass
         \/ from = "refresh" /\ to = "report" /\ todo = LastPass
  PROVE  IInv'
<1>1. CallInv /\ call # NoCall /\ call.pc = from /\ call.todo = << >>
  BY InCall DEF Bind, Written, At, Points, Writing
<1> DEFINE document == [attempt |-> attempts, status |-> call.status]
<1>2. UNCHANGED <<verdict, output, stores, control, manifest, attempts, evaluation>>
  BY DEF Bind
<1>3. /\ run'.status = "READY_TO_FINALISE"
      /\ verdict.epg => run'.epg = document
  BY <1>1 DEF Bind, CallInv, Shape
<1>4. /\ DOMAIN call' = Fields /\ call'.pc = to /\ call'.todo = todo
      /\ call'.attempt = attempts /\ call'.status = call.status
      /\ verdict.epg => call'.epg = document
      /\ call'.index = call.index /\ call'.heads = call.heads
  <2>1. PICK epg : /\ call' = [call EXCEPT !.pc = to, !.todo = todo, !.epg = epg]
                   /\ verdict.epg => epg = document
    BY <1>1 DEF Bind, CallInv, Shape
  <2>2. DOMAIN call = Fields /\ call.attempt = attempts
    BY <1>1 DEF CallInv, Shape
  <2> QED BY <2>1, <2>2 DEF Fields
<1> HIDE DEF document
<1>5. TypeInv'
  BY <1>2 DEF IInv, TypeInv
<1>6. Shape'
  BY <1>2, <1>4, PassChains DEF Shape, Points, Writing
<1>7. Decided'
  BY <1>1, <1>2, <1>4 DEF CallInv, Decided, Sound
<1>8. Stamped'
  <2>1. \A f \in Due(from) : output[f] = Stamp(f, attempts, call.status)
    BY <1>1, PassNames DEF CallInv, Stamped
  <2>2. Due(to) = Due(from) \cup Named(todo)
    BY DEF Due
  <2> QED BY <1>2, <1>4, <2>1, <2>2 DEF Stamped
<1>9. output["source-register"].attempt = attempts
  <2>1. FirstPass # << >>
    BY DEF FirstPass
  <2> QED BY <1>1, <2>1 DEF CallInv, Begun
<1>10. Begun' /\ DocumentBound'
  BY <1>2, <1>3, <1>4, <1>9 DEF Begun, DocumentBound, Of, document
<1>11. Persisting' /\ Controlled'
  BY <1>1, <1>4 DEF CallInv, Persisting, Controlled, Writing, Sealing
<1>12. CallInv'
  BY <1>1, <1>2, <1>3, <1>6, <1>7, <1>8, <1>10, <1>11 DEF CallInv
<1>13. DirectoryInv'
  BY <1>1, <1>2, DirectoryKeeps DEF Untouched, IInv, TypeInv
<1>14. ClosedInv'
  BY <1>3, StillOpen
<1> QED BY <1>5, <1>12, <1>13, <1>14 DEF IInv

LEMMA DecideKeeps == ASSUME IInv, Decide PROVE IInv'
<1>1. CallInv /\ call # NoCall /\ call.pc = "second" /\ call.todo = << >>
  BY InCall DEF Decide, Written, At, Points, Writing
<1>2. UNCHANGED <<run, verdict, output, stores, control, manifest, attempts, evaluation>>
  BY DEF Decide
<1>3. PICK to, todo, status :
        /\ call' = [call EXCEPT !.pc = to, !.todo = todo, !.status = status]
        /\ status = Approves(Sound)
        /\ \/ to = "report" /\ todo = LastPass /\ status = call.status
           \/ to = "refresh" /\ todo = Refreshed
  <2>1. DOMAIN call = Fields
    BY <1>1 DEF CallInv, Shape
  <2>2. CASE Approves(Sound) = call.status
    <3>1. call' = [call EXCEPT !.pc = "report", !.todo = LastPass]
      BY <2>2 DEF Decide, Sound
    <3>2. [call EXCEPT !.pc = "report", !.todo = LastPass]
            = [call EXCEPT !.pc = "report", !.todo = LastPass, !.status = call.status]
      BY <2>1 DEF Fields
    <3> QED BY <2>2, <3>1, <3>2
  <2>3. CASE Approves(Sound) # call.status
    BY <2>3 DEF Decide, Sound
  <2> QED BY <2>2, <2>3
<1>4. /\ DOMAIN call' = Fields /\ call'.pc = to /\ call'.todo = todo
      /\ call'.attempt = attempts /\ call'.status = status /\ call'.epg = call.epg
      /\ call'.index = call.index /\ call'.heads = call.heads
  BY <1>1, <1>3 DEF CallInv, Shape, Fields
<1>5. TypeInv'
  BY <1>2 DEF IInv, TypeInv
<1>6. Shape'
  BY <1>2, <1>3, <1>4, PassChains DEF Shape, Points, Writing
<1>7. Decided'
  BY <1>2, <1>3, <1>4 DEF Decided, Sound
<1>8. Stamped'
  <2>1. \A f \in Due("second") : output[f] = Stamp(f, attempts, call.status)
    BY <1>1, PassNames DEF CallInv, Stamped
  <2>2. CASE to = "report"
    <3>1. Due(to) = Due("second") \cup Named(LastPass)
      BY <2>2 DEF Due
    <3> QED BY <1>2, <1>3, <1>4, <2>1, <2>2, <3>1 DEF Stamped
  <2>3. CASE to = "refresh"
    <3>1. Due(to) = Due("second")
      BY <2>3 DEF Due
    <3>2. \A f \in Due(to) : f \in Named(Refreshed) \/ f \notin BearStatus
      BY <2>3, PassNames, BearNames DEF Due
    <3>3. \A f \in Due(to) : f \notin BearStatus =>
             Stamp(f, attempts, call.status) = Stamp(f, attempts, status)
      BY DEF Stamp
    <3> QED BY <1>2, <1>3, <1>4, <2>1, <2>3, <3>1, <3>2, <3>3 DEF Stamped
  <2> QED BY <1>3, <2>2, <2>3
<1>9. Begun' /\ DocumentBound'
  BY <1>1, <1>2, <1>3, <1>4 DEF CallInv, Begun, DocumentBound
<1>10. Persisting' /\ Controlled'
  BY <1>1, <1>3, <1>4 DEF CallInv, Persisting, Controlled, Writing, Sealing
<1>11. CallInv'
  BY <1>1, <1>2, <1>6, <1>7, <1>8, <1>9, <1>10 DEF CallInv
<1>12. DirectoryInv'
  BY <1>1, <1>2, DirectoryKeeps DEF Untouched, IInv, TypeInv
<1>13. ClosedInv'
  BY <1>1, <1>2, StillOpen DEF CallInv
<1> QED BY <1>5, <1>11, <1>12, <1>13 DEF IInv

-----------------------------------------------------------------------------
(* The stores. *)

\* A call that ends without an outcome: by an error, or by a death.
LEMMA EndKeeps ==
  ASSUME IInv, CallInv, call # NoCall, call' = NoCall,
         UNCHANGED <<verdict, attempts, evaluation>>, run' \in {run, TornRun},
         DOMAIN output' = Files, DOMAIN stores' = StoreNames,
         \A s \in StoreNames : IsChain(stores'[s]),
         manifest' = manifest \/ manifest' = Torn,
         Untouched \/ Overwrites
  PROVE  IInv'
<1>1. TypeInv'
  BY DEF IInv, TypeInv
<1>2. DirectoryInv'
  BY DirectoryKeeps DEF IInv, TypeInv
<1>3. ClosedInv'
  BY StillOpen DEF CallInv, TornRun
<1> QED BY <1>1, <1>2, <1>3 DEF IInv

\* A step of the call that writes no artefact, changes its status nowhere and has
\* nothing left to write.
LEMMA StepKeeps ==
  ASSUME IInv, CallInv, call.pc \notin Writing \/ call.pc = "report",
         call.pc # "save", call.todo = << >>,
         UNCHANGED <<run, verdict, output, attempts, evaluation>>,
         DOMAIN call' = Fields, call'.pc \in Points \ Writing, call'.todo = << >>,
         call'.attempt = attempts, call'.status = call.status, call'.epg = call.epg,
         Due(call'.pc) \subseteq Due(call.pc)
  PROVE  /\ run'.status = "READY_TO_FINALISE" /\ attempts' >= 1
         /\ Shape' /\ Decided' /\ Stamped' /\ Begun' /\ DocumentBound'
         /\ UNCHANGED manifest => DirectoryInv'
<1>1. Shape'
  BY PassChains DEF Shape, Points
<1>2. Decided' /\ Begun' /\ DocumentBound'
  <2>1. call.pc \notin {"first", "second", "refresh"}
        /\ call'.pc \notin {"first", "second", "refresh"}
    BY DEF Writing, Points, Sealing
  <2> QED BY <2>1 DEF CallInv, Decided, Begun, DocumentBound, Sound
<1>3. Stamped'
  BY DEF CallInv, Stamped
<1>4. call # NoCall
  BY InCall DEF CallInv, Shape
<1>5. UNCHANGED manifest => DirectoryInv'
  <2>1. output["source-register"].attempt = attempts
    BY DEF CallInv, Begun, Writing
  <2> QED BY <1>4, <2>1, DirectoryKeeps DEF Overwrites, IInv, TypeInv
<1> QED BY <1>1, <1>2, <1>3, <1>5 DEF CallInv

LEMMA BeginStoresKeeps == ASSUME IInv, BeginStores PROVE IInv'
<1>1. CallInv /\ call.pc = "report" /\ call.todo = << >>
  BY InCall DEF BeginStores, Written, At, Points, Writing
<1>2. UNCHANGED <<run, verdict, output, stores, control, manifest, attempts, evaluation>>
  BY DEF BeginStores
<1>3. /\ DOMAIN call' = Fields /\ call'.pc = "read" /\ call'.todo = << >>
      /\ call'.attempt = attempts /\ call'.status = call.status /\ call'.epg = call.epg
      /\ call'.index = 1 /\ call'.heads = << >>
  <2>1. call' = [call EXCEPT !.pc = "read"] /\ DOMAIN call = Fields
    BY <1>1 DEF BeginStores, Go, CallInv, Shape
  <2> QED BY <1>1, <2>1 DEF Fields, CallInv, Shape, Persisting, Writing
<1>4. call'.pc \in Points \ Writing /\ Due(call'.pc) \subseteq Due(call.pc)
  BY <1>1, <1>3 DEF Points, Writing, Due
<1>5. TypeInv'
  BY <1>2 DEF IInv, TypeInv
<1>6. Persisting' /\ Controlled'
  <2>1. AppendedTo(0)'
    BY <1>3, PassChains DEF AppendedTo
  <2> QED BY <1>3, <2>1 DEF Persisting, Controlled, Writing, Sealing
<1>7. /\ run'.status = "READY_TO_FINALISE" /\ attempts' >= 1
      /\ Shape' /\ Decided' /\ Stamped' /\ Begun' /\ DocumentBound' /\ DirectoryInv'
  BY <1>1, <1>2, <1>3, <1>4, StepKeeps
<1> QED BY <1>5, <1>6, <1>7, StillOpen DEF IInv, CallInv

LEMMA ReadStoreKeeps == ASSUME IInv, ReadStore PROVE IInv'
<1>1. CallInv /\ call.pc = "read" /\ call.todo = << >>
  BY InCall DEF ReadStore, At, Points, CallInv, Shape, Writing
<1>2. UNCHANGED <<run, verdict, output, stores, control, manifest, attempts, evaluation>>
  BY DEF ReadStore
<1>3. /\ DOMAIN call' = Fields /\ call'.pc = "append" /\ call'.todo = << >>
      /\ call'.attempt = attempts /\ call'.status = call.status /\ call'.epg = call.epg
      /\ call'.index = call.index /\ call'.heads = call.heads
      /\ call'.lines = Found(stores[Store])
  <2>1. /\ call' = [call EXCEPT !.pc = "append", !.lines = Found(stores[Store])]
        /\ DOMAIN call = Fields
    BY <1>1 DEF ReadStore, CallInv, Shape
  <2> QED BY <1>1, <2>1 DEF Fields, CallInv, Shape
<1>4. call'.pc \in Points \ Writing /\ Due(call'.pc) \subseteq Due(call.pc)
  BY <1>1, <1>3 DEF Points, Writing, Due
<1>5. TypeInv'
  BY <1>2 DEF IInv, TypeInv
<1>6. Persisting' /\ Controlled'
  <2>1. call.index \in 1..5 /\ AppendedTo(call.index - 1) /\ Extensible(stores[Store])
    BY <1>1 DEF ReadStore, CallInv, Persisting
  <2>2. AppendedTo(call.index - 1)' /\ Store' = Store
    BY <1>2, <1>3, <2>1 DEF AppendedTo, Store
  <2> QED BY <1>2, <1>3, <2>1, <2>2 DEF Persisting, Controlled, Writing, Sealing
<1>7. /\ run'.status = "READY_TO_FINALISE" /\ attempts' >= 1
      /\ Shape' /\ Decided' /\ Stamped' /\ Begun' /\ DocumentBound' /\ DirectoryInv'
  BY <1>1, <1>2, <1>3, <1>4, StepKeeps DEF Writing
<1> QED BY <1>5, <1>6, <1>7, StillOpen DEF IInv, CallInv

LEMMA StoreErrorKeeps == ASSUME IInv, StoreError PROVE IInv'
<1>1. CallInv /\ call # NoCall
  BY InCall DEF StoreError, At, Points
<1> QED BY <1>1, EndKeeps DEF StoreError, Fail, Untouched, IInv, TypeInv

\* The record that is appended supersedes what was active in the store.
LEMMA AppendRecordKeeps == ASSUME IInv, AppendRecord PROVE IInv'
<1>1. CallInv /\ call.pc = "append" /\ call.todo = << >>
  BY InCall DEF AppendRecord, At, Points, CallInv, Shape, Writing
<1>2. UNCHANGED <<run, verdict, output, control, manifest, attempts, evaluation>>
  BY DEF AppendRecord
<1>3. PICK r : r = Appended(call.lines, output[Artefact(Store)])
  OBVIOUS
<1>4. PICK n : n = call.index
  OBVIOUS
<1>5. /\ n \in 1..5 /\ AppendedTo(n - 1) /\ call.lines = Found(stores[Store])
      /\ Store = RunStores[n] /\ Store \in StoreNames
  BY <1>1, <1>4, RunStoreNames DEF CallInv, Persisting, Store
<1>6. /\ stores' = [stores EXCEPT ![Store] = AddLine(Found(stores[Store]), r)]
      /\ call' = IF ~Verifies(stores'[Store]) THEN NoCall
                 ELSE [call EXCEPT !.pc = IF n = 5 THEN "verify" ELSE "read",
                                   !.index = IF n = 5 THEN call.index ELSE call.index + 1,
                                   !.heads = Append(call.heads, r.id)]
  BY <1>3, <1>4, RunStoreNames DEF AppendRecord
<1>7. IsChain(Found(stores[Store])) /\ r.supersedes = Active(Found(stores[Store]))
  BY <1>3, <1>5, PassChains DEF IInv, TypeInv, Found, Appended, NextRecord
<1>8. /\ IsChain(stores'[Store])
      /\ Verifies(stores'[Store]) => Active(stores'[Store]) \subseteq {r.id}
      /\ DOMAIN stores' = StoreNames
      /\ \A s \in StoreNames : s # Store => stores'[s] = stores[s]
  <2>1. PICK l : l = Found(stores[Store])
    OBVIOUS
  <2>2. /\ IsChain(AddLine(l, r))
        /\ Verifies(AddLine(l, r)) => Active(AddLine(l, r)) \subseteq {r.id}
    BY <1>7, <2>1, AddLineChain, AppendSupersedes
  <2>3. stores'[Store] = AddLine(l, r)
    BY <1>5, <1>6, <2>1 DEF IInv, TypeInv
  <2> QED BY <1>5, <1>6, <2>2, <2>3 DEF IInv, TypeInv
<1>9. \A s \in StoreNames : IsChain(stores'[s])
  BY <1>8 DEF IInv, TypeInv
<1>10. CASE call' = NoCall
  <2>1. call # NoCall /\ Overwrites
    BY <1>1, <1>2, InCall DEF Overwrites, CallInv, Begun, Points
  <2> QED BY <1>1, <1>2, <1>8, <1>9, <1>10, <2>1, EndKeeps DEF IInv, TypeInv
<1>11. CASE Verifies(stores'[Store])
  <2>1. /\ DOMAIN call' = Fields /\ call'.pc = (IF n = 5 THEN "verify" ELSE "read")
        /\ call'.todo = << >> /\ call'.attempt = attempts
        /\ call'.status = call.status /\ call'.epg = call.epg
        /\ call'.index = (IF n = 5 THEN n ELSE n + 1)
        /\ call'.heads = Append(call.heads, r.id)
    <3>1. DOMAIN call = Fields /\ call.attempt = attempts
      BY <1>1 DEF CallInv, Shape
    <3> QED BY <1>1, <1>4, <1>6, <1>11, <3>1 DEF Fields
  <2>2. call'.pc \in Points \ Writing /\ Due(call'.pc) \subseteq Due(call.pc)
    BY <1>1, <2>1 DEF Points, Writing, Due
  <2>3. AppendedTo(n)'
    <3>1. /\ IsChain(call'.heads) /\ Len(call'.heads) = n /\ call'.heads[n] = r.id
          /\ \A i \in 1..(n - 1) : call'.heads[i] = call.heads[i]
      BY <1>5, <2>1, AppendChain, ChainEntries DEF AppendedTo
    <3>2. ASSUME NEW i \in 1..n
          PROVE  Active(stores'[RunStores[i]]) \subseteq {call'.heads[i]}
      <4>1. CASE i = n
        BY <1>5, <1>8, <1>11, <3>1, <4>1
      <4>2. CASE i # n
        <5>1. i \in 1..(n - 1) /\ i \in 1..5
          BY <1>5, <4>2
        <5>2. RunStores[i] \in StoreNames /\ RunStores[i] # Store
          BY <1>5, <4>2, <5>1, RunStoreNames
        <5>3. stores'[RunStores[i]] = stores[RunStores[i]]
          BY <1>8, <5>2
        <5> QED BY <1>5, <3>1, <5>1, <5>3 DEF AppendedTo
      <4> QED BY <4>1, <4>2
    <3> QED BY <3>1, <3>2 DEF AppendedTo
  <2>4. Persisting' /\ Controlled'
    <3>1. CASE n = 5
      BY <2>1, <2>3, <3>1 DEF Persisting, Controlled, Writing, Sealing
    <3>2. CASE n # 5
      <4>1. call'.index - 1 = n /\ call'.index \in 1..5
        BY <1>5, <2>1, <3>2
      <4>2. AppendedTo(call.index - 1)'
        BY <2>3, <4>1 DEF AppendedTo
      <4> QED BY <2>1, <3>2, <4>1, <4>2 DEF Persisting, Controlled, Writing, Sealing
    <3> QED BY <3>1, <3>2
  <2>5. TypeInv'
    BY <1>2, <1>8, <1>9 DEF IInv, TypeInv
  <2>6. /\ run'.status = "READY_TO_FINALISE" /\ attempts' >= 1
        /\ Shape' /\ Decided' /\ Stamped' /\ Begun' /\ DocumentBound' /\ DirectoryInv'
    BY <1>1, <1>2, <2>1, <2>2, StepKeeps DEF Writing
  <2> QED BY <2>4, <2>5, <2>6, StillOpen DEF IInv, CallInv
<1> QED BY <1>6, <1>10, <1>11

LEMMA VerifyStoresKeeps == ASSUME IInv, VerifyStores PROVE IInv'
<1>1. CallInv /\ call.pc = "verify" /\ call.todo = << >>
  BY InCall DEF VerifyStores, At, Points, CallInv, Shape, Writing
<1>2. UNCHANGED <<run, verdict, output, stores, control, manifest, attempts, evaluation>>
  BY DEF VerifyStores
<1>3. CASE ~StoresBound
  BY <1>1, <1>2, <1>3, InCall, EndKeeps
     DEF VerifyStores, Fail, Untouched, Points, IInv, TypeInv
<1>4. CASE StoresBound
  <2>1. /\ DOMAIN call' = Fields /\ call'.pc = "chain" /\ call'.todo = << >>
        /\ call'.attempt = attempts /\ call'.status = call.status
        /\ call'.epg = call.epg /\ call'.heads = call.heads
    <3>1. call' = [call EXCEPT !.pc = "chain"] /\ DOMAIN call = Fields
      BY <1>1, <1>4 DEF VerifyStores, Go, CallInv, Shape
    <3> QED BY <1>1, <3>1 DEF Fields, CallInv, Shape
  <2>2. call'.pc \in Points \ Writing /\ Due(call'.pc) \subseteq Due(call.pc)
    BY <1>1, <2>1 DEF Points, Writing, Sealing, Due
  <2>3. TypeInv'
    BY <1>2 DEF IInv, TypeInv
  <2>4. AppendedTo(5)' /\ StoresBound'
    BY <1>1, <1>2, <1>4, <2>1
       DEF CallInv, Persisting, Sealing, AppendedTo, StoresBound, Bound, Verifies
  <2>5. Persisting' /\ Controlled'
    BY <2>1, <2>4 DEF Persisting, Controlled, Writing, Sealing
  <2>6. /\ run'.status = "READY_TO_FINALISE" /\ attempts' >= 1
        /\ Shape' /\ Decided' /\ Stamped' /\ Begun' /\ DocumentBound' /\ DirectoryInv'
    BY <1>1, <1>2, <2>1, <2>2, StepKeeps DEF Writing
  <2> QED BY <2>3, <2>5, <2>6, StillOpen DEF IInv, CallInv
<1> QED BY <1>3, <1>4

-----------------------------------------------------------------------------
(* The end of a call. *)

\* What holds from the moment at which the stores were verified.
LEMMA AtEnd ==
  ASSUME IInv, call.pc \in Sealing
  PROVE  /\ CallInv /\ call # NoCall /\ call.todo = << >> /\ AppendedTo(5) /\ StoresBound
         /\ call.status = Approves(Sound) /\ Named(call.todo) = {}
         /\ \A f \in Files \ {"integrity-chain"} :
              output[f] = Stamp(f, attempts, call.status)
         /\ call.pc # "chain" =>
              \A f \in Files : output[f] = Stamp(f, attempts, call.status)
         /\ verdict.epg =>
              call.epg = run.epg /\ Of(run.epg, attempts, call.status)
<1>1. CallInv /\ call # NoCall
  BY InCall DEF Points
<1>2. call.todo = << >> /\ AppendedTo(5) /\ StoresBound /\ call.status = Approves(Sound)
  BY <1>1 DEF CallInv, Shape, Persisting, Decided, Sealing, Writing
<1>3. Named(call.todo) = {}
  BY <1>2, PassNames
<1>4. Files \ {"integrity-chain"} \subseteq Due(call.pc)
      /\ (call.pc # "chain" => Files \subseteq Due(call.pc))
  BY DEF Files, Due, Sealing
<1>5. verdict.epg => call.epg = run.epg /\ Of(run.epg, attempts, call.status)
  BY <1>1 DEF CallInv, DocumentBound, Sealing
<1> QED BY <1>1, <1>2, <1>3, <1>4, <1>5 DEF CallInv, Stamped

\* The heads that the call has noted are those of the stores.
LEMMA HeadsActive ==
  ASSUME AppendedTo(5), StoresBound, NEW i \in 1..5
  PROVE  call.heads[i] = ActiveRecord(stores[RunStores[i]]).id
<1>1. OneActive(stores[RunStores[i]])
  BY RunStoreNames DEF StoresBound, Bound
<1>2. Active(stores[RunStores[i]]) \subseteq {call.heads[i]}
  BY DEF AppendedTo
<1>3. PICK h : h = call.heads[i]
  OBVIOUS
<1>4. PICK file : file = stores[RunStores[i]]
  OBVIOUS
<1>5. ActiveRecord(file).id = h
  BY <1>1, <1>2, <1>3, <1>4, ActiveIs
<1> QED BY <1>3, <1>4, <1>5

\* A step from one of the last points to the next.
LEMMA SealKeeps ==
  ASSUME IInv, call.pc \in Sealing, NEW to \in Sealing \ {"chain"},
         UNCHANGED <<run, verdict, stores, attempts, evaluation>>,
         call' = [call EXCEPT !.pc = to], DOMAIN output' = Files,
         \A f \in Files \ {"integrity-chain"} : output'[f] = output[f],
         output'["integrity-chain"] = Stamp("integrity-chain", attempts, call.status)
  PROVE  /\ TypeInv' /\ run'.status = "READY_TO_FINALISE" /\ attempts' >= 1
         /\ Shape' /\ Decided' /\ Stamped' /\ Begun' /\ DocumentBound' /\ Persisting'
         /\ call'.pc = to /\ call'.status = call.status /\ call'.heads = call.heads
<1>1. /\ CallInv /\ call.todo = << >>
      /\ \A f \in Files \ {"integrity-chain"} :
           output[f] = Stamp(f, attempts, call.status)
      /\ AppendedTo(5) /\ StoresBound /\ call.status = Approves(Sound)
      /\ verdict.epg => call.epg = run.epg /\ Of(run.epg, attempts, call.status)
  BY AtEnd
<1>2. /\ DOMAIN call' = Fields /\ call'.pc = to /\ call'.todo = << >>
      /\ call'.attempt = attempts /\ call'.status = call.status
      /\ call'.epg = call.epg /\ call'.heads = call.heads
  BY <1>1 DEF CallInv, Shape, Fields
<1>3. TypeInv'
  BY DEF IInv, TypeInv
<1>4. Shape'
  BY <1>2, PassChains DEF Shape, Points
<1>5. Decided' /\ DocumentBound'
  BY <1>1, <1>2 DEF Decided, DocumentBound, Sound, Sealing
<1>6. \A f \in Files : output'[f] = Stamp(f, attempts, call.status)
  BY <1>1
<1>7. Stamped'
  <2>1. Due(to) \subseteq Files
    BY DEF Due, Files
  <2> QED BY <1>2, <1>6, <2>1 DEF Stamped
<1>8. Begun'
  <2>1. output'["source-register"].attempt = attempts
    BY <1>6, FileNames DEF Stamp
  <2> QED BY <2>1 DEF Begun
<1>9. StoresBound'
  <2>1. \A s \in StoreNames : output'[Artefact(s)] = output[Artefact(s)]
    BY RunStoreNames
  <2> QED BY <1>1, <2>1 DEF StoresBound, Bound, Verifies
<1>10. AppendedTo(5)'
  BY <1>1, <1>2 DEF AppendedTo
<1>11. Persisting'
  BY <1>2, <1>9, <1>10 DEF Persisting, Sealing, Writing
<1> QED BY <1>1, <1>2, <1>3, <1>4, <1>5, <1>7, <1>8, <1>11 DEF CallInv

LEMMA WriteChainKeeps == ASSUME IInv, WriteChain PROVE IInv'
<1>1. call.pc = "chain" /\ CallInv /\ call # NoCall
  BY AtEnd DEF WriteChain, At, Sealing
<1>2. /\ call' = [call EXCEPT !.pc = "control"]
      /\ output' = [output EXCEPT !["integrity-chain"] =
                      Stamp("integrity-chain", attempts, call.status)]
      /\ UNCHANGED <<run, verdict, stores, control, manifest, attempts, evaluation>>
  BY <1>1 DEF WriteChain, Go, CallInv, Shape
<1>3. /\ DOMAIN output' = Files
      /\ \A f \in Files \ {"integrity-chain"} : output'[f] = output[f]
      /\ output'["integrity-chain"] = Stamp("integrity-chain", attempts, call.status)
      /\ output'["source-register"] = output["source-register"]
  BY <1>2, FileNames DEF IInv, TypeInv
<1>4. "control" \in Sealing \ {"chain"} /\ call.pc \in Sealing
  BY <1>1 DEF Sealing
<1>5. /\ TypeInv' /\ run'.status = "READY_TO_FINALISE" /\ attempts' >= 1
      /\ Shape' /\ Decided' /\ Stamped' /\ Begun' /\ DocumentBound' /\ Persisting'
      /\ call'.pc = "control"
  BY <1>2, <1>3, <1>4, SealKeeps
<1>6. Controlled'
  BY <1>5 DEF Controlled
<1>7. DirectoryInv'
  <2>1. Overwrites
    BY <1>1, <1>3 DEF Overwrites, CallInv, Begun
  <2> QED BY <1>1, <1>2, <2>1, DirectoryKeeps DEF IInv, TypeInv
<1> QED BY <1>5, <1>6, <1>7, StillOpen DEF IInv, CallInv

LEMMA WriteControlKeeps == ASSUME IInv, WriteControl PROVE IInv'
<1>1. /\ call.pc = "control" /\ CallInv /\ call # NoCall
      /\ \A f \in Files : output[f] = Stamp(f, attempts, call.status)
  BY AtEnd DEF WriteControl, At, Sealing
<1>2. /\ call' = [call EXCEPT !.pc = "manifest"]
      /\ control' = [attempt |-> attempts, status |-> call.status, heads |-> call.heads]
      /\ UNCHANGED <<run, verdict, output, stores, manifest, attempts, evaluation>>
  BY <1>1 DEF WriteControl, Go, CallInv, Shape
<1>3. "manifest" \in Sealing \ {"chain"} /\ call.pc \in Sealing
      /\ DOMAIN output' = Files /\ "integrity-chain" \in Files
  BY <1>1, <1>2, FileNames DEF Sealing, IInv, TypeInv
<1>4. /\ TypeInv' /\ run'.status = "READY_TO_FINALISE" /\ attempts' >= 1
      /\ Shape' /\ Decided' /\ Stamped' /\ Begun' /\ DocumentBound' /\ Persisting'
      /\ call'.pc = "manifest" /\ call'.status = call.status /\ call'.heads = call.heads
  BY <1>1, <1>2, <1>3, SealKeeps
<1>5. Controlled'
  BY <1>2, <1>4 DEF Controlled
<1>6. DirectoryInv'
  <2>1. Overwrites
    BY <1>1, <1>2 DEF Overwrites, CallInv, Begun
  <2> QED BY <1>1, <1>2, <2>1, DirectoryKeeps DEF IInv, TypeInv
<1> QED BY <1>4, <1>5, <1>6, StillOpen DEF IInv, CallInv

\* The manifest describes one release of this call.
LEMMA WriteManifestKeeps == ASSUME IInv, WriteManifest PROVE IInv'
<1>1. /\ call.pc = "manifest" /\ CallInv /\ call # NoCall
      /\ \A f \in Files : output[f] = Stamp(f, attempts, call.status)
      /\ call.status = Approves(Sound)
      /\ verdict.epg => Of(run.epg, attempts, call.status)
  BY AtEnd DEF WriteManifest, At, Sealing
<1>2. /\ call' = [call EXCEPT !.pc = "save"]
      /\ manifest' = [attempt |-> attempts, status |-> call.status, files |-> Directory]
      /\ UNCHANGED <<run, verdict, output, stores, control, attempts, evaluation>>
  BY <1>1 DEF WriteManifest, Go, CallInv, Shape
<1>3. "save" \in Sealing \ {"chain"} /\ call.pc \in Sealing
      /\ DOMAIN output' = Files /\ "integrity-chain" \in Files
  BY <1>1, <1>2, FileNames DEF Sealing, IInv, TypeInv
<1>4. /\ TypeInv' /\ run'.status = "READY_TO_FINALISE" /\ attempts' >= 1
      /\ Shape' /\ Decided' /\ Stamped' /\ Begun' /\ DocumentBound' /\ Persisting'
      /\ call'.pc = "save" /\ call'.status = call.status /\ call'.heads = call.heads
  BY <1>1, <1>2, <1>3, SealKeeps
<1>5. control = [attempt |-> attempts, status |-> call.status, heads |-> call.heads]
  BY <1>1 DEF CallInv, Controlled
<1>6. Controlled'
  BY <1>2, <1>4, <1>5 DEF Controlled, Directory
<1>7. OneRelease(manifest)'
  <2>1. PICK m : m = [attempt |-> attempts, status |-> call.status, files |-> Directory]
    OBVIOUS
  <2>2. OneRelease(m)'
    <3>1. StoresBound /\ StoresBound'
      BY <1>1, <1>2, AtEnd DEF StoresBound, Bound, Verifies, Sealing
    <3>2. \A i \in DOMAIN RunStores :
            control'.heads[i] = ActiveRecord(stores'[RunStores[i]]).id
      <4>1. AppendedTo(5)
        BY <1>1, AtEnd DEF Sealing
      <4> QED BY <1>2, <1>5, <3>1, <4>1, HeadsActive, RunStoreNames DEF ActiveRecord
    <3> QED BY <1>1, <1>2, <1>5, <2>1, <3>1, <3>2 DEF OneRelease, Directory
  <2> QED BY <1>2, <2>1, <2>2
<1>8. Release(manifest)'
  <2>1. manifest'.attempt = attempts /\ manifest'.status = call.status
        /\ manifest'.files.output["source-register"].attempt = attempts
    BY <1>1, <1>2, FileNames DEF Directory, Stamp
  <2>2. attempts \in 1..attempts
    BY <1>1 DEF IInv, TypeInv, CallInv
  <2> QED BY <1>1, <1>2, <1>4, <1>7, <2>1, <2>2 DEF Release, Sound
<1>9. DirectoryInv'
  <2>1. Overwrites
    BY <1>1, <1>2 DEF Overwrites, CallInv, Begun
  <2> QED BY <1>1, <1>2, <1>8, <2>1, DirectoryKeeps DEF IInv, TypeInv
<1> QED BY <1>4, <1>6, <1>9, StillOpen DEF IInv, CallInv

\* The outcome is saved: what is in the directory is this call's, all of it.
LEMMA SaveKeeps == ASSUME IInv, Save PROVE IInv'
<1>1. /\ call.pc = "save" /\ CallInv /\ call # NoCall
      /\ \A f \in Files : output[f] = Stamp(f, attempts, call.status)
      /\ verdict.epg => call.epg = run.epg /\ Of(run.epg, attempts, call.status)
  BY AtEnd DEF Save, At, Sealing
<1>2. manifest = [attempt |-> attempts, status |-> call.status, files |-> Directory]
  BY <1>1 DEF CallInv, Controlled
<1>3. /\ call' = NoCall
      /\ UNCHANGED <<verdict, output, stores, control, manifest, attempts, evaluation>>
      /\ run'.status = call.status /\ run'.epg = call.epg
  BY <1>2 DEF Save, Fail
<1>4. TypeInv'
  BY <1>3 DEF IInv, TypeInv
<1>5. DirectoryInv'
  BY <1>1, <1>3, DirectoryKeeps DEF Untouched, IInv, TypeInv
<1>6. OneRelease(manifest)
  <2>1. Release(manifest)
    BY <1>2 DEF IInv, DirectoryInv, ManifestInv, Absent, Torn
  <2>2. output["source-register"].attempt = manifest.attempt
    BY <1>1, <1>2, FileNames DEF Stamp
  <2> QED BY <2>1, <2>2 DEF Release
<1>7. OneRelease(manifest)'
  BY <1>3, <1>6 DEF OneRelease, StoresBound, Bound, Verifies, Directory
<1>8. ClosedInv'
  BY <1>1, <1>2, <1>3, <1>7 DEF ClosedInv, ClosedIsOneRelease
<1> QED BY <1>3, <1>4, <1>5, <1>8 DEF IInv

\* A death: the file that was being written is torn.
LEMMA CrashKeeps == ASSUME IInv, Crash PROVE IInv'
<1>1. CallInv /\ call # NoCall
  <2>1. call # NoCall
    BY FinalizationAssumption DEF Crash, NoCall
  <2> QED BY <2>1 DEF IInv
<1>2. /\ call' = NoCall /\ UNCHANGED <<verdict, attempts, evaluation>>
      /\ run' \in {run, TornRun}
  BY DEF Crash, Fail
<1>3. \/ UNCHANGED output
      \/ \E f \in Files :
           /\ output' = [output EXCEPT ![f] = Torn]
           /\ \/ call.pc \in Writing /\ call.todo # << >> /\ call.todo[1] = f
              \/ call.pc = "chain" /\ f = "integrity-chain"
  BY DEF Crash, At
<1>4. DOMAIN output' = Files
  BY <1>3 DEF IInv, TypeInv
<1>5. /\ UNCHANGED stores \/ call.pc = "append"
      /\ DOMAIN stores' = StoreNames /\ \A s \in StoreNames : IsChain(stores'[s])
  <2>1. CASE UNCHANGED stores
    BY <2>1 DEF IInv, TypeInv
  <2>2. CASE ~UNCHANGED stores
    <3>1. PICK record : record = Appended(call.lines, output[Artefact(Store)])
      OBVIOUS
    <3>2. PICK s, lines :
            /\ s \in StoreNames /\ call.pc = "append" /\ s = Store
            /\ stores' = [stores EXCEPT ![s] = lines]
            /\ lines \in {call.lines} \cup {AddLine(call.lines, line) :
                            line \in {TornLine, Unended(record), record}}
      BY <2>2, <3>1 DEF Crash, At
    <3>3. IsChain(call.lines)
      BY <1>1, <3>2, PassChains DEF CallInv, Persisting, IInv, TypeInv, Found
    <3>4. IsChain(lines)
      BY <3>2, <3>3, AddLineChain
    <3> QED BY <3>2, <3>4 DEF IInv, TypeInv
  <2> QED BY <2>1, <2>2
<1>6. /\ control' = control \/ call.pc = "control"
      /\ manifest' = manifest \/ (manifest' = Torn /\ call.pc = "manifest")
  BY DEF Crash, At
<1>7. Untouched \/ Overwrites
  <2>1. CASE UNCHANGED output
    <3>1. CASE call.pc \in {"append", "control", "manifest"}
      BY <1>1, <2>1, <3>1 DEF Overwrites, CallInv, Begun
    <3>2. CASE call.pc \notin {"append", "control", "manifest"}
      BY <1>5, <1>6, <2>1, <3>2 DEF Untouched
    <3> QED BY <3>1, <3>2
  <2>2. ASSUME NEW f \in Files, output' = [output EXCEPT ![f] = Torn],
               \/ call.pc \in Writing /\ call.todo # << >> /\ call.todo[1] = f
               \/ call.pc = "chain" /\ f = "integrity-chain"
        PROVE  Overwrites
    <3>1. call.pc # "save" /\ "source-register" \in Files /\ DOMAIN output = Files
      BY <2>2, FileNames DEF Writing, IInv, TypeInv
    <3>2. CASE f = "source-register"
      BY <1>1, <2>2, <3>1, <3>2 DEF Overwrites, Torn
    <3>3. CASE f # "source-register"
      <4>1. FirstPass[1] = "source-register"
        BY DEF FirstPass
      <4>2. output["source-register"].attempt = attempts
        BY <1>1, <2>2, <3>3, <4>1 DEF CallInv, Begun
      <4> QED BY <1>1, <2>2, <3>1, <3>3, <4>2 DEF Overwrites
    <3> QED BY <3>2, <3>3
  <2> QED BY <1>3, <2>1, <2>2
<1> QED BY <1>1, <1>2, <1>4, <1>5, <1>6, <1>7, EndKeeps

-----------------------------------------------------------------------------
(* The steps of an evaluation. *)

LEMMA StayKeeps ==
  ASSUME IInv, UNCHANGED <<run, verdict, output, stores, control, manifest, call, attempts>>
  PROVE  /\ TypeInv' /\ (call = NoCall \/ CallInv)' /\ ManifestInv' /\ ClosedInv'
         /\ \A m : Release(m) => Release(m)'
<1>1. CallInv => CallInv'
  BY DEF CallInv, Shape, Decided, Sound, Stamped, Begun, DocumentBound,
         Persisting, AppendedTo, Store, StoresBound, Bound, Verifies, Controlled,
         Directory
<1>2. \A m : OneRelease(m) <=> OneRelease(m)'
  BY DEF OneRelease, StoresBound, Bound, Verifies, Directory
<1>3. \A m : Release(m) => Release(m)'
  BY <1>2 DEF Release, Sound
<1>4. PICK m : m = manifest
  OBVIOUS
<1>5. ManifestInv'
  <2>1. m \in {Absent, Torn} \/ Release(m)'
    BY <1>3, <1>4 DEF IInv, DirectoryInv, ManifestInv
  <2> QED BY <1>4, <2>1 DEF ManifestInv
<1>6. ClosedInv'
  <2>1. OneRelease(m) => OneRelease(m)'
    BY <1>2
  <2> QED BY <1>4, <2>1 DEF IInv, ClosedInv, Closed, ClosedIsOneRelease
<1>7. TypeInv' /\ (call = NoCall \/ CallInv)'
  BY <1>1 DEF IInv, TypeInv
<1> QED BY <1>3, <1>5, <1>6, <1>7

\* An evaluation that goes on with the manifest it has loaded.
LEMMA LoadingKeeps ==
  ASSUME IInv, evaluation.pc \notin {"idle"}, NotFinalising,
         evaluation'.manifest = evaluation.manifest, Loading'
  PROVE  IInv'
<1>1. PICK m : m = evaluation.manifest
  OBVIOUS
<1>2. Release(m)'
  BY <1>1, StayKeeps DEF NotFinalising, IInv, DirectoryInv, EvaluationInv
<1>3. EvaluationInv'
  BY <1>1, <1>2 DEF EvaluationInv
<1> QED BY <1>3, StayKeeps DEF NotFinalising, IInv, DirectoryInv

LEMMA LoadManifestKeeps == ASSUME IInv, LoadManifest PROVE IInv'
<1>1. /\ NotFinalising /\ Release(manifest)
      /\ evaluation'.pc = "control" /\ evaluation'.manifest = manifest
  BY DEF LoadManifest, IInv, DirectoryInv, ManifestInv
<1>2. PICK m : m = manifest
  OBVIOUS
<1>3. Release(m)'
  BY <1>1, <1>2, StayKeeps DEF NotFinalising
<1>4. EvaluationInv'
  BY <1>1, <1>2, <1>3 DEF EvaluationInv
<1> QED BY <1>1, <1>4, StayKeeps DEF NotFinalising, IInv, DirectoryInv

LEMMA LoadControlKeeps == ASSUME IInv, LoadControl PROVE IInv'
<1>1. NotFinalising /\ evaluation.pc = "control" /\ Release(evaluation.manifest)
  BY DEF LoadControl, EvaluationAt, IInv, DirectoryInv, EvaluationInv
<1>2. PICK w : w = OneRelease(evaluation.manifest)
  OBVIOUS
<1>3. /\ DOMAIN evaluation' = EvaluationFields /\ evaluation'.pc = "digests"
      /\ evaluation'.todo = Digested /\ evaluation'.manifest = evaluation.manifest
      /\ evaluation'.late = << >> /\ evaluation'.whole = w
  BY <1>2 DEF LoadControl, EvaluationFields
<1>4. w \/ Overtaken'
  BY <1>1, <1>2, <1>3 DEF Release, Overtaken, NotFinalising
<1>5. IsChain(Digested) /\ SourceEntry \in Named(Digested)
  <2>1. Digested \in Seq({"output", "stores", "control"} \X
                        (Files \cup StoreNames \cup {"run-control"}))
    BY FileNames, RunStoreNames DEF Digested, StoreNames, Named, RunStores
  <2>2. 17 \in DOMAIN Digested /\ Digested[17] = SourceEntry
    BY DEF Digested, SourceEntry
  <2> QED BY <2>1, <2>2 DEF IsChain, Named
<1>6. Loading'
  <2>1. DOMAIN << >> = {}
    OBVIOUS
  <2> QED BY <1>3, <1>4, <1>5, <2>1, PassChains DEF Loading
<1> QED BY <1>1, <1>3, <1>6, LoadingKeeps

LEMMA CheckDigestKeeps == ASSUME IInv, CheckDigest PROVE IInv'
<1>1. /\ NotFinalising /\ evaluation.pc = "digests" /\ evaluation.todo # << >>
      /\ Matches(evaluation.todo[1])
      /\ Loading /\ Release(evaluation.manifest)
  BY DEF CheckDigest, Evaluating, EvaluationAt, IInv, DirectoryInv, EvaluationInv
<1>2. /\ DOMAIN evaluation' = EvaluationFields /\ evaluation'.pc = "digests"
      /\ evaluation'.todo = Tail(evaluation.todo)
      /\ evaluation'.manifest = evaluation.manifest
      /\ evaluation'.late = evaluation.late /\ evaluation'.whole = evaluation.whole
  BY <1>1 DEF CheckDigest, Loading, EvaluationFields
<1>3. /\ IsChain(Tail(evaluation.todo))
      /\ Named(evaluation.todo) = {evaluation.todo[1]} \cup Named(Tail(evaluation.todo))
  BY <1>1, TailChain DEF Loading
<1>4. Overtaken' <=> Overtaken
  BY <1>1, <1>2 DEF Overtaken, NotFinalising
<1>5. evaluation.todo[1] = SourceEntry => ~Overtaken
  <2>1. ASSUME evaluation.todo[1] = SourceEntry PROVE ~Overtaken
    <3>1. Matches(SourceEntry)
      BY <1>1, <2>1
    <3>2. output["source-register"] = evaluation.manifest.files.output["source-register"]
      BY <3>1 DEF Matches, Entry, SourceEntry, Directory
    <3> QED BY <1>1, <3>2 DEF Release, Overtaken
  <2> QED BY <2>1
<1>6. Loading'
  BY <1>1, <1>2, <1>3, <1>4, <1>5 DEF Loading
<1> QED BY <1>1, <1>2, <1>6, LoadingKeeps

\* The checks that leave what was loaded as it is.
LEMMA CheckKeeps ==
  ASSUME IInv, CheckSchemas \/ CheckStore \/ CheckArtefact
  PROVE  IInv'
<1>1. /\ NotFinalising /\ Loading /\ evaluation.pc \in {"digests", "store", "artefact"}
      /\ evaluation.pc = "digests" => evaluation.todo = << >>
  BY DEF CheckSchemas, CheckStore, CheckArtefact, Evaluating, Evaluated, EvaluationAt,
         IInv, DirectoryInv, EvaluationInv
<1>2. evaluation.whole
  BY <1>1, PassNames DEF Loading
<1>3. PICK pc, todo, record :
        /\ evaluation' = [evaluation EXCEPT !.pc = pc, !.todo = todo, !.record = record]
        /\ pc \in {"store", "artefact"} /\ IsChain(todo)
  <2>1. CASE CheckSchemas
    <3>1. IsChain(RunStores)
      <4>1. RunStores \in Seq(StoreNames)
        BY RunStoreNames DEF RunStores
      <4> QED BY <4>1 DEF IsChain
    <3>2. evaluation' = [evaluation EXCEPT !.pc = "store", !.todo = RunStores,
                                           !.record = evaluation.record]
      BY <1>1, <2>1 DEF CheckSchemas, Loading, EvaluationFields
    <3> QED BY <3>1, <3>2
  <2>2. CASE CheckStore
    <3>1. PICK record :
            evaluation' = [evaluation EXCEPT !.pc = "artefact", !.record = record]
      BY <2>2 DEF CheckStore
    <3>2. evaluation' = [evaluation EXCEPT !.pc = "artefact", !.todo = evaluation.todo,
                                           !.record = record]
      BY <1>1, <3>1 DEF Loading, EvaluationFields
    <3> QED BY <1>1, <3>2 DEF Loading
  <2>3. CASE CheckArtefact
    <3>1. IsChain(Tail(evaluation.todo))
      <4>1. evaluation.todo # << >> \/ Tail(evaluation.todo) = << >>
        OBVIOUS
      <4> QED BY <1>1, <4>1, TailChain, PassChains DEF Loading
    <3>2. evaluation' = [evaluation EXCEPT !.pc = "store", !.todo = Tail(evaluation.todo),
                                           !.record = evaluation.record]
      BY <1>1, <2>3 DEF CheckArtefact, Loading, EvaluationFields
    <3> QED BY <3>1, <3>2
  <2> QED BY <2>1, <2>2, <2>3
<1>4. /\ DOMAIN evaluation' = EvaluationFields /\ evaluation'.pc = pc
      /\ evaluation'.todo = todo /\ evaluation'.manifest = evaluation.manifest
      /\ evaluation'.late = evaluation.late /\ evaluation'.whole = evaluation.whole
  BY <1>1, <1>3 DEF Loading, EvaluationFields
<1>5. Overtaken' <=> Overtaken
  BY <1>1, <1>4 DEF Overtaken, NotFinalising
<1>6. Loading'
  BY <1>1, <1>2, <1>3, <1>4, <1>5 DEF Loading
<1> QED BY <1>1, <1>4, <1>6, LoadingKeeps

LEMMA CheckStatusKeeps == ASSUME IInv, CheckStatus PROVE IInv'
<1>1. /\ NotFinalising /\ Loading /\ evaluation.pc = "store"
      /\ evaluation.manifest.status = "APPROVED"
  BY DEF CheckStatus, Evaluated, EvaluationAt, IInv, DirectoryInv, EvaluationInv
<1>2. /\ DOMAIN evaluation' = EvaluationFields /\ evaluation'.pc = "late"
      /\ evaluation'.todo = ReadLate /\ evaluation'.manifest = evaluation.manifest
      /\ evaluation'.late = evaluation.late /\ evaluation'.whole = evaluation.whole
  BY <1>1 DEF CheckStatus, Loading, EvaluationFields
<1>3. IsChain(ReadLate) /\ Named(ReadLate) \subseteq Files
  <2>1. ReadLate \in Seq(Files) /\ DOMAIN ReadLate = 1..7
    BY FileNames DEF ReadLate
  <2>2. \A i \in DOMAIN ReadLate : ReadLate[i] \in Files
    BY <2>1, ElementOfSeq, LenProperties
  <2> QED BY <2>1, <2>2 DEF IsChain, Named
<1>4. Overtaken' <=> Overtaken
  BY <1>1, <1>2 DEF Overtaken, NotFinalising
<1>5. Loading'
  BY <1>1, <1>2, <1>3, <1>4 DEF Loading
<1> QED BY <1>1, <1>2, <1>5, LoadingKeeps

\* A file that is read late is the release's, or the release has been overtaken.
LEMMA LoadArtefactKeeps == ASSUME IInv, LoadArtefact PROVE IInv'
<1>1. /\ NotFinalising /\ Loading /\ evaluation.pc = "late" /\ evaluation.todo # << >>
      /\ Release(evaluation.manifest)
  BY DEF LoadArtefact, Evaluating, EvaluationAt, IInv, DirectoryInv, EvaluationInv
<1>2. PICK read :
        /\ read.file = evaluation.todo[1] /\ read.content \in Readings(read.file)
        /\ evaluation' = [evaluation EXCEPT !.todo = Tail(evaluation.todo),
                                            !.late = Append(evaluation.late, read)]
  <2>1. PICK content \in Readings(evaluation.todo[1]) :
          evaluation' = [evaluation EXCEPT !.todo = Tail(evaluation.todo),
            !.late = Append(evaluation.late,
                            [file |-> evaluation.todo[1], content |-> content])]
    BY DEF LoadArtefact
  <2> QED BY <2>1
<1>3. /\ DOMAIN evaluation' = EvaluationFields /\ evaluation'.pc = "late"
      /\ evaluation'.todo = Tail(evaluation.todo)
      /\ evaluation'.manifest = evaluation.manifest
      /\ evaluation'.late = Append(evaluation.late, read)
      /\ evaluation'.whole = evaluation.whole
  BY <1>1, <1>2 DEF Loading, EvaluationFields
<1>4. Overtaken' <=> Overtaken
  BY <1>1, <1>3 DEF Overtaken, NotFinalising
<1>5. /\ IsChain(Tail(evaluation.todo))
      /\ Named(evaluation.todo) = {evaluation.todo[1]} \cup Named(Tail(evaluation.todo))
  BY <1>1, TailChain DEF Loading
<1>6. \/ Overtaken
      \/ read.content = Stamp(read.file, evaluation.manifest.attempt, "APPROVED")
  <2>1. CASE read.content = output[read.file]
    <3>1. read.file \in Files /\ evaluation.manifest.status = "APPROVED"
      BY <1>1, <1>2, <1>5 DEF Loading
    <3> QED BY <1>1, <2>1, <3>1 DEF Release, OneRelease, Overtaken
  <2>2. CASE read.content # output[read.file]
    <3>1. call.pc = "chain"
      BY <1>2, <2>2 DEF Readings, At
    <3>2. CallInv /\ call # NoCall
      BY <3>1, InCall DEF Points, Sealing
    <3>3. output["source-register"].attempt = attempts /\ attempts \in Nat
      BY <3>1, <3>2 DEF CallInv, Begun, IInv, TypeInv
    <3>4. evaluation.manifest.attempt < attempts /\ evaluation.manifest.attempt \in 1..attempts
      BY <1>1, <3>1, <3>2 DEF Release
    <3> QED BY <3>3, <3>4 DEF Overtaken
  <2> QED BY <2>1, <2>2
<1>7. /\ IsChain(evaluation'.late)
      /\ \A i \in DOMAIN evaluation'.late :
           \/ i \in DOMAIN evaluation.late /\ evaluation'.late[i] = evaluation.late[i]
           \/ evaluation'.late[i] = read
  <2>1. PICK late : late = evaluation.late /\ IsChain(late)
    BY <1>1 DEF Loading
  <2>2. /\ IsChain(Append(late, read)) /\ Append(late, read)[Len(late) + 1] = read
        /\ DOMAIN Append(late, read) = 1..(Len(late) + 1)
        /\ \A i \in DOMAIN late : Append(late, read)[i] = late[i]
        /\ Len(late) \in Nat /\ DOMAIN late = 1..Len(late)
    BY <2>1, AppendChain, ChainEntries
  <2>3. \A i \in 1..(Len(late) + 1) : i \in 1..Len(late) \/ i = Len(late) + 1
    BY <2>2
  <2> QED BY <1>3, <2>1, <2>2, <2>3
<1>8. Loading'
  BY <1>1, <1>3, <1>4, <1>5, <1>6, <1>7 DEF Loading
<1> QED BY <1>1, <1>3, <1>8, LoadingKeeps

LEMMA LoadedKeeps == ASSUME IInv, Loaded PROVE IInv'
<1>1. /\ NotFinalising /\ Loading /\ evaluation.pc = "late"
      /\ Release(evaluation.manifest)
  BY DEF Loaded, Evaluated, EvaluationAt, IInv, DirectoryInv, EvaluationInv
<1>2. /\ DOMAIN evaluation' = EvaluationFields /\ evaluation'.pc = "loaded"
      /\ evaluation'.todo = evaluation.todo /\ evaluation'.manifest = evaluation.manifest
      /\ evaluation'.late = evaluation.late /\ evaluation'.whole = evaluation.whole
      /\ evaluation'.identity = manifest
  BY <1>1 DEF Loaded, Loading, EvaluationFields
<1>3. Overtaken' <=> Overtaken
  BY <1>1, <1>2 DEF Overtaken, NotFinalising
<1>4. Overtaken \/ manifest = evaluation.manifest
  BY <1>1 DEF Release, OneRelease, Overtaken
<1>5. Loading'
  BY <1>1, <1>2, <1>3, <1>4 DEF Loading
<1> QED BY <1>1, <1>2, <1>5, LoadingKeeps

LEMMA EvaluateKeeps == ASSUME IInv, Evaluate PROVE IInv'
<1>1. CASE EndEvaluation
  <2>1. NotFinalising /\ evaluation'.pc = "idle"
    BY <1>1 DEF EndEvaluation, NoEvaluation
  <2>2. EvaluationInv'
    BY <2>1 DEF EvaluationInv
  <2> QED BY <2>1, <2>2, StayKeeps DEF NotFinalising, IInv, DirectoryInv
<1> QED BY <1>1, LoadManifestKeeps, LoadControlKeeps, CheckDigestKeeps, CheckKeeps,
           CheckStatusKeeps, LoadArtefactKeeps, LoadedKeeps DEF Evaluate

-----------------------------------------------------------------------------
(* Every step. *)

LEMMA NextIInv == IInv /\ [Next]_vars => IInv'
<1> SUFFICES ASSUME IInv, [Next]_vars PROVE IInv'
  OBVIOUS
<1>1. CASE BindProvenance
  BY <1>1, BindKeeps DEF BindProvenance
<1>2. CASE BindAgain
  BY <1>2, BindKeeps DEF BindAgain
<1>3. CASE UNCHANGED vars
  <2>1. UNCHANGED evaluation
    BY <1>3 DEF vars
  <2>2. ASSUME evaluation.pc # "idle" PROVE Release(evaluation.manifest)'
    <3>1. PICK m : m = evaluation.manifest
      OBVIOUS
    <3>2. Release(m)'
      BY <1>3, <2>2, <3>1, StayKeeps DEF vars, IInv, DirectoryInv, EvaluationInv
    <3> QED BY <2>1, <3>1, <3>2
  <2>3. Loading => Loading'
    BY <1>3 DEF vars, Loading, Overtaken
  <2>4. EvaluationInv'
    BY <2>1, <2>2, <2>3 DEF IInv, DirectoryInv, EvaluationInv
  <2> QED BY <1>3, <2>4, StayKeeps DEF vars, IInv, DirectoryInv
<1> QED BY <1>1, <1>2, <1>3, StartKeeps, WriteKeeps, DecideKeeps, BeginStoresKeeps,
           ReadStoreKeeps, StoreErrorKeeps, AppendRecordKeeps, VerifyStoresKeeps,
           WriteChainKeeps, WriteControlKeeps, WriteManifestKeeps, SaveKeeps, CrashKeeps,
           EvaluateKeeps
        DEF Next, Step

LEMMA Invariant == Spec => []IInv
BY InitIInv, NextIInv, PTL DEF Spec

\* Whatever calls of finalise died and were done again, a run that is closed has an
\* output directory, stores and bound document of one call with its very status.
THEOREM ClosedWhole == Spec => []ClosedIsOneRelease
<1>1. IInv => ClosedIsOneRelease
  BY DEF IInv, ClosedInv, ClosedIsOneRelease
<1> QED BY <1>1, Invariant, PTL

\* An evaluation whose checks have passed began on one complete release that
\* governance approved, whatever calls of finalise ran or died while it compared the
\* files one by one; what it reads afterwards is of that release unless a later call has
\* begun to write.
THEOREM EvaluatedApproved == Spec => []EvaluatedWasApproved
<1> SUFFICES ASSUME IInv, evaluation.pc \in {"late", "loaded"}
             PROVE  /\ evaluation.whole
                    /\ verdict = [clear |-> TRUE, epg |-> TRUE, schemas |-> TRUE]
                    /\ \A i \in DOMAIN evaluation.late :
                         \/ Overtaken
                         \/ evaluation.late[i].content =
                              Stamp(evaluation.late[i].file,
                                    evaluation.manifest.attempt, "APPROVED")
                    /\ evaluation.pc = "loaded" =>
                         Overtaken \/ evaluation.identity = evaluation.manifest
  <2>1. IInv => EvaluatedWasApproved
    BY DEF EvaluatedWasApproved
  <2> QED BY <2>1, Invariant, PTL
<1>1. Loading /\ Release(evaluation.manifest)
  BY DEF IInv, DirectoryInv, EvaluationInv
<1>2. evaluation.manifest.status = "APPROVED" /\ evaluation.whole
  BY <1>1 DEF Loading
<1>3. Sound
  BY <1>1, <1>2 DEF Release, Approves
<1>4. verdict = [clear |-> TRUE, epg |-> TRUE, schemas |-> TRUE]
  BY <1>3 DEF Sound, Verdicts, IInv, TypeInv
<1> QED BY <1>1, <1>2, <1>4 DEF Loading

\* No step writes to a store that cannot be verified, and none closes the run over it.
THEOREM TornStays == Spec => TornStoreStays
<1>1. ASSUME IInv, [Next]_vars, NEW s \in Untrusted
      PROVE  stores'[s] = stores[s] /\ (run'.status = run.status \/ ~Closed')
  <2>1. s \in StoreNames /\ stores[s] # Missing /\ ~Verifies(stores[s])
    BY DEF Untrusted
  <2>2. ~StoresBound
    BY <2>1 DEF StoresBound, Bound
  <2>3. ASSUME AppendRecord \/ (Crash /\ call.pc = "append")
        PROVE  Store # s
    <3>1. CallInv /\ call.pc = "append"
      BY <1>1, <2>3, InCall DEF AppendRecord, At, Points
    <3> QED BY <2>1, <3>1 DEF CallInv, Persisting, Extensible
  <2>4. CASE AppendRecord
    <3>1. PICK x : x = AddLine(Found(stores[Store]),
                               Appended(call.lines, output[Artefact(Store)]))
      OBVIOUS
    <3>2. stores' = [stores EXCEPT ![Store] = x] /\ UNCHANGED run
      BY <2>4, <3>1 DEF AppendRecord
    <3>3. DOMAIN stores = StoreNames /\ s # Store
      BY <1>1, <2>3, <2>4 DEF IInv, TypeInv
    <3> QED BY <2>1, <3>2, <3>3
  <2>5. CASE Crash
    <3>1. run'.status = run.status \/ ~Closed'
      BY <2>5 DEF Crash, TornRun, Closed, Statuses
    <3>2. \/ stores' = stores
          \/ \E t \in StoreNames : \E x :
               t = Store /\ call.pc = "append" /\ stores' = [stores EXCEPT ![t] = x]
      BY <2>5 DEF Crash, At
    <3> QED BY <1>1, <2>1, <2>3, <2>5, <3>1, <3>2 DEF IInv, TypeInv
  <2>6. CASE Save
    <3>1. StoresBound
      BY <1>1, <2>6, AtEnd DEF Save, At, Sealing
    <3> QED BY <2>2, <3>1
  <2>7. CASE BindProvenance \/ BindAgain
    <3>1. run.status = "READY_TO_FINALISE"
      BY <1>1, <2>7, InCall DEF BindProvenance, BindAgain, Bind, Written, At, Points,
                                Writing, CallInv
    <3> QED BY <2>7, <3>1 DEF BindProvenance, BindAgain, Bind
  <2>8. CASE \/ Start \/ Write \/ Decide \/ BeginStores \/ ReadStore \/ StoreError
             \/ VerifyStores \/ WriteChain \/ WriteControl \/ WriteManifest \/ Evaluate
    BY <2>8 DEF Evaluate, LoadManifest, LoadControl, CheckDigest, CheckSchemas, CheckStore,
                CheckArtefact, CheckStatus, LoadArtefact, Loaded, EndEvaluation,
                NotFinalising, Start, Write, Decide, BeginStores, ReadStore, StoreError, VerifyStores,
                WriteChain, WriteControl, WriteManifest
  <2>9. CASE UNCHANGED vars
    BY <2>9 DEF vars
  <2> QED BY <1>1, <2>4, <2>5, <2>6, <2>7, <2>8, <2>9 DEF Next, Step
<1>2. IInv /\ [Next]_vars =>
        [\A s \in Untrusted :
           stores'[s] = stores[s] /\ (run'.status = run.status \/ ~Closed')]_vars
  BY <1>1
<1> QED BY <1>2, Invariant, PTL DEF Spec, TornStoreStays
=============================================================================
