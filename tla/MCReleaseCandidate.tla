--------------------------- MODULE MCReleaseCandidate ---------------------------
(***************************************************************************)
(* Facts about release candidates that are built while the inputs change   *)
(* once, from a releasable world to any other, at any step or in the       *)
(* middle of the copy of the proof; evaluated as assumptions before the    *)
(* run of the final governance, whose release the public proof repeats.    *)
(***************************************************************************)
EXTENDS Integers, Sequences

RC == INSTANCE ReleaseCandidate WITH Selected <- "a"

LOCAL Proofs == {RC!Proof(run, project) : run \in 1..2, project \in {"p", "q"}}

LOCAL Reproductions ==
  {RC!Reproduction(id, RC!Proof(1, primary), "p") : id \in 1..2, primary \in {"p", "q"}}

LOCAL Records ==
  {RC!ReleaseRecord(sha, proof, reproduction) :
     sha \in {"a", "b"}, proof \in Proofs, reproduction \in Reproductions}

LOCAL Worlds ==
  [head : {"a", "b"}, clean : BOOLEAN, proof : Proofs, reproduction : Reproductions,
   record : Records]

LOCAL Releasable ==
  LET proof == RC!Proof(1, "p")
      reproduction == RC!Reproduction(1, proof, "p")
  IN  [head |-> "a", clean |-> TRUE, proof |-> proof, reproduction |-> reproduction,
       record |-> RC!ReleaseRecord("a", proof, reproduction)]

\* The steps before i find the first world, the others the second; the copy of the
\* proof has an order of its own.
LOCAL Index(step) == CHOOSE i \in DOMAIN RC!Steps : RC!Steps[i] = step

LOCAL At(i) == [s \in {RC!Steps[j] : j \in DOMAIN RC!Steps} |-> IF Index(s) < i THEN 1 ELSE 2]

LOCAL Copied == {"proof-result.json", "project.json", "run", "evaluation-result.json"}

LOCAL Torn(early) ==
  [s \in DOMAIN At(9) |-> IF s \in Copied THEN (IF s \in early THEN 1 ELSE 2) ELSE At(9)[s]]

LOCAL Schedules ==
  {At(i) : i \in 1..(Len(RC!Steps) + 1)} \cup {Torn(early) : early \in SUBSET Copied}

LOCAL Whole == Len(RC!Files)

LOCAL Changed(w) == <<Releasable, w>>

\* Inputs that do not change give a candidate that verifies.
ASSUME ReleasableIsAllowed ==
  \A at \in Schedules :
    RC!VerifyCandidate(RC!Candidate(Changed(Releasable), at, Whole))

\* A build that is cut off leaves nothing that verifies.
ASSUME CutOffIsDenied ==
  \A w \in Worlds : \A n \in 0..(Whole - 1) :
    ~RC!VerifyCandidate(RC!Candidate(Changed(w), At(18), n))

\* Whatever changed while it was built, what verifies carries one proof, reproduced,
\* and the record that approves them for the selected commit.
ASSUME AllowedIsOneRelease ==
  \A w \in Worlds : \A at \in Schedules :
    LET c == RC!Candidate(Changed(w), at, Whole)
    IN  RC!VerifyCandidate(c) =>
          /\ c["release-record.json"].sha = "a"
          /\ c["release-record.json"].result = c["proof-result.json"]
          /\ c["release-record.json"].reproduction = c["reproduction-report.json"]
          /\ c["project.json"] = c["run"]
          /\ c["reproduction-report.json"].primary = c["project.json"]

\* But the checkout is looked at once: the bill of materials and the inputs of the
\* provenance may be of another commit, and of another proof than the copied one.
ASSUME LaterInputsUnchecked ==
  \A i \in {11, 12, 13} :
    LET w == [Releasable EXCEPT !.head = "b", !.clean = FALSE, !.proof = RC!Proof(2, "p")]
        c == RC!Candidate(Changed(w), At(i), Whole)
    IN  /\ RC!VerifyCandidate(c)
        /\ c["build-provenance.json"].checkout = "b"
        /\ c["build-provenance.json"].result # c["proof-result.json"]
=============================================================================
