-------------------------- MODULE ReconcileProofs ---------------------------
(***************************************************************************)
(* Proofs about Reconcile, for any receipts, values and bounds.            *)
(*                                                                         *)
(* What a run may still take back (undo) has to be as good as what it has  *)
(* written so far: Good is asked of both.                                  *)
(***************************************************************************)
EXTENDS Reconcile, FiniteSetTheorems, TLAPS

Sendable == {v \in Values : Adoptable(v)}

Statuses == {"NEEDS_REVIEW", "SYNCING", "SYNCED", "ERROR_SYNC"}

CorrectionRecords ==
  [of : Receipts, sent : Values, got : Values, after : Nat, resynced : BOOLEAN,
   real : BOOLEAN]

Books == [draft : [Receipts -> Sendable], status : [Receipts -> Statuses],
          corrections : SUBSET CorrectionRecords, flames : [Receipts -> Nat],
          slipped : [Receipts -> BOOLEAN]]

KeysOf(C, r) ==
  {[sent |-> Signature(c.sent), got |-> Signature(c.got)] : c \in {d \in C : d.of = r}}

Sending(r) == job[r].stage \in {"queued", "sent", "refused"}

\* The draft shown as synced has the amount that was sent; the draft being sent
\* is the one that was loaded, unless it slipped.
Shown(b, r) ==
  ~ b.slipped[r] =>
    /\ b.status[r] = "SYNCED" => sent[r] # <<>> /\ b.draft[r].amount = Last(sent[r]).amount
    /\ Sending(r) => b.draft[r] = job[r].payload

Good(b) ==
  /\ b \in Books
  /\ \A r \in Receipts : /\ IsFiniteSet(KeysOf(b.corrections, r))
                         /\ b.flames[r] = Cardinality(KeysOf(b.corrections, r))
                         /\ Shown(b, r)
  /\ \A c \in b.corrections : /\ c.real /\ Differs(c.sent, c.got)
                              /\ c.after \in 1..done[c.of]

Rest ==
  /\ sent \in [Receipts -> Seq(Sendable)]
  /\ done \in [Receipts -> 1..MaxSyncs]
  /\ \A r \in Receipts : Len(sent[r]) <= done[r]
  /\ job \in [Receipts -> [stage : Stages, payload : Sendable]]
  /\ txn \in [Receipts -> Values \cup {Deleted}]
  /\ running \in BOOLEAN /\ run \subseteq Receipts
  /\ byHand \in [Receipts -> BOOLEAN] /\ left \in [Receipts -> Values]
  /\ \A r \in Receipts : /\ ~ byHand[r] => txn[r] = left[r]
                         /\ Sending(r) => done[r] < MaxSyncs

RInv == Rest /\ Good(Kept) /\ (running => Good(undo))

LEMMA KeptFields ==
  /\ Kept.draft = draft /\ Kept.status = status /\ Kept.corrections = corrections
  /\ Kept.flames = flames /\ Kept.slipped = slipped
BY DEF Kept

\* The same in words of the variables.
LEMMA GoodKept ==
  Good(Kept) <=>
    /\ draft \in [Receipts -> Sendable] /\ status \in [Receipts -> Statuses]
    /\ corrections \in SUBSET CorrectionRecords /\ flames \in [Receipts -> Nat]
    /\ slipped \in [Receipts -> BOOLEAN]
    /\ \A r \in Receipts :
         /\ IsFiniteSet(KeysOf(corrections, r))
         /\ flames[r] = Cardinality(KeysOf(corrections, r))
         /\ ~ slipped[r] =>
              /\ status[r] = "SYNCED"
                   => sent[r] # <<>> /\ draft[r].amount = Last(sent[r]).amount
              /\ Sending(r) => draft[r] = job[r].payload
    /\ \A c \in corrections : /\ c.real /\ Differs(c.sent, c.got)
                              /\ c.after \in 1..done[c.of]
<1>1. Kept \in Books <=>
        /\ draft \in [Receipts -> Sendable] /\ status \in [Receipts -> Statuses]
        /\ corrections \in SUBSET CorrectionRecords /\ flames \in [Receipts -> Nat]
        /\ slipped \in [Receipts -> BOOLEAN]
  BY DEF Kept, Books
<1>2. QED
  BY <1>1, KeptFields DEF Good, Shown

\* What there is to fall back to stays good while the sync rows stay and a job
\* at most goes on sending what it loaded.
LEMMA GoodStays ==
  ASSUME NEW b, Good(b), UNCHANGED <<sent, done>>,
         \A r \in Receipts : Sending(r)' => Sending(r) /\ job'[r].payload = job[r].payload
  PROVE  Good(b)'
BY DEF Good, Shown

Settling(C, f) == {[c EXCEPT !.resynced = f[c]] : c \in C}

\* Settling corrections changes no key and no other field.
LEMMA Settled ==
  ASSUME NEW C \in SUBSET CorrectionRecords, NEW f \in [C -> BOOLEAN],
         NEW D, D = Settling(C, f)
  PROVE  /\ D \in SUBSET CorrectionRecords
         /\ \A r \in Receipts : KeysOf(D, r) = KeysOf(C, r)
         /\ \A d \in D : \E c \in C : d.of = c.of /\ d.sent = c.sent /\ d.got = c.got
                                       /\ d.after = c.after /\ d.real = c.real
<1> DEFINE after(c) == [c EXCEPT !.resynced = f[c]]
<1>1. ASSUME NEW c \in C
      PROVE  /\ after(c) \in CorrectionRecords
             /\ after(c).of = c.of /\ after(c).sent = c.sent /\ after(c).got = c.got
             /\ after(c).after = c.after /\ after(c).real = c.real
  <2>1. c \in CorrectionRecords /\ f[c] \in BOOLEAN
    OBVIOUS
  <2>2. PICK b : b = f[c] /\ b \in BOOLEAN
    BY <2>1
  <2>3. after(c) = [c EXCEPT !.resynced = b]
    BY <2>2
  <2>4. QED
    BY <2>1, <2>2, <2>3 DEF CorrectionRecords
<1>2. D = {after(c) : c \in C}
  BY DEF Settling
<1> HIDE DEF after
<1>3. ASSUME NEW r \in Receipts PROVE KeysOf(D, r) = KeysOf(C, r)
  <2> DEFINE key(c) == [sent |-> Signature(c.sent), got |-> Signature(c.got)]
  <2>1. \A c \in C : key(after(c)) = key(c)
    BY <1>1
  <2>2. KeysOf(C, r) = {key(c) : c \in {d \in C : d.of = r}}
        /\ KeysOf(D, r) = {key(c) : c \in {d \in D : d.of = r}}
    BY DEF KeysOf
  <2> HIDE DEF key
  <2>3. QED
    BY <1>1, <1>2, <2>1, <2>2
<1>4. QED
  BY <1>1, <1>2, <1>3

\* A difference that is not on record has a key of its own.
LEMMA NewKey ==
  ASSUME NEW r \in Receipts, NEW c \in CorrectionRecords, c.of = r,
         corrections \in SUBSET CorrectionRecords,
         IsFiniteSet(KeysOf(corrections, r)),
         ~ Recorded(r, c.sent, c.got)
  PROVE  /\ IsFiniteSet(KeysOf(corrections \cup {c}, r))
         /\ Cardinality(KeysOf(corrections \cup {c}, r))
              = Cardinality(KeysOf(corrections, r)) + 1
         /\ \A x \in Receipts \ {r} :
              KeysOf(corrections \cup {c}, x) = KeysOf(corrections, x)
<1> DEFINE k == [sent |-> Signature(c.sent), got |-> Signature(c.got)]
<1>1. k \notin KeysOf(corrections, r)
  BY DEF Recorded, Key, KeysOf
<1>2. KeysOf(corrections \cup {c}, r) = KeysOf(corrections, r) \cup {k}
  BY DEF KeysOf
<1>3. \A x \in Receipts \ {r} : KeysOf(corrections \cup {c}, x) = KeysOf(corrections, x)
  BY DEF KeysOf
<1> HIDE DEF k
<1>4. /\ IsFiniteSet(KeysOf(corrections, r) \cup {k})
      /\ Cardinality(KeysOf(corrections, r) \cup {k}) = Cardinality(KeysOf(corrections, r)) + 1
  BY <1>1, FS_AddElement
<1>5. QED
  BY <1>2, <1>3, <1>4

\* The same of the next state.
LEMMA GoodKeptNext ==
  Good(Kept)' <=>
    (/\ draft \in [Receipts -> Sendable] /\ status \in [Receipts -> Statuses]
     /\ corrections \in SUBSET CorrectionRecords /\ flames \in [Receipts -> Nat]
     /\ slipped \in [Receipts -> BOOLEAN]
     /\ \A r \in Receipts :
          /\ IsFiniteSet(KeysOf(corrections, r))
          /\ flames[r] = Cardinality(KeysOf(corrections, r))
          /\ ~ slipped[r] =>
               /\ status[r] = "SYNCED"
                    => sent[r] # <<>> /\ draft[r].amount = Last(sent[r]).amount
               /\ Sending(r) => draft[r] = job[r].payload
     /\ \A c \in corrections : /\ c.real /\ Differs(c.sent, c.got)
                               /\ c.after \in 1..done[c.of])'
BY GoodKept, PTL

\* A step outside a run that moves one receipt and its job, and neither
\* corrections nor flames: only what that receipt shows has to be looked at.
LEMMA OneReceipt ==
  ASSUME Rest, Good(Kept), NEW r \in Receipts,
         UNCHANGED <<corrections, flames>>,
         done' \in [Receipts -> Nat], \A x \in Receipts : done[x] <= done'[x],
         draft' \in [Receipts -> Sendable], status' \in [Receipts -> Statuses],
         slipped' \in [Receipts -> BOOLEAN],
         \A x \in Receipts \ {r} :
            /\ draft'[x] = draft[x] /\ status'[x] = status[x] /\ sent'[x] = sent[x]
            /\ slipped'[x] = slipped[x] /\ job'[x] = job[x],
         ~ slipped'[r] =>
            /\ status'[r] = "SYNCED"
                 => sent'[r] # <<>> /\ draft'[r].amount = Last(sent'[r]).amount
            /\ Sending(r)' => draft'[r] = job'[r].payload
  PROVE  Good(Kept)'
<1>1. \A c \in corrections : c.of \in Receipts /\ c.after \in 1..done'[c.of]
  <2>1. \A c \in corrections : c.of \in Receipts /\ c.after \in 1..done[c.of]
    BY GoodKept DEF CorrectionRecords
  <2>2. done \in [Receipts -> Nat]
    BY ValuesAssumption DEF Rest
  <2>3. QED
    BY <2>1, <2>2
<1>2. \A x \in Receipts :
        ~ slipped'[x] =>
          /\ status'[x] = "SYNCED"
               => sent'[x] # <<>> /\ draft'[x].amount = Last(sent'[x]).amount
          /\ Sending(x)' => draft'[x] = job'[x].payload
  BY GoodKept, SMTT(30) DEF Sending
<1>3. QED
  BY <1>1, <1>2, GoodKept, GoodKeptNext

\* The same for what the job, its row and YNAB's transaction do.
LEMMA RestOfOne ==
  ASSUME Rest, NEW r \in Receipts,
         sent' \in [Receipts -> Seq(Sendable)], done' \in [Receipts -> 1..MaxSyncs],
         job' \in [Receipts -> [stage : Stages, payload : Sendable]],
         txn' \in [Receipts -> Values \cup {Deleted}],
         running' \in BOOLEAN, run' \subseteq Receipts,
         byHand' \in [Receipts -> BOOLEAN], left' \in [Receipts -> Values],
         \A x \in Receipts \ {r} :
            /\ sent'[x] = sent[x] /\ done'[x] = done[x] /\ job'[x] = job[x]
            /\ txn'[x] = txn[x] /\ byHand'[x] = byHand[x] /\ left'[x] = left[x],
         Len(sent'[r]) <= done'[r],
         ~ byHand'[r] => txn'[r] = left'[r],
         Sending(r)' => done'[r] < MaxSyncs
  PROVE  Rest'
BY DEF Rest, Sending

LEMMA First1 == First \in Sendable /\ NoJob \in [stage : Stages, payload : Sendable]
BY ValuesAssumption DEF NoJob, Sendable, Stages

\* SaveDraft asks for review, or slips past the job that is sending.
LEMMA SaveDraftKeeps ==
  ASSUME RInv, NEW r \in Receipts, NEW v \in Sendable, SaveDraft(r, v)
  PROVE  RInv'
<1>1. Rest'
  BY DEF RInv, Rest, SaveDraft, Sending
<1>2. Good(Kept)'
  <2> USE DEF RInv
  <2>1. /\ draft' = [draft EXCEPT ![r] = v]
        /\ status' = [status EXCEPT ![r] =
              IF @ \in {"SYNCED", "ERROR_SYNC"} THEN "NEEDS_REVIEW" ELSE @]
        /\ slipped' = [slipped EXCEPT ![r] = @ \/ job[r].stage # "none"]
        /\ UNCHANGED <<sent, done, job, corrections, flames>>
    BY DEF SaveDraft
  <2>2. /\ draft \in [Receipts -> Sendable] /\ status \in [Receipts -> Statuses]
        /\ slipped \in [Receipts -> BOOLEAN]
    BY GoodKept
  <2>3. done \in [Receipts -> Nat]
    BY ValuesAssumption DEF Rest
  <2>4. /\ draft' \in [Receipts -> Sendable] /\ status' \in [Receipts -> Statuses]
        /\ slipped' \in [Receipts -> BOOLEAN]
    BY <2>1, <2>2 DEF Statuses
  <2>5. ~ slipped'[r] => ~ Sending(r)' /\ status'[r] # "SYNCED"
    BY <2>1, <2>2 DEF Sending
  <2>6. QED
    BY <2>1, <2>2, <2>3, <2>4, <2>5, OneReceipt
<1>3. ~ running'
  BY DEF SaveDraft
<1>4. QED
  BY <1>1, <1>2, <1>3 DEF RInv

\* ClickSync loads the draft it shows.
LEMMA ClickSyncKeeps ==
  ASSUME RInv, NEW r \in Receipts, ClickSync(r)
  PROVE  RInv'
<1> USE DEF RInv
<1>1. /\ draft \in [Receipts -> Sendable] /\ status \in [Receipts -> Statuses]
      /\ slipped \in [Receipts -> BOOLEAN]
  BY GoodKept
<1>2. /\ status' = [status EXCEPT ![r] = "SYNCING"]
      /\ job' = [job EXCEPT ![r] = [stage |-> "queued", payload |-> draft[r]]]
      /\ slipped' = [slipped EXCEPT ![r] = FALSE]
      /\ done[r] < MaxSyncs /\ ~ running
      /\ UNCHANGED <<draft, done, txn, corrections, flames, running, run, byHand, left>>
  BY DEF ClickSync
<1>3. /\ sent' \in [Receipts -> Seq(Sendable)]
      /\ Len(sent'[r]) <= done[r]
      /\ \A x \in Receipts \ {r} : sent'[x] = sent[x]
  <2>1. RowTaken(r)
    BY DEF ClickSync
  <2>2. sent \in [Receipts -> Seq(Sendable)] /\ Len(sent[r]) <= done[r]
        /\ done[r] \in Nat /\ sent[r] \in Seq(Sendable)
    BY ValuesAssumption, SMTT(30) DEF Rest
  <2>3. CASE UNCHANGED sent
    BY <2>2, <2>3
  <2>4. CASE sent[r] # <<>> /\ sent' = [sent EXCEPT ![r] = Front(@)]
    <3>1. Front(sent[r]) \in Seq(Sendable) /\ Len(Front(sent[r])) <= Len(sent[r])
      BY <2>2, <2>4 DEF Front
    <3>2. QED
      BY <2>2, <2>4, <3>1
  <2>5. QED
    BY <2>1, <2>3, <2>4 DEF RowTaken
<1>4. /\ job' \in [Receipts -> [stage : Stages, payload : Sendable]]
      /\ \A x \in Receipts \ {r} : job'[x] = job[x]
      /\ job'[r].payload = draft[r]
  BY <1>1, <1>2 DEF Rest, Stages
<1>5. Rest'
  BY <1>2, <1>3, <1>4, RestOfOne DEF Rest
<1>6. Good(Kept)'
  <2>1. status' \in [Receipts -> Statuses] /\ slipped' \in [Receipts -> BOOLEAN]
        /\ status'[r] = "SYNCING"
    BY <1>1, <1>2 DEF Statuses
  <2>2. done \in [Receipts -> Nat]
    BY ValuesAssumption DEF Rest
  <2>3. \A x \in Receipts \ {r} :
          /\ draft'[x] = draft[x] /\ status'[x] = status[x] /\ sent'[x] = sent[x]
          /\ slipped'[x] = slipped[x] /\ job'[x] = job[x]
    BY <1>1, <1>2, <1>3, <1>4
  <2>4. draft'[r] = job'[r].payload /\ status'[r] # "SYNCED"
        /\ draft' \in [Receipts -> Sendable]
    BY <1>1, <1>2, <1>4, <2>1
  <2>5. UNCHANGED <<corrections, flames>> /\ done' = done
    BY <1>2
  <2>6. done' \in [Receipts -> Nat] /\ \A x \in Receipts : done[x] <= done'[x]
    BY <2>2, <2>5
  <2>7. QED
    BY <2>1, <2>3, <2>4, <2>5, <2>6, OneReceipt
<1>7. QED
  BY <1>2, <1>5, <1>6

\* What a job does without the lock moves neither the books nor the rows: it
\* goes on with the payload it loaded, also while a run is under way.
LEMMA JobMovesOn ==
  ASSUME RInv, NEW r \in Receipts, NEW stage \in Stages, NEW now \in Values \cup {Deleted},
         NEW was \in Values, now = was,
         job[r].stage = "queued",
         job' = [job EXCEPT ![r].stage = stage],
         txn' = [txn EXCEPT ![r] = now],
         byHand' = [byHand EXCEPT ![r] = FALSE],
         left' = [left EXCEPT ![r] = was],
         UNCHANGED <<draft, status, sent, done, corrections, flames, running, run, undo,
                     slipped>>
  PROVE  RInv'
<1> USE DEF RInv
<1>1. /\ job' \in [Receipts -> [stage : Stages, payload : Sendable]]
      /\ \A x \in Receipts : job'[x].payload = job[x].payload
      /\ \A x \in Receipts \ {r} : job'[x] = job[x]
  BY DEF Rest
<1>2. done[r] < MaxSyncs
  BY DEF Rest, Sending
<1>3. Rest'
  BY <1>1, <1>2, RestOfOne DEF Rest
<1>4. \A x \in Receipts : Sending(x)' => Sending(x) /\ job'[x].payload = job[x].payload
  BY <1>1 DEF Sending
<1>5. Good(Kept)'
  <2>1. PICK b : b = Kept
    OBVIOUS
  <2>2. Good(b)'
    BY <1>4, <2>1, GoodStays
  <2>3. Kept' = b
    BY <2>1 DEF Kept
  <2>4. QED
    BY <2>2, <2>3
<1>6. running' => Good(undo)'
  <2>1. PICK b : b = undo
    OBVIOUS
  <2>2. running => Good(b)'
    BY <1>4, <2>1, GoodStays
  <2>3. QED
    BY <2>1, <2>2
<1>7. QED
  BY <1>3, <1>5, <1>6

LEMMA JobWritesKeeps ==
  ASSUME RInv, NEW r \in Receipts, JobWrites(r)
  PROVE  RInv'
<1>1. job[r].payload \in Values /\ job[r].stage = "queued"
  BY DEF RInv, Rest, Sendable, JobWrites
<1>2. "sent" \in Stages
  BY DEF Stages
<1>3. QED
  BY <1>1, <1>2, JobMovesOn DEF JobWrites, Answered

LEMMA YnabRefusesKeeps ==
  ASSUME RInv, NEW r \in Receipts, YnabRefuses(r)
  PROVE  RInv'
<1>1. txn[r] \in Values /\ txn' = [txn EXCEPT ![r] = txn[r]]
  BY DEF RInv, Rest, YnabRefuses
<1>2. "refused" \in Stages
  BY DEF Stages
<1>3. QED
  BY <1>1, <1>2, JobMovesOn DEF YnabRefuses, Answered

LEMMA EditInYnabKeeps ==
  ASSUME RInv, NEW r \in Receipts, NEW v \in Values \cup {Deleted}, EditInYnab(r, v)
  PROVE  RInv'
<1> USE DEF RInv
<1>1. Rest'
  BY DEF Rest, EditInYnab, Sending
<1>2. Good(Kept)'
  BY GoodKept, GoodKeptNext DEF EditInYnab, Sending
<1>3. running' => Good(undo)'
  BY DEF EditInYnab, Good, Shown, Sending
<1>4. QED
  BY <1>1, <1>2, <1>3

\* A job's commit, or its end: it is sending no more.
LEMMA JobCommitsKeeps ==
  ASSUME RInv, NEW r \in Receipts, JobCommits(r)
  PROVE  RInv'
<1> USE DEF RInv
<1>1. /\ draft \in [Receipts -> Sendable] /\ status \in [Receipts -> Statuses]
      /\ slipped \in [Receipts -> BOOLEAN]
      /\ ~ slipped[r] => (Sending(r) => draft[r] = job[r].payload)
  BY GoodKept
<1>2. /\ job[r].stage \in {"sent", "refused"} /\ ~ running
      /\ sent' = [sent EXCEPT ![r] = Append(@, job[r].payload)]
      /\ done' = [done EXCEPT ![r] = @ + 1]
      /\ status' = [status EXCEPT ![r] = IF job[r].stage = "sent" THEN "SYNCED"
                                                                  ELSE "NEEDS_REVIEW"]
      /\ job' = [job EXCEPT ![r].stage = "books"]
      /\ UNCHANGED <<draft, txn, corrections, flames, running, run, byHand, left, slipped>>
  BY DEF JobCommits, Answered
<1>3. /\ job[r].payload \in Sendable /\ sent[r] \in Seq(Sendable)
      /\ Len(sent[r]) <= done[r] /\ done[r] \in 1..MaxSyncs /\ done[r] < MaxSyncs
      /\ done \in [Receipts -> Nat]
  <2>1. Sending(r)
    BY <1>2 DEF Sending
  <2>2. done \in [Receipts -> 1..MaxSyncs] /\ job[r] \in [stage : Stages, payload : Sendable]
    BY DEF Rest
  <2>3. done[r] < MaxSyncs /\ sent[r] \in Seq(Sendable) /\ Len(sent[r]) <= done[r]
    BY <2>1 DEF Rest
  <2>4. QED
    BY <2>2, <2>3, ValuesAssumption
<1>4. /\ sent'[r] \in Seq(Sendable) /\ sent'[r] # <<>>
      /\ Len(sent'[r]) = Len(sent[r]) + 1 /\ Last(sent'[r]) = job[r].payload
  <2>1. sent'[r] = Append(sent[r], job[r].payload)
    BY <1>2 DEF Rest
  <2>2. QED
    BY <2>1, <1>3 DEF Last
<1>5. /\ sent' \in [Receipts -> Seq(Sendable)]
      /\ \A x \in Receipts \ {r} : sent'[x] = sent[x]
  BY <1>2, <1>4 DEF Rest
<1>6. /\ done' \in [Receipts -> 1..MaxSyncs] /\ done'[r] = done[r] + 1
      /\ \A x \in Receipts \ {r} : done'[x] = done[x]
  <2>1. done[r] + 1 \in 1..MaxSyncs
    BY <1>3, ValuesAssumption
  <2>2. done \in [Receipts -> 1..MaxSyncs] /\ done' = [done EXCEPT ![r] = done[r] + 1]
    BY <1>2 DEF Rest
  <2>3. QED
    BY <2>1, <2>2
<1>7. /\ job' \in [Receipts -> [stage : Stages, payload : Sendable]]
      /\ \A x \in Receipts \ {r} : job'[x] = job[x]
      /\ job'[r].stage = "books"
  BY <1>2 DEF Rest, Stages
<1>8. Rest'
  <2>1. Len(sent'[r]) <= done'[r]
    BY <1>3, <1>4, <1>6
  <2>2. ~ Sending(r)'
    BY <1>7 DEF Sending
  <2>3. QED
    BY <1>2, <1>5, <1>6, <1>7, <2>1, <2>2, RestOfOne DEF Rest
<1>9. Good(Kept)'
  <2>1. /\ done' \in [Receipts -> Nat] /\ \A x \in Receipts : done[x] <= done'[x]
    BY <1>3, <1>6
  <2>2. /\ draft' \in [Receipts -> Sendable] /\ status' \in [Receipts -> Statuses]
        /\ slipped' \in [Receipts -> BOOLEAN]
    BY <1>1, <1>2 DEF Statuses
  <2>3. ~ slipped'[r] => draft'[r].amount = Last(sent'[r]).amount
    BY <1>1, <1>2, <1>4 DEF Sending
  <2>4. ~ Sending(r)'
    BY <1>7 DEF Sending
  <2>5. \A x \in Receipts \ {r} :
          /\ draft'[x] = draft[x] /\ status'[x] = status[x] /\ sent'[x] = sent[x]
          /\ slipped'[x] = slipped[x] /\ job'[x] = job[x]
    BY <1>1, <1>2, <1>5, <1>7
  <2>6. UNCHANGED <<corrections, flames>>
    BY <1>2
  <2>7. QED
    BY <1>4, <2>1, <2>2, <2>3, <2>4, <2>5, <2>6, OneReceipt
<1>10. QED
  BY <1>2, <1>8, <1>9

LEMMA JobEnds ==
  ASSUME RInv, NEW r \in Receipts, NEW s \in Statuses, s # "SYNCED", ~ running,
         status' = [status EXCEPT ![r] = s],
         job' = [job EXCEPT ![r] = NoJob],
         slipped' = [slipped EXCEPT ![r] = FALSE],
         UNCHANGED <<draft, sent, done, txn, corrections, flames, running, run, byHand, left>>
  PROVE  RInv'
<1> USE DEF RInv
<1>1. /\ draft \in [Receipts -> Sendable] /\ status \in [Receipts -> Statuses]
      /\ slipped \in [Receipts -> BOOLEAN]
  BY GoodKept
<1>2. /\ job' \in [Receipts -> [stage : Stages, payload : Sendable]]
      /\ \A x \in Receipts \ {r} : job'[x] = job[x]
      /\ ~ Sending(r)'
  BY First1 DEF Rest, NoJob, Sending
<1>3. Rest'
  BY <1>2, RestOfOne DEF Rest
<1>4. Good(Kept)'
  <2>1. done \in [Receipts -> Nat] /\ done' = done
    BY ValuesAssumption DEF Rest
  <2>2. status'[r] = s
    BY <1>1
  <2>3. \A x \in Receipts \ {r} :
          /\ draft'[x] = draft[x] /\ status'[x] = status[x] /\ sent'[x] = sent[x]
          /\ slipped'[x] = slipped[x] /\ job'[x] = job[x]
    BY <1>1, <1>2
  <2>4. status' \in [Receipts -> Statuses] /\ slipped' \in [Receipts -> BOOLEAN]
    BY <1>1
  <2>5. done' \in [Receipts -> Nat] /\ \A x \in Receipts : done[x] <= done'[x]
    BY <2>1
  <2>6. draft' \in [Receipts -> Sendable] /\ UNCHANGED <<corrections, flames>>
    BY <1>1
  <2>7. QED
    BY <1>2, <2>2, <2>3, <2>4, <2>5, <2>6, OneReceipt
<1>5. QED
  BY <1>3, <1>4

LEMMA PriorGoneKeeps ==
  ASSUME RInv, NEW r \in Receipts, PriorGone(r)
  PROVE  RInv'
<1>1. "NEEDS_REVIEW" \in Statuses
  BY DEF Statuses
<1>2. QED
  BY <1>1, JobEnds DEF PriorGone

LEMMA JobFailsKeeps ==
  ASSUME RInv, NEW r \in Receipts, JobFails(r)
  PROVE  RInv'
<1>1. "ERROR_SYNC" \in Statuses
  BY DEF Statuses
<1>2. QED
  BY <1>1, JobEnds DEF JobFails

\* Corrections may be settled; nothing else of the books changes.
LEMMA SettlingKeeps ==
  ASSUME RInv, Rest', UNCHANGED <<draft, status, sent, done, flames, slipped>>,
         \A x \in Receipts : Sending(x)' => Sending(x) /\ job'[x].payload = job[x].payload,
         NEW f \in [corrections -> BOOLEAN],
         corrections' = {[c EXCEPT !.resynced = f[c]] : c \in corrections},
         ~ running'
  PROVE  RInv'
<1> USE DEF RInv
<1>1. /\ draft \in [Receipts -> Sendable] /\ status \in [Receipts -> Statuses]
      /\ corrections \in SUBSET CorrectionRecords /\ flames \in [Receipts -> Nat]
      /\ slipped \in [Receipts -> BOOLEAN]
      /\ \A c \in corrections : /\ c.real /\ Differs(c.sent, c.got)
                                /\ c.after \in 1..done[c.of]
      /\ \A x \in Receipts :
          /\ IsFiniteSet(KeysOf(corrections, x))
          /\ flames[x] = Cardinality(KeysOf(corrections, x))
          /\ ~ slipped[x] =>
               /\ status[x] = "SYNCED"
                    => sent[x] # <<>> /\ draft[x].amount = Last(sent[x]).amount
               /\ Sending(x) => draft[x] = job[x].payload
  BY GoodKept
<1>2. /\ corrections' \in SUBSET CorrectionRecords
      /\ \A x \in Receipts : KeysOf(corrections', x) = KeysOf(corrections, x)
      /\ \A d \in corrections' : \E c \in corrections :
           d.of = c.of /\ d.sent = c.sent /\ d.got = c.got /\ d.after = c.after
           /\ d.real = c.real
  <2>1. PICK D : D = corrections'
    OBVIOUS
  <2>2. PICK C : C = corrections
    OBVIOUS
  <2>3. /\ D \in SUBSET CorrectionRecords
        /\ \A x \in Receipts : KeysOf(D, x) = KeysOf(C, x)
        /\ \A d \in D : \E c \in C : d.of = c.of /\ d.sent = c.sent /\ d.got = c.got
                                      /\ d.after = c.after /\ d.real = c.real
    <3>1. C \in SUBSET CorrectionRecords /\ f \in [C -> BOOLEAN]
      BY <1>1, <2>2
    <3>2. D = Settling(C, f)
      BY <2>1, <2>2 DEF Settling
    <3>3. QED
      BY <3>1, <3>2, Settled, SMTT(60)
  <2>4. \A x \in Receipts : KeysOf(corrections', x) = KeysOf(corrections, x)
    BY <2>1, <2>2, <2>3 DEF KeysOf
  <2>5. QED
    BY <2>1, <2>2, <2>3, <2>4
<1>3. \A x \in Receipts : KeysOf(corrections, x)' = KeysOf(corrections', x)
  BY DEF KeysOf
<1>4. \A d \in corrections' : d.real /\ Differs(d.sent, d.got) /\ d.after \in 1..done'[d.of]
  BY <1>1, <1>2
<1>5. Good(Kept)'
  <2>1. \A x \in Receipts :
          /\ IsFiniteSet(KeysOf(corrections, x)')
          /\ flames'[x] = Cardinality(KeysOf(corrections, x)')
    BY <1>1, <1>2, <1>3
  <2>2. \A x \in Receipts :
          ~ slipped'[x] =>
            /\ status'[x] = "SYNCED"
                 => sent'[x] # <<>> /\ draft'[x].amount = Last(sent'[x]).amount
            /\ Sending(x)' => draft'[x] = job'[x].payload
    BY <1>1
  <2>3. QED
    <3>1. /\ draft' \in [Receipts -> Sendable] /\ status' \in [Receipts -> Statuses]
          /\ flames' \in [Receipts -> Nat] /\ slipped' \in [Receipts -> BOOLEAN]
      BY <1>1
    <3>2. QED
      BY <3>1, <1>2, <1>4, <2>1, <2>2, GoodKeptNext
<1>6. QED
  BY <1>5

LEMMA BookkeepingKeeps ==
  ASSUME RInv, NEW r \in Receipts, Bookkeeping(r)
  PROVE  RInv'
<1> DEFINE f == [c \in corrections |-> c.resynced \/ c.of = r]
<1>1. \A c \in corrections : c \in CorrectionRecords
  BY GoodKept DEF RInv
<1>2. f \in [corrections -> BOOLEAN]
  BY <1>1 DEF CorrectionRecords
<1>3. \A c \in corrections :
        [c EXCEPT !.resynced = @ \/ c.of = r] = [c EXCEPT !.resynced = f[c]]
  BY <1>1 DEF CorrectionRecords
<1>4. corrections' = {[c EXCEPT !.resynced = f[c]] : c \in corrections}
  BY <1>3 DEF Bookkeeping
<1> HIDE DEF f
<1>5. \A x \in Receipts : Sending(x)' => Sending(x) /\ job'[x].payload = job[x].payload
  BY DEF RInv, Rest, Bookkeeping, Sending, NoJob
<1>6. Rest'
  <2>1. /\ job' \in [Receipts -> [stage : Stages, payload : Sendable]]
        /\ \A x \in Receipts \ {r} : job'[x] = job[x]
        /\ ~ Sending(r)'
    BY First1 DEF RInv, Rest, Bookkeeping, Sending, NoJob
  <2>2. QED
    BY <2>1, RestOfOne DEF RInv, Rest, Bookkeeping
<1>7. QED
  BY <1>2, <1>4, <1>5, <1>6, SettlingKeeps DEF Bookkeeping

LEMMA BookkeepingFailsKeeps ==
  ASSUME RInv, NEW r \in Receipts, BookkeepingFails(r)
  PROVE  RInv'
<1>1. /\ job' \in [Receipts -> [stage : Stages, payload : Sendable]]
      /\ \A x \in Receipts \ {r} : job'[x] = job[x]
      /\ ~ Sending(r)'
  BY First1 DEF RInv, Rest, BookkeepingFails, Sending, NoJob
<1>2. Rest'
  BY <1>1, RestOfOne DEF RInv, Rest, BookkeepingFails
<1>3. Good(Kept)'
  <2>1. PICK b : b = Kept
    OBVIOUS
  <2>2. \A x \in Receipts : Sending(x)' => Sending(x) /\ job'[x].payload = job[x].payload
    BY <1>1 DEF Sending
  <2>3. Good(b)'
    BY <2>1, <2>2, GoodStays DEF BookkeepingFails, RInv
  <2>4. Kept' = b
    BY <2>1 DEF Kept, BookkeepingFails
  <2>5. QED
    BY <2>3, <2>4
<1>4. QED
  BY <1>2, <1>3 DEF RInv, BookkeepingFails

\* A run starts with something to fall back to.
LEMMA StartRunKeeps ==
  ASSUME RInv, StartRun
  PROVE  RInv'
<1>1. Rest'
  BY DEF RInv, Rest, StartRun, Sending
<1>2. PICK b : b = Kept
  OBVIOUS
<1>3. Good(b)'
  BY <1>2, GoodStays DEF RInv, StartRun, Sending
<1>4. Kept' = b /\ undo' = b
  BY <1>2 DEF Kept, StartRun
<1>5. QED
  BY <1>1, <1>3, <1>4 DEF RInv

\* Fetching nothing new leaves both what is written and what can be undone.
LEMMA PassedBy ==
  ASSUME RInv, run' \subseteq run,
         UNCHANGED <<draft, status, sent, done, job, txn, corrections, flames, running,
                     undo, byHand, left, slipped>>
  PROVE  RInv'
<1>1. Rest'
  BY DEF RInv, Rest, Sending
<1>2. \A x \in Receipts : Sending(x)' => Sending(x) /\ job'[x].payload = job[x].payload
  BY DEF Sending
<1>3. PICK b : b = Kept
  OBVIOUS
<1>4. PICK u : u = undo
  OBVIOUS
<1>5. Good(b)'
  BY <1>2, <1>3, GoodStays DEF RInv
<1>6. running => Good(u)'
  BY <1>2, <1>4, GoodStays DEF RInv
<1>7. Kept' = b /\ undo' = u
  BY <1>3, <1>4 DEF Kept
<1>8. QED
  BY <1>1, <1>5, <1>6, <1>7 DEF RInv

LEMMA FinishRunKeeps ==
  ASSUME RInv, FinishRun
  PROVE  RInv'
<1> DEFINE f == [c \in corrections |-> c.resynced \/ SyncedAfter(c)]
<1>1. \A c \in corrections : c \in CorrectionRecords
  BY GoodKept DEF RInv
<1>2. f \in [corrections -> BOOLEAN]
  BY <1>1 DEF CorrectionRecords, SyncedAfter
<1>3. \A c \in corrections :
        [c EXCEPT !.resynced = @ \/ SyncedAfter(c)] = [c EXCEPT !.resynced = f[c]]
  BY <1>1 DEF CorrectionRecords
<1>4. corrections' = {[c EXCEPT !.resynced = f[c]] : c \in corrections}
  BY <1>3 DEF FinishRun
<1> HIDE DEF f
<1>5. Rest' /\ \A x \in Receipts : Sending(x)' => Sending(x) /\ job'[x].payload = job[x].payload
  BY DEF RInv, Rest, FinishRun, Sending
<1>6. QED
  BY <1>2, <1>4, <1>5, SettlingKeeps DEF FinishRun

\* A failing run falls back to something good.
LEMMA RunFailsKeeps ==
  ASSUME RInv, RunFails
  PROVE  RInv'
<1>1. Rest'
  BY DEF RInv, Rest, RunFails, Sending
<1>2. PICK u : u = undo
  OBVIOUS
<1>3. Good(u)'
  BY <1>2, GoodStays DEF RInv, RunFails, Sending
<1>4. Kept' = u
  <2>1. u \in Books
    BY <1>2 DEF RInv, RunFails, Good
  <2>2. Kept' = [draft |-> u.draft, status |-> u.status, corrections |-> u.corrections,
                 flames |-> u.flames, slipped |-> u.slipped]
    BY <1>2 DEF Kept, RunFails
  <2>3. QED
    BY <2>1, <2>2 DEF Books
<1>5. QED
  BY <1>1, <1>3, <1>4 DEF RInv, RunFails

\* A difference not on record: its correction, its flame and the pull.
LEMMA FetchDifferenceKeeps ==
  ASSUME RInv, NEW r \in Receipts, FetchDifference(r)
  PROVE  RInv'
<1> USE DEF RInv
<1> DEFINE v == txn[r]
           s == Sent(r)
           c == Correction(r, s, v)
<1>1. /\ draft \in [Receipts -> Sendable] /\ status \in [Receipts -> Statuses]
      /\ corrections \in SUBSET CorrectionRecords /\ flames \in [Receipts -> Nat]
      /\ slipped \in [Receipts -> BOOLEAN]
      /\ \A d \in corrections : /\ d.real /\ Differs(d.sent, d.got)
                                /\ d.after \in 1..done[d.of]
      /\ \A x \in Receipts :
          /\ IsFiniteSet(KeysOf(corrections, x))
          /\ flames[x] = Cardinality(KeysOf(corrections, x))
          /\ ~ slipped[x] =>
               /\ status[x] = "SYNCED"
                    => sent[x] # <<>> /\ draft[x].amount = Last(sent[x]).amount
               /\ Sending(x) => draft[x] = job[x].payload
  BY GoodKept
<1>2. /\ running /\ sent[r] # <<>> /\ txn[r] # Deleted
      /\ Differs(s, v) /\ ~ Recorded(r, s, v)
      /\ corrections' = corrections \cup {c}
      /\ flames' = [flames EXCEPT ![r] = @ + 1]
      /\ Pull(r, v)
      /\ run' = run \ {r}
      /\ UNCHANGED <<sent, done, job, txn, running, undo, byHand, left>>
  BY DEF FetchDifference
<1>3. v \in Values /\ s \in Values /\ s = Last(sent[r])
  <2>1. sent[r] \in Seq(Sendable)
    BY DEF Rest
  <2>2. Last(sent[r]) \in Sendable
    BY <1>2, <2>1 DEF Last
  <2>3. QED
    BY <1>2, <2>2 DEF Rest, Sendable, Sent
<1>4. c \in CorrectionRecords /\ c.of = r /\ c.sent = s /\ c.got = v /\ c.after = done[r]
      /\ c.real = (byHand[r] \/ left[r] # Last(sent[r]))
  <2>1. byHand[r] \in BOOLEAN /\ done[r] \in Nat
    BY ValuesAssumption DEF Rest
  <2>2. QED
    BY <1>3, <2>1 DEF Correction, CorrectionRecords
<1>5. c.real
  <2>1. s # v
    BY <1>2 DEF Differs, Drifted
  <2>2. ~ byHand[r] => left[r] = v
    BY DEF Rest
  <2>3. QED
    BY <1>3, <1>4, <2>1, <2>2
<1>6. c.after \in 1..done[r]
  BY <1>4, ValuesAssumption DEF Rest
<1> HIDE DEF c, v, s
<1>7. /\ \A x \in Receipts : IsFiniteSet(KeysOf(corrections', x))
      /\ \A x \in Receipts : flames'[x] = Cardinality(KeysOf(corrections', x))
  <2>1. /\ IsFiniteSet(KeysOf(corrections \cup {c}, r))
        /\ Cardinality(KeysOf(corrections \cup {c}, r))
             = Cardinality(KeysOf(corrections, r)) + 1
        /\ \A x \in Receipts \ {r} :
             KeysOf(corrections \cup {c}, x) = KeysOf(corrections, x)
    BY <1>1, <1>2, <1>4, NewKey
  <2>2. flames'[r] = flames[r] + 1 /\ \A x \in Receipts \ {r} : flames'[x] = flames[x]
    BY <1>1, <1>2
  <2>3. QED
    BY <1>1, <1>2, <2>1, <2>2
<1>8. \A x \in Receipts : KeysOf(corrections, x)' = KeysOf(corrections', x)
  BY DEF KeysOf
<1>9. /\ corrections' \in SUBSET CorrectionRecords
      /\ flames' \in [Receipts -> Nat]
      /\ \A d \in corrections' : d.real /\ Differs(d.sent, d.got) /\ d.after \in 1..done'[d.of]
  BY <1>1, <1>2, <1>4, <1>5, <1>6
<1>10. /\ draft' \in [Receipts -> Sendable] /\ status' \in [Receipts -> Statuses]
       /\ slipped' \in [Receipts -> BOOLEAN]
       /\ \A x \in Receipts \ {r} :
            draft'[x] = draft[x] /\ status'[x] = status[x] /\ slipped'[x] = slipped[x]
       /\ ~ slipped'[r] =>
            /\ status'[r] = "SYNCED" => draft'[r].amount = s.amount
            /\ Sending(r) => draft'[r] = job[r].payload
  <2>1. CASE v.form # "mixed" /\ ~ Adoptable(v)
    BY <1>1, <1>2, <1>3, <2>1 DEF Pull
  <2>2. CASE ~ (v.form # "mixed" /\ ~ Adoptable(v))
    <3>1. /\ draft' = [draft EXCEPT ![r] = Corrected(r, v)]
          /\ status' = [status EXCEPT ![r] = AfterPull(r, v)]
          /\ slipped' = [slipped EXCEPT ![r] =
                 @ \/ v.form = "mixed" \/ job[r].stage # "none"]
      BY <1>2, <2>2 DEF Pull
    <3>2. Corrected(r, v) \in Sendable
      BY <1>1, <1>3, <2>2 DEF Corrected, Sendable
    <3>3. /\ AfterPull(r, v) \in Statuses
          /\ AfterPull(r, v) = "SYNCED" => s.amount = v.amount
      BY <1>3 DEF AfterPull, Statuses, Drifted, s
    <3>4. ~ slipped'[r] => Corrected(r, v) = v /\ ~ Sending(r)
      BY <1>1, <3>1 DEF Corrected, Sending
    <3>5. QED
      BY <1>1, <3>1, <3>2, <3>3, <3>4
  <2>3. QED
    BY <2>1, <2>2
<1>11. Rest'
  BY <1>2 DEF Rest, Sending
<1>12. Good(Kept)'
  <2>1. \A x \in Receipts :
          /\ IsFiniteSet(KeysOf(corrections, x)')
          /\ flames'[x] = Cardinality(KeysOf(corrections, x)')
    BY <1>7, <1>8
  <2>2. \A x \in Receipts : Sending(x)' <=> Sending(x)
    BY <1>2 DEF Sending
  <2>3. \A x \in Receipts :
          ~ slipped'[x] =>
            /\ status'[x] = "SYNCED"
                 => sent'[x] # <<>> /\ draft'[x].amount = Last(sent'[x]).amount
            /\ Sending(x)' => draft'[x] = job'[x].payload
    BY <1>1, <1>2, <1>3, <1>10, <2>2
  <2>4. QED
    BY <1>9, <1>10, <2>1, <2>3, GoodKeptNext
<1>13. running' => Good(undo)'
  <2>1. PICK u : u = undo
    OBVIOUS
  <2>2. \A x \in Receipts : Sending(x)' => Sending(x) /\ job'[x].payload = job[x].payload
    BY <1>2 DEF Sending
  <2>3. Good(u)'
    BY <1>2, <2>1, <2>2, GoodStays
  <2>4. undo' = u
    BY <1>2, <2>1
  <2>5. QED
    BY <2>3, <2>4
<1>14. QED
  BY <1>11, <1>12, <1>13

-----------------------------------------------------------------------------
LEMMA RInvInit == Init => RInv
<1> SUFFICES ASSUME Init PROVE RInv
  OBVIOUS
<1>1. First \in Values /\ First \in Sendable
  BY ValuesAssumption, First1
<1>2. <<First>> \in Seq(Sendable) /\ Len(<<First>>) = 1 /\ Last(<<First>>) = First
      /\ <<First>> # <<>>
  BY <1>1 DEF Last
<1>3. 1 \in 1..MaxSyncs
  BY ValuesAssumption
<1>4. Rest
  <2>1. /\ sent \in [Receipts -> Seq(Sendable)] /\ done \in [Receipts -> 1..MaxSyncs]
        /\ \A r \in Receipts : Len(sent[r]) <= done[r]
    BY <1>2, <1>3 DEF Init
  <2>2. /\ job \in [Receipts -> [stage : Stages, payload : Sendable]]
        /\ \A r \in Receipts : ~ Sending(r)
    BY First1 DEF Init, Sending, NoJob
  <2>3. QED
    BY <1>1, <2>1, <2>2 DEF Init, Rest
<1>5. Good(Kept)
  <2>1. \A r \in Receipts : KeysOf(corrections, r) = {}
    BY DEF Init, KeysOf
  <2>2. IsFiniteSet({}) /\ Cardinality({}) = 0
    BY FS_EmptySet
  <2>3. \A r \in Receipts : sent[r] = <<First>> /\ draft[r] = First /\ flames[r] = 0
                            /\ ~ Sending(r)
    BY DEF Init, Sending, NoJob
  <2>4. /\ draft \in [Receipts -> Sendable] /\ status \in [Receipts -> Statuses]
        /\ corrections = {} /\ flames \in [Receipts -> Nat]
        /\ slipped \in [Receipts -> BOOLEAN]
    BY <1>1 DEF Init, Statuses
  <2>5. QED
    <3>1. \A r \in Receipts :
            /\ IsFiniteSet(KeysOf(corrections, r))
            /\ flames[r] = Cardinality(KeysOf(corrections, r))
      BY <2>1, <2>2, <2>3
    <3>2. \A r \in Receipts :
            sent[r] # <<>> /\ draft[r].amount = Last(sent[r]).amount /\ ~ Sending(r)
      BY <1>2, <2>3
    <3>3. QED
      BY <2>4, <3>1, <3>2, GoodKept
<1>6. ~ running
  BY DEF Init
<1>7. QED
  BY <1>4, <1>5, <1>6 DEF RInv

LEMMA StepInvariant == RInv /\ [Next]_vars => RInv'
<1> SUFFICES ASSUME RInv, [Next]_vars PROVE RInv'
  OBVIOUS
<1>1. CASE UNCHANGED vars
  BY <1>1, PassedBy DEF vars
<1>2. CASE StartRun \/ FinishRun \/ RunFails
  BY <1>2, StartRunKeeps, FinishRunKeeps, RunFailsKeeps
<1>3. ASSUME NEW r \in Receipts, NEW v \in {w \in Values : Adoptable(w)}, SaveDraft(r, v)
      PROVE  RInv'
  BY <1>3, SaveDraftKeeps DEF Sendable
<1>4. ASSUME NEW r \in Receipts,
             ClickSync(r) \/ JobWrites(r) \/ YnabRefuses(r) \/ JobCommits(r)
             \/ PriorGone(r) \/ JobFails(r) \/ Bookkeeping(r) \/ BookkeepingFails(r)
      PROVE  RInv'
  BY <1>4, ClickSyncKeeps, JobWritesKeeps, YnabRefusesKeeps, JobCommitsKeeps,
     PriorGoneKeeps, JobFailsKeeps, BookkeepingKeeps, BookkeepingFailsKeeps
<1>5. ASSUME NEW r \in Receipts, FetchNothingNew(r) \/ Skip(r)
      PROVE  RInv'
  BY <1>5, PassedBy DEF FetchNothingNew, Skip
<1>6. QED
  BY <1>1, <1>2, <1>3, <1>4, <1>5, EditInYnabKeeps, FetchDifferenceKeeps DEF Next

LEMMA Invariance == Spec => []RInv
BY RInvInit, StepInvariant, PTL DEF Spec

-----------------------------------------------------------------------------
(***************************************************************************)
(* Every variable keeps its type.                                          *)
(***************************************************************************)
THEOREM ReconcileTypes == Spec => []TypeOK
<1>1. RInv => TypeOK
  <2> SUFFICES ASSUME RInv PROVE TypeOK
    OBVIOUS
  <2> USE DEF RInv
  <2>1. /\ draft \in [Receipts -> Sendable] /\ status \in [Receipts -> Statuses]
        /\ corrections \in SUBSET CorrectionRecords /\ flames \in [Receipts -> Nat]
        /\ slipped \in [Receipts -> BOOLEAN]
        /\ \A c \in corrections : Differs(c.sent, c.got) /\ c.after \in 1..done[c.of]
    BY GoodKept
  <2>2. /\ draft \in [Receipts -> Values]
        /\ \A r \in Receipts : Adoptable(draft[r])
    BY <2>1 DEF Sendable
  <2>3. \A r \in Receipts :
          /\ sent[r] \in Seq({v \in Values : Adoptable(v)})
          /\ Len(sent[r]) <= done[r] /\ done[r] \in 1..MaxSyncs
    BY DEF Rest, Sendable
  <2>4. job \in [Receipts -> [stage : Stages, payload : Values]]
    BY DEF Rest, Sendable
  <2>5. \A c \in corrections :
          /\ c.of \in Receipts /\ c.sent \in Values /\ c.got \in Values
          /\ Differs(c.sent, c.got) /\ c.after \in 1..done[c.of]
          /\ c.resynced \in BOOLEAN /\ c.real \in BOOLEAN
    BY <2>1 DEF CorrectionRecords
  <2>6. QED
    BY <2>1, <2>2, <2>3, <2>4, <2>5 DEF Rest, TypeOK, Statuses
<1>2. QED
  BY <1>1, Invariance, PTL

(***************************************************************************)
(* A receipt has as many flames as differences on record, whatever fails.  *)
(***************************************************************************)
THEOREM ReconcileChargedOnce == Spec => []ChargedOnce
<1>1. RInv => ChargedOnce
  BY GoodKept DEF RInv, ChargedOnce, KeysOf
<1>2. QED
  BY <1>1, Invariance, PTL

(***************************************************************************)
(* No flame is charged for a difference that is nobody's doing.            *)
(***************************************************************************)
THEOREM FlamesReal == Spec => []FlamesAreReal
<1>1. RInv => FlamesAreReal
  BY GoodKept DEF RInv, FlamesAreReal
<1>2. QED
  BY <1>1, Invariance, PTL

(***************************************************************************)
(* SYNCED stands for the amount that was sent, unless the draft slipped.   *)
(***************************************************************************)
THEOREM SyncedShows == Spec => []SyncedShowsSent
<1>1. RInv => SyncedShowsSent
  BY GoodKept DEF RInv, SyncedShowsSent
<1>2. QED
  BY <1>1, Invariance, PTL
=============================================================================
