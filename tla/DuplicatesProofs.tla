-------------------------- MODULE DuplicatesProofs --------------------------
(***************************************************************************)
(* Proofs about Duplicates, for any receipts, drafts and bounds.           *)
(*                                                                         *)
(* Every step is about one receipt: Effect(r) says what it may do to that  *)
(* receipt beside the others.  Each action has such an effect, and such an *)
(* effect preserves the invariant DInv.                                    *)
(***************************************************************************)
EXTENDS Duplicates, WellFoundedInduction, TLAPS

\* A nonempty set of natural numbers has a least one.
LEMMA LeastNat ==
  ASSUME NEW S, S \subseteq Nat, S # {}
  PROVE  \E x \in S : \A y \in S : x <= y
<1>1. \A x, y \in Nat : y < x => <<y, x>> \in OpToRel(<, Nat)
  BY DEF OpToRel
<1>2. \E R : IsWellFoundedOn(R, Nat) /\ \A x, y \in Nat : y < x => <<y, x>> \in R
  BY <1>1, NatLessThanWellFounded, Zenon
<1>3. PICK R : IsWellFoundedOn(R, Nat) /\ \A x, y \in Nat : y < x => <<y, x>> \in R
  BY <1>2
<1>4. PICK x \in S : \A y \in S : ~(<<y, x>> \in R)
  BY <1>3, WFMin
<1>5. \A y \in S : <<y, x>> \notin R /\ x \in Nat /\ y \in Nat
  BY <1>4
<1>6. \A y \in S : ~ (y < x)
  BY <1>3, <1>5, Zenon
<1>7. \A y \in S : x <= y
  BY <1>5, <1>6
<1>8. QED
  BY <1>7

\* The first of some receipts is one of them.
LEMMA FirstIsOne ==
  ASSUME NEW S, S \subseteq Receipts, S # {}
  PROVE  First(S) \in S
<1>1. \E x \in S : \A y \in S : x <= y
  BY LeastNat, DuplicateConstants
<1>2. QED
  BY <1>1 DEF First

-----------------------------------------------------------------------------
\* A row that is not there is not in review, and one that never was has no
\* signature.
NothingLeft ==
  \A r \in Receipts :
    /\ ~ There(r) => mark[r].status = "OTHER"
    /\ row[r] = "absent" => mark[r].sig = Nothing

DInv == TypeOK /\ NothingLeft /\ OriginalsRemain /\ OverrideHolds /\ TwinsAreFlagged

Types ==
  /\ row' \in [Receipts -> {"absent", "live", "deleted", "merged", "purged"}]
  /\ draft' \in [Receipts -> Drafts \cup {NoDraft}]
  /\ mark' \in [Receipts -> Marks]
  /\ synced' \in [Receipts -> BOOLEAN]
  /\ excused' \in [Receipts -> BOOLEAN]

\* The pointer of a copy leads to a receipt that is none.
Rooted(r) == mark'[r].of \in Receipts \ {r} /\ ~ Copy(mark'[r].of)

Effect(r) ==
  /\ Types
  /\ \A x \in Receipts \ {r} :
       row'[x] = row[x] /\ draft'[x] = draft[x] /\ mark'[x] = mark[x]
         /\ excused'[x] = excused[x]
  /\ InReview(r)' => mark'[r].of # Nothing
  /\ ~ There(r)' => mark'[r].status = "OTHER"
  /\ row'[r] = "absent" => mark'[r].sig = Nothing
  /\ Copy(r)' => (Copy(r) /\ mark'[r].of = mark[r].of) \/ Rooted(r)
  /\ mark'[r].override # Nothing /\ mark'[r].override = mark'[r].sig => ~ InReview(r)'
  /\ \A x \in Receipts \ {r} :
       row'[r] = "live" /\ row[x] = "live" /\ mark'[r].sig # Nothing
         /\ mark'[r].sig = mark[x].sig /\ draft'[r].kind = draft[x].kind
       => mark'[r].of # Nothing \/ mark[x].of # Nothing \/ Decided(r)' \/ Decided(x)

\* An effect on one receipt preserves the invariant.
LEMMA EffectPreserves ==
  ASSUME DInv, NEW r \in Receipts, Effect(r)
  PROVE  DInv'
<1>1. \A x \in Receipts \ {r} : /\ Copy(x)' = Copy(x)
                                /\ InReview(x)' = InReview(x)
                                /\ There(x)' = There(x)
                                /\ Decided(x)' = Decided(x)
                                /\ mark'[x] = mark[x] /\ row'[x] = row[x]
                                /\ draft'[x] = draft[x]
  BY DEF Effect, Copy, InReview, There, Decided
<1>2. TypeOK'
  <2>1. \A x \in Receipts : InReview(x)' => mark'[x].of # Nothing
    BY <1>1 DEF DInv, TypeOK, Effect
  <2>2. QED
    BY <2>1 DEF TypeOK, Effect, Types, Marks, Sigs
<1>3. NothingLeft'
  BY <1>1 DEF DInv, NothingLeft, Effect
<1>4. OriginalsRemain'
  <2> SUFFICES ASSUME NEW S \in SUBSET {x \in Receipts : Copy(x)'}, S # {}
               PROVE  \E x \in S : mark'[x].of \in Receipts \ S
    BY DEF OriginalsRemain
  <2>1. CASE r \in S /\ Rooted(r)
    BY <2>1, <1>1 DEF Rooted
  <2>2. CASE ~ (r \in S /\ Rooted(r))
    <3>1. S \in SUBSET {x \in Receipts : Copy(x)}
      BY <2>2, <1>1 DEF Effect
    <3>2. PICK x \in S : mark[x].of \in Receipts \ S
      BY <3>1 DEF DInv, OriginalsRemain
    <3>3. mark'[x].of = mark[x].of
      BY <2>2, <1>1 DEF Effect
    <3>4. QED
      BY <3>2, <3>3
  <2>3. QED
    BY <2>1, <2>2
<1>5. OverrideHolds'
  BY <1>1 DEF DInv, OverrideHolds, Effect
<1>6. TwinsAreFlagged'
  <2> SUFFICES ASSUME NEW x \in Receipts, NEW y \in Receipts, x # y,
                      row'[x] = "live", row'[y] = "live",
                      mark'[x].sig # Nothing, mark'[x].sig = mark'[y].sig,
                      draft'[x].kind = draft'[y].kind
               PROVE  \/ mark'[x].of # Nothing \/ mark'[y].of # Nothing
                      \/ Decided(x)' \/ Decided(y)'
    BY DEF TwinsAreFlagged
  <2>1. CASE x = r
    BY <2>1, <1>1 DEF Effect
  <2>2. CASE y = r
    BY <2>2, <1>1 DEF Effect
  <2>3. CASE x # r /\ y # r
    BY <2>3, <1>1 DEF DInv, TwinsAreFlagged
  <2>4. QED
    BY <2>1, <2>2, <2>3
<1>7. QED
  BY <1>2, <1>3, <1>4, <1>5, <1>6 DEF DInv

-----------------------------------------------------------------------------
(* The check *)

\* What a check of draft d leaves in the row: a flagged receipt points to a live
\* one that is not in review, and an equal one that was not flagged, for a reason.
LEMMA CheckedFacts ==
  ASSUME TypeOK, NEW r \in Receipts, NEW d, d.sig \in Sigs, NEW m \in Marks,
         NEW c, c = Checked(r, d, m)
  PROVE  /\ c \in Marks
         /\ c.sig = d.sig
         /\ c.status = "DUPLICATE_REVIEW"
              => c.of \in Receipts \ {r} /\ c.of # Nothing /\ ~ Copy(c.of)
         /\ c.override # Nothing /\ c.override = c.sig => c.status # "DUPLICATE_REVIEW"
         /\ \A x \in Receipts \ {r} :
              row[x] = "live" /\ c.sig # Nothing /\ c.sig = mark[x].sig
                /\ d.kind = draft[x].kind
              => \/ c.of # Nothing \/ mark[x].of # Nothing
                 \/ c.override # Nothing /\ c.override = c.sig
<1>0. Nothing \in Sigs /\ m.override \in Sigs
  BY DEF Sigs, Marks
<1>1. CASE d.sig \in {Nothing, m.override}
  <2>1. c = Cleared(m, d.sig, m.override)
    BY <1>1 DEF Checked
  <2>2. QED
    BY <1>0, <1>1, <2>1 DEF Cleared, Marks
<1>2. CASE d.sig \notin {Nothing, m.override} /\ SameKind(r, d) = {}
  <2>1. c = Cleared(m, d.sig, Nothing)
    BY <1>2 DEF Checked
  <2>2. \A x \in Receipts \ {r} :
          row[x] = "live" /\ d.sig = mark[x].sig /\ d.kind = draft[x].kind
            => mark[x].of # Nothing
    BY <1>2 DEF SameKind, Pool, Matches, TypeOK
  <2>3. /\ c \in Marks /\ c.sig = d.sig
        /\ c.status # "DUPLICATE_REVIEW" /\ c.of = Nothing
    BY <1>0, <2>1 DEF Cleared, Marks
  <2>4. QED
    BY <2>2, <2>3, Zenon
<1>3. CASE d.sig \notin {Nothing, m.override} /\ SameKind(r, d) # {}
  <2>1. c = Flagged(d, SameKind(r, d))
    BY <1>3 DEF Checked
  <2> DEFINE f == First(SameKind(r, d))
  <2>2. f \in SameKind(r, d)
    BY <1>3, FirstIsOne DEF SameKind, Pool, Matches
  <2> HIDE DEF f
  <2>3. f \in Matches(r, d.sig) /\ ~ InReview(f)
    BY <2>2 DEF SameKind, Pool
  <2>4. f \in Receipts \ {r} /\ row[f] = "live" /\ f # Nothing /\ ~ Copy(f)
    BY <2>3, DuplicateConstants DEF Matches, Copy
  <2>5. c = [status |-> "DUPLICATE_REVIEW", of |-> f, override |-> Nothing, sig |-> d.sig]
    BY <2>1 DEF Flagged, f
  <2>6. QED
    BY <1>0, <2>4, <2>5 DEF Marks
<1>4. QED
  BY <1>1, <1>2, <1>3

\* A step that writes what a check found, perhaps with another status, has the
\* effect of a check.
LEMMA CheckEffect ==
  ASSUME DInv, NEW r \in Receipts, NEW d \in Drafts \cup {NoDraft}, NEW m \in Marks,
         There(r), row' = row,
         draft' = [draft EXCEPT ![r] = d],
         NEW st \in {"OTHER", "SYNCING"},
         \/ mark' = [mark EXCEPT ![r] = Checked(r, d, m)]
         \/ mark' = [mark EXCEPT ![r] = [Checked(r, d, m) EXCEPT !.status = st]],
         synced' \in [Receipts -> BOOLEAN],
         excused' = [excused EXCEPT ![r] = FALSE]
  PROVE  Effect(r)
<1> DEFINE c == Checked(r, d, m)
<1>1. d.sig \in Sigs
  BY DEF Sigs, NoDraft
<1>2. /\ c \in Marks
      /\ c.sig = d.sig
      /\ c.status = "DUPLICATE_REVIEW"
           => c.of \in Receipts \ {r} /\ c.of # Nothing /\ ~ Copy(c.of)
      /\ c.override # Nothing /\ c.override = c.sig => c.status # "DUPLICATE_REVIEW"
      /\ \A x \in Receipts \ {r} :
           row[x] = "live" /\ c.sig # Nothing /\ c.sig = mark[x].sig
             /\ d.kind = draft[x].kind
           => \/ c.of # Nothing \/ mark[x].of # Nothing
              \/ c.override # Nothing /\ c.override = c.sig
  BY <1>1, CheckedFacts DEF DInv
<1> HIDE DEF c
<1>3. /\ mark'[r] \in Marks
      /\ mark'[r].sig = c.sig /\ mark'[r].of = c.of /\ mark'[r].override = c.override
      /\ mark'[r].status = "DUPLICATE_REVIEW" => c.status = "DUPLICATE_REVIEW"
      /\ mark' = [mark EXCEPT ![r] = mark'[r]]
  BY <1>2 DEF c, Marks, DInv, TypeOK
<1>4. Types
  BY <1>3 DEF Types, DInv, TypeOK
<1>5. \A x \in Receipts \ {r} :
        row'[x] = row[x] /\ draft'[x] = draft[x] /\ mark'[x] = mark[x]
          /\ excused'[x] = excused[x]
  BY <1>3 DEF DInv, TypeOK
<1>6. row'[r] \in {"live", "deleted"} /\ draft'[r] = d
  BY DEF There, DInv, TypeOK
<1>7. InReview(r)' => c.status = "DUPLICATE_REVIEW"
  BY <1>3 DEF InReview
<1>8. Copy(r)' => Rooted(r)
  BY <1>2, <1>3, <1>6, <1>7 DEF Copy, Rooted
<1>9. c.override # Nothing /\ c.override = c.sig => Decided(r)'
  BY <1>3 DEF Decided
<1>10. QED
  BY <1>2, <1>3, <1>4, <1>5, <1>6, <1>7, <1>8, <1>9 DEF Effect, There

-----------------------------------------------------------------------------
(* The actions *)

\* The columns of a receipt that is there, whatever the receipt.
LEMMA MarkTypes ==
  ASSUME TypeOK, NEW r \in Receipts
  PROVE  /\ mark[r] \in Marks /\ [mark[r] EXCEPT !.status = "OTHER"] \in Marks
         /\ Nothing \in Sigs /\ mark[r].sig \in Sigs /\ draft[r].sig \in Sigs
         /\ draft[r] \in Drafts \cup {NoDraft}
<1>1. mark[r] \in Marks /\ draft[r] \in Drafts \cup {NoDraft}
  BY DEF TypeOK
<1>2. [mark[r] EXCEPT !.status = "OTHER"] \in Marks /\ mark[r].sig \in Sigs
  BY <1>1 DEF Marks
<1>3. Nothing \in Sigs /\ draft[r].sig \in Sigs
  BY <1>1 DEF Sigs, NoDraft
<1>4. QED
  BY <1>1, <1>2, <1>3

\* A step that leaves rows, drafts and excuses alone and takes the receipt out of
\* review, its pointer and its signature kept.
LEMMA StatusEffect ==
  ASSUME DInv, NEW r \in Receipts, There(r),
         mark' = [mark EXCEPT ![r].status = "OTHER"],
         UNCHANGED <<row, draft, synced, excused>>
  PROVE  Effect(r)
<1>1. mark'[r] = [mark[r] EXCEPT !.status = "OTHER"] /\ mark[r] \in Marks
  BY DEF DInv, TypeOK
<1>2. /\ mark'[r].status = "OTHER" /\ mark'[r].of = mark[r].of
      /\ mark'[r].sig = mark[r].sig /\ mark'[r].override = mark[r].override
      /\ mark'[r] \in Marks
  BY <1>1 DEF Marks
<1>3. Types
  BY <1>2 DEF DInv, TypeOK, Types
<1>4. ~ InReview(r)' /\ ~ Copy(r)' /\ row[r] \in {"live", "deleted"}
  BY <1>2 DEF InReview, Copy, There
<1>5. Decided(r)' = Decided(r) /\ \A x \in Receipts \ {r} : mark'[x] = mark[x]
  BY <1>2 DEF Decided, DInv, TypeOK
<1>6. QED
  BY <1>2, <1>3, <1>4, <1>5 DEF Effect, There, DInv, TwinsAreFlagged

\* A row that goes away.
LEMMA GoneEffect ==
  ASSUME DInv, NEW r \in Receipts, NEW how \in {"merged", "purged"},
         NEW of \in Receipts \cup {Nothing}, Gone(r, how, of),
         how = "merged" => Copy(r) /\ of = mark[r].of
  PROVE  Effect(r)
<1>1. /\ mark'[r] = [NoMark EXCEPT !.of = of] /\ row'[r] = how
      /\ \A x \in Receipts \ {r} : row'[x] = row[x] /\ draft'[x] = draft[x]
                                    /\ mark'[x] = mark[x] /\ excused'[x] = excused[x]
  BY DEF Gone, DInv, TypeOK
<1>2. mark'[r].status = "OTHER" /\ mark'[r].of = of /\ mark'[r] \in Marks
  BY <1>1 DEF NoMark, Marks, Sigs
<1>3. Types
  BY <1>2 DEF Gone, Types, DInv, TypeOK
<1>4. ~ InReview(r)' /\ row'[r] \notin {"live", "deleted", "absent"}
  BY <1>1, <1>2 DEF InReview
<1>5. Copy(r)' => Copy(r) /\ mark'[r].of = mark[r].of
  BY <1>1, <1>2, <1>4 DEF Copy
<1>6. QED
  BY <1>1, <1>2, <1>3, <1>4, <1>5 DEF Effect

\* A live row put in the bin, and one taken out again, which is excused.
LEMMA BinEffect ==
  ASSUME DInv, NEW r \in Receipts, NEW to \in {"live", "deleted"}, There(r),
         row' = [row EXCEPT ![r] = to],
         to = "deleted" => excused' = excused,
         to = "live" => excused' = [excused EXCEPT ![r] = TRUE],
         UNCHANGED <<draft, mark, synced>>
  PROVE  Effect(r)
<1>1. /\ row'[r] = to /\ \A x \in Receipts \ {r} : row'[x] = row[x]
      /\ Types
      /\ to = "live" => excused'[r] = TRUE
      /\ \A x \in Receipts \ {r} : excused'[x] = excused[x]
  BY DEF DInv, TypeOK, Types
<1>2. Copy(r)' = Copy(r) /\ InReview(r)' = InReview(r)
  BY <1>1 DEF Copy, InReview, There
<1>3. QED
  BY <1>1, <1>2 DEF Effect, DInv, TypeOK, OverrideHolds, There, Decided

\* An action that clears the row of its link and its place in review.
LEMMA ClearedEffect ==
  ASSUME DInv, NEW r \in Receipts, There(r), NEW d \in Drafts \cup {NoDraft},
         NEW sig \in Sigs, NEW o \in Sigs,
         mark' = [mark EXCEPT ![r] = Cleared(@, sig, o)],
         draft' = [draft EXCEPT ![r] = d],
         excused' \in [Receipts -> BOOLEAN],
         \A x \in Receipts \ {r} : excused'[x] = excused[x],
         UNCHANGED <<row, synced>>,
         sig # Nothing => o = sig
  PROVE  Effect(r)
<1>1. /\ mark'[r] = Cleared(mark[r], sig, o) /\ mark[r] \in Marks
      /\ \A x \in Receipts \ {r} : draft'[x] = draft[x] /\ mark'[x] = mark[x]
  BY DEF DInv, TypeOK
<1>2. /\ mark'[r] \in Marks /\ mark'[r].status # "DUPLICATE_REVIEW"
      /\ mark'[r].sig = sig /\ mark'[r].override = o
  BY <1>1 DEF Cleared, Marks
<1>3. Types
  BY <1>2 DEF Types, DInv, TypeOK
<1>4. ~ InReview(r)' /\ ~ Copy(r)' /\ row[r] \in {"live", "deleted"}
  BY <1>2 DEF InReview, Copy, There
<1>5. mark'[r].sig # Nothing => Decided(r)'
  BY <1>2 DEF Decided
<1>6. QED
  BY <1>1, <1>2, <1>3, <1>4, <1>5 DEF Effect, There

\* Every request of the user has such an effect.
LEMMA RequestEffect ==
  ASSUME DInv, NEW r \in Receipts, Request(r)
  PROVE  Effect(r)
<1>0. /\ mark[r] \in Marks /\ Nothing \in Sigs /\ mark[r].sig \in Sigs
      /\ draft[r].sig \in Sigs /\ draft[r] \in Drafts \cup {NoDraft}
  BY MarkTypes DEF DInv
<1>1. ASSUME NEW d \in Drafts, SaveDraft(r, d) PROVE Effect(r)
  <2>1. CASE d.valid
    <3>1. mark' = [mark EXCEPT ![r] = Checked(r, d, mark[r])]
      BY <1>1, <2>1 DEF SaveDraft, DInv, TypeOK
    <3>2. QED
      BY <1>0, <1>1, <3>1, CheckEffect DEF SaveDraft, There, DInv, TypeOK
  <2>2. CASE ~ d.valid
    BY <1>0, <1>1, <2>2, ClearedEffect DEF SaveDraft, There, DInv, TypeOK
  <2>3. QED
    BY <2>1, <2>2
<1>2. ASSUME NEW d \in Drafts, RefreshDraft(r, d) PROVE Effect(r)
  <2>1. Types /\ Copy(r)' = Copy(r) /\ InReview(r)' = InReview(r)
        /\ draft'[r].kind = draft[r].kind
    BY <1>2 DEF RefreshDraft, Types, Copy, InReview, There, DInv, TypeOK
  <2>2. QED
    BY <1>2, <2>1 DEF RefreshDraft, Effect, DInv, TypeOK, OverrideHolds, TwinsAreFlagged,
                      There, Decided
<1>3. ASSUME NEW d \in Drafts, ResetToSynced(r, d) PROVE Effect(r)
  <2> DEFINE c == Checked(r, d, mark[r])
  <2>1. c \in Marks /\ c.sig = d.sig
    BY <1>0, CheckedFacts DEF DInv, Sigs
  <2> HIDE DEF c
  <2>2. mark'[r] = [c EXCEPT !.status = "OTHER", !.of = Nothing]
    BY <1>3 DEF ResetToSynced, DInv, TypeOK, c
  <2>3. mark'[r] \in Marks /\ mark'[r].status = "OTHER"
    BY <2>1, <2>2 DEF Marks
  <2>4. Types /\ \A x \in Receipts \ {r} : draft'[x] = draft[x] /\ mark'[x] = mark[x]
                                           /\ excused'[x] = excused[x]
    BY <1>3, <2>3 DEF ResetToSynced, Types, DInv, TypeOK
  <2>5. ~ InReview(r)' /\ ~ Copy(r)' /\ Decided(r)' /\ row' = row /\ row[r] = "live"
    BY <1>3, <2>3 DEF ResetToSynced, InReview, Copy, There, Decided, DInv, TypeOK
  <2>6. QED
    BY <2>4, <2>5 DEF Effect, There
<1>4. CASE OverrideDuplicate(r)
  BY <1>0, <1>4, ClearedEffect DEF OverrideDuplicate, There, DInv, TypeOK
<1>5. CASE ConfirmDuplicate(r)
  BY <1>0, <1>5, GoneEffect DEF ConfirmDuplicate, Copy, There, Marks
<1>6. CASE DeleteReceipt(r)
  BY <1>6, BinEffect DEF DeleteReceipt, There
<1>7. CASE RestoreReceipt(r)
  BY <1>7, BinEffect DEF RestoreReceipt, There
<1>8. CASE RetryExtract(r)
  BY <1>8, StatusEffect DEF RetryExtract, There
<1>9. CASE ClickSync(r)
  <2>1. \/ mark' = [mark EXCEPT ![r] = Checked(r, draft[r], mark[r])]
        \/ mark' = [mark EXCEPT ![r] = [Checked(r, draft[r], mark[r])
                                          EXCEPT !.status = "SYNCING"]]
    BY <1>9 DEF ClickSync
  <2>2. draft' = [draft EXCEPT ![r] = draft[r]]
    BY <1>9 DEF ClickSync, DInv, TypeOK
  <2>3. QED
    BY <1>0, <1>9, <2>1, <2>2, CheckEffect DEF ClickSync, There, DInv, TypeOK
<1>10. QED
  BY <1>1, <1>2, <1>3, <1>4, <1>5, <1>6, <1>7, <1>8, <1>9 DEF Request

\* And so has every step of a job or of the retention sweep.
LEMMA BackgroundEffect ==
  ASSUME DInv, NEW r \in Receipts, Background(r)
  PROVE  Effect(r)
<1>0. /\ mark[r] \in Marks /\ [mark[r] EXCEPT !.status = "OTHER"] \in Marks
      /\ draft[r] \in Drafts \cup {NoDraft}
  BY MarkTypes DEF DInv
<1>1. CASE Ingest(r)
  <2>1. Types /\ row'[r] = "live" /\ \A x \in Receipts \ {r} : row'[x] = row[x]
    BY <1>1 DEF Ingest, Types, DInv, TypeOK
  <2>2. ~ InReview(r)' /\ ~ Copy(r)' /\ mark'[r].sig = Nothing
    BY <1>1, <2>1 DEF Ingest, DInv, NothingLeft, There, InReview, Copy
  <2>3. QED
    BY <1>1, <2>1, <2>2 DEF Ingest, Effect, There
<1>2. CASE Purge(r)
  BY <1>2, GoneEffect DEF Purge
<1>3. CASE SyncEnds(r)
  <2>1. \/ mark' = [mark EXCEPT ![r] = Checked(r, draft[r], mark[r])]
        \/ mark' = [mark EXCEPT ![r] = [Checked(r, draft[r], mark[r])
                                          EXCEPT !.status = "OTHER"]]
    BY <1>3 DEF SyncEnds
  <2>2. draft' = [draft EXCEPT ![r] = draft[r]] /\ synced' \in [Receipts -> BOOLEAN]
    BY <1>3 DEF SyncEnds, DInv, TypeOK, RoomToSync
  <2>3. There(r) /\ row' = row /\ excused' = [excused EXCEPT ![r] = FALSE]
    BY <1>3 DEF SyncEnds
  <2>4. QED
    BY <1>0, <2>1, <2>2, <2>3, CheckEffect
<1>4. ASSUME NEW d \in Drafts, ExtractionSucceeds(r, d) PROVE Effect(r)
  <2>1. mark' = [mark EXCEPT ![r] = Checked(r, d, [mark[r] EXCEPT !.status = "OTHER"])]
    BY <1>4 DEF ExtractionSucceeds, DInv, TypeOK
  <2>2. QED
    BY <1>0, <1>4, <2>1, CheckEffect DEF ExtractionSucceeds, DInv, TypeOK
<1>5. CASE ExtractionFails(r)
  BY <1>5, StatusEffect DEF ExtractionFails
<1>6. QED
  BY <1>1, <1>2, <1>3, <1>4, <1>5 DEF Background

-----------------------------------------------------------------------------
\* The invariant holds at the start and is preserved by every step.
LEMMA InitInvariant == Init => DInv
<1> SUFFICES ASSUME Init PROVE DInv
  OBVIOUS
<1>1. TypeOK
  BY DEF Init, TypeOK, Marks, Sigs, NoMark, InReview
<1>2. \A r \in Receipts : ~ Copy(r) /\ mark[r].status = "OTHER" /\ mark[r].sig = Nothing
                            /\ ~ InReview(r) /\ row[r] = "absent"
  BY DEF Init, NoMark, Copy, InReview, There
<1>3. NothingLeft /\ OverrideHolds /\ TwinsAreFlagged
  BY <1>2 DEF NothingLeft, OverrideHolds, TwinsAreFlagged
<1>4. OriginalsRemain
  BY <1>2 DEF OriginalsRemain
<1>5. QED
  BY <1>1, <1>3, <1>4 DEF DInv

LEMMA StepInvariant == DInv /\ [Next]_vars => DInv'
<1> SUFFICES ASSUME DInv, [Next]_vars PROVE DInv'
  OBVIOUS
<1>1. ASSUME NEW r \in Receipts, Request(r) \/ Background(r) PROVE DInv'
  BY <1>1, RequestEffect, BackgroundEffect, EffectPreserves
<1>2. CASE UNCHANGED vars
  BY <1>2 DEF vars, DInv, TypeOK, NothingLeft, OriginalsRemain, OverrideHolds,
              TwinsAreFlagged, InReview, There, Copy, Decided
<1>3. QED
  BY <1>1, <1>2 DEF Next

LEMMA Invariant == Spec => []DInv
BY InitInvariant, StepInvariant, PTL DEF Spec

\* Type correctness for any number of receipts; and what is in review has a
\* receipt it is a duplicate of (duplicates.py:251-278).
THEOREM DuplicateTypes == Spec => []TypeOK
<1>1. DInv => TypeOK
  BY DEF DInv
<1>2. QED
  BY <1>1, Invariant, PTL

\* Confirming duplicates never removes all scans of a purchase: any receipts
\* that were removed as duplicates, or can be, have one that leads out of them
\* (receipts.py:1586-1608 with the pool of duplicates.py:225-234).
THEOREM AnOriginalRemains == Spec => []OriginalsRemain
<1>1. DInv => OriginalsRemain
  BY DEF DInv
<1>2. QED
  BY <1>1, Invariant, PTL

\* An override holds until the receipt says something else (duplicates.py:193-201).
THEOREM OverridesHold == Spec => []OverrideHolds
<1>1. DInv => OverrideHolds
  BY DEF DInv
<1>2. QED
  BY <1>1, Invariant, PTL

\* Of two live receipts that say the same, one is flagged or was decided on
\* (duplicates.py:225-278).
THEOREM EqualsAreFlagged == Spec => []TwinsAreFlagged
<1>1. DInv => TwinsAreFlagged
  BY DEF DInv
<1>2. QED
  BY <1>1, Invariant, PTL
=============================================================================
