-------------------------- MODULE FilePickerProofs --------------------------
(* Theorems about FilePicker, for any files, prompts and numbers that its     *)
(* assumptions allow.                                                         *)
EXTENDS FilePicker, FiniteSetTheorems, TLAPS

-----------------------------------------------------------------------------
(* Facts about the operators.                                                 *)

\* A level that is raised stays within its burst, a level that is charged stays
\* a level (TokenBucket.take).
LEMMA Levels ==
  ASSUME NEW burst \in Nat, NEW refill \in Nat, NEW level \in 0 .. burst
  PROVE  /\ UpTo(burst, level + refill) \in 0 .. burst
         /\ Spent(level) \in 0 .. burst
BY NumbersAssumption DEF UpTo, Spent

\* Chunks one after the other (the write operation).
LEMMA ContentGrows ==
  ASSUME NEW h \in Ids, NEW size \in Nat, NEW n \in Nat
  PROVE  /\ Content(h, size, n) \in Seq(Piece)
         /\ Append(Content(h, size, n), [by |-> h, n |-> n + 1]) = Content(h, size, n + 1)
<1>1. h \in Nat
  BY NumbersAssumption DEF Ids
<1>2. ASSUME NEW i \in 1 .. size + n
      PROVE  (IF i <= size THEN Zero ELSE [by |-> h, n |-> i - size]) \in Piece
  BY <1>1, <1>2 DEF Zero, Piece
<1>3. /\ Content(h, size, n) \in Seq(Piece)
      /\ Len(Content(h, size, n)) = size + n
  BY <1>2 DEF Content
<1>4. Append(Content(h, size, n), [by |-> h, n |-> n + 1]) = Content(h, size, n + 1)
  <2> DEFINE more == Append(Content(h, size, n), [by |-> h, n |-> n + 1])
  <2>1. more = [i \in 1 .. size + n + 1 |->
                 IF i = size + n + 1 THEN [by |-> h, n |-> n + 1] ELSE Content(h, size, n)[i]]
    BY <1>3
  <2>2. ASSUME NEW i \in 1 .. size + n + 1
        PROVE  (IF i = size + n + 1 THEN [by |-> h, n |-> n + 1] ELSE Content(h, size, n)[i])
                 = IF i <= size THEN Zero ELSE [by |-> h, n |-> i - size]
    BY <2>2 DEF Content
  <2>3. 1 .. size + n + 1 = 1 .. size + (n + 1)
    OBVIOUS
  <2> QED
    BY <2>1, <2>2, <2>3 DEF Content
<1> QED
  BY <1>3, <1>4

\* None of them after zeros, and the first after none.
LEMMA ContentStarts ==
  ASSUME NEW h \in Ids
  PROVE  /\ \A size \in Nat : /\ Content(h, size, 0) = [i \in 1 .. size |-> Zero]
                             /\ [i \in 1 .. size |-> Zero] \in Seq(Piece)
         /\ Content(h, 0, 0) = << >>
         /\ Content(h, 0, 1) = << [by |-> h, n |-> 1] >>
<1>1. ASSUME NEW size \in Nat
      PROVE  /\ Content(h, size, 0) = [i \in 1 .. size |-> Zero]
             /\ [i \in 1 .. size |-> Zero] \in Seq(Piece)
  <2>1. 1 .. size + 0 = 1 .. size
    BY <1>1
  <2>2. [i \in 1 .. size + 0 |-> IF i <= size THEN Zero ELSE [by |-> h, n |-> i - size]]
          = [i \in 1 .. size |-> Zero]
    BY <1>1, <2>1
  <2>3. Zero \in Piece
    BY DEF Zero, Piece
  <2>4. [i \in 1 .. size |-> Zero] \in Seq(Piece)
    BY <1>1, <2>3
  <2> QED
    BY <2>2, <2>4 DEF Content
<1>2. Content(h, 0, 0) = << >> /\ Content(h, 0, 1) = << [by |-> h, n |-> 1] >>
  BY DEF Content
<1> QED
  BY <1>1, <1>2

-----------------------------------------------------------------------------
(* Types.                                                                     *)

Truncates(h) == \E size \in 0 .. MaxSize : Truncate(h, size)
WriteStep(h) ==
  \/ WriteChunk(h) \/ WriteBlob(h) \/ Truncates(h) \/ DiskFails(h)
  \/ WriteIgnored(h) \/ WriteRejected(h) \/ WriteShed(h)
  \/ Close(h) \/ CloseFails(h) \/ Abort(h)

\* What a file, a history and a chunk become is what they may be.
LEMMA Becoming ==
  ASSUME TypeOK, NEW h \in Ids
  PROVE  /\ \A file \in Seq(Piece) : handle[h].path \in Paths /\ Becomes(h, file)
              => files' \in [Paths -> Seq(Piece)]
         /\ \A size \in Nat : \A n \in Nat \cup {Spoilt} : \A S \in SUBSET Ids :
              Sent(h, size, n, S)
                => sent' \in [Ids -> Nat \cup {Spoilt}] /\ zeros' \in [Ids -> Nat]
         /\ \A k \in Nat : Send(h, k) => sent' \in [Ids -> Nat \cup {Spoilt}]
         /\ NextChunk(h) \in Piece
         /\ handle[h].path # Nowhere => handle[h].path \in Paths /\ File(h) \in Seq(Piece)
<1>1. sent[h] \in Nat \cup {Spoilt} /\ h \in Nat /\ handle[h] \in Target
  BY NumbersAssumption DEF TypeOK, Ids
<1>2. NextChunk(h) \in Piece
  BY <1>1 DEF NextChunk, Piece, Other, Spoilt
<1>3. handle[h].path # Nowhere => handle[h].path \in Paths /\ File(h) \in Seq(Piece)
  BY <1>1 DEF Target, Places, File, TypeOK
<1>4. ASSUME NEW file \in Seq(Piece), handle[h].path \in Paths, Becomes(h, file)
      PROVE  files' \in [Paths -> Seq(Piece)]
  BY <1>4 DEF Becomes, TypeOK
<1>5. ASSUME NEW size \in Nat, NEW n \in Nat \cup {Spoilt}, NEW S \in SUBSET Ids,
             Sent(h, size, n, S)
      PROVE  sent' \in [Ids -> Nat \cup {Spoilt}] /\ zeros' \in [Ids -> Nat]
  BY <1>5 DEF Sent, TypeOK
<1>6. ASSUME NEW k \in Nat, Send(h, k)
      PROVE  sent' \in [Ids -> Nat \cup {Spoilt}]
  BY <1>1, <1>6 DEF Send, Counts, TypeOK, Spoilt
<1> QED
  BY <1>2, <1>3, <1>4, <1>5, <1>6

\* Every write keeps the types.
LEMMA TypeWrite ==
  ASSUME TypeOK, NEW h \in Ids, WriteStep(h)
  PROVE  TypeOK'
<1> DEFINE Rest == /\ page' = page /\ share' = share /\ callers' = callers
                   /\ replies' = replies
                   /\ inFlight' = inFlight /\ mode' = mode /\ staged' = staged
                   /\ waiting' = waiting /\ minted' = minted
<1>1. Rest /\ writes' \in 0 .. WriteBurst
  <2>1. CASE Write(h)
    BY <2>1, NumbersAssumption DEF Write, MayWrite, TypeOK, decisions, answers
  <2>2. CASE WriteShed(h)
    BY <2>2 DEF WriteShed, TypeOK, decisions, answers
  <2>3. Write(h) \/ WriteShed(h)
    BY DEF WriteStep, WriteChunk, WriteBlob, Truncates, Truncate, DiskFails, WriteIgnored, WriteRejected,
           Close, CloseFails, Abort
  <2> QED
    BY <2>1, <2>2, <2>3
<1>2. handle' \in [Ids -> Target]
  <2>1. handle[h] \in Target /\ handle \in [Ids -> Target]
    BY DEF TypeOK
  <2>2. CASE WriteChunk(h) \/ Truncates(h)
    BY <2>1, <2>2 DEF WriteChunk, Truncates, Truncate, Land, Target
  <2>3. CASE WriteBlob(h) \/ DiskFails(h) \/ WriteIgnored(h) \/ WriteRejected(h)
    BY <2>1, <2>3 DEF WriteBlob, DiskFails, WriteIgnored, WriteRejected
  <2>4. CASE WriteShed(h)
    BY <2>1, <2>4 DEF WriteShed, Target
  <2>5. CASE Close(h)
    BY <2>1, <2>5 DEF Close, Target
  <2>6. CASE CloseFails(h) \/ Abort(h)
    BY <2>1, <2>6 DEF CloseFails, Abort, Target
  <2> QED
    BY <2>2, <2>3, <2>4, <2>5, <2>6 DEF WriteStep
<1>3. sent[h] \in Nat \cup {Spoilt} /\ zeros[h] \in Nat /\ << >> \in Seq(Piece)
  BY DEF TypeOK
<1>4. saved' \subseteq Ids
  BY DEF WriteStep, WriteChunk, WriteBlob, Truncates, Truncate, DiskFails, WriteIgnored, WriteRejected,
         WriteShed, Close, CloseFails, Abort, TypeOK, saving, history
<1>5. sent' \in [Ids -> Nat \cup {Spoilt}] /\ zeros' \in [Ids -> Nat]
  <2>0. Others(h) \in SUBSET Ids /\ {h} \in SUBSET Ids /\ Others(h) \cup {h} \in SUBSET Ids
        /\ 0 \in Nat \cup {Spoilt} /\ {0, 1} \subseteq Nat
    BY DEF Others
  <2>1. (IF sent[h] = Spoilt THEN Spoilt ELSE sent[h] + 1) \in Nat \cup {Spoilt}
    BY <1>3 DEF Spoilt
  <2>3. CASE WriteChunk(h)
    BY <1>3, <2>0, <2>1, <2>3, Becoming DEF WriteChunk
  <2>4. CASE Truncates(h)
    <3>1. PICK size \in 0 .. MaxSize : Truncate(h, size)
      BY <2>4 DEF Truncates
    <3>2. size \in Nat /\ Spoilt \in Nat \cup {Spoilt}
      BY NumbersAssumption
    <3> QED
      BY <2>0, <3>1, <3>2, Becoming DEF Truncate
  <2>5. CASE WriteBlob(h) \/ DiskFails(h) \/ CloseFails(h)
    BY <2>0, <2>5, Becoming DEF WriteBlob, DiskFails, CloseFails
  <2>6. CASE WriteRejected(h) \/ WriteShed(h)
    BY <2>0, <2>6, Becoming DEF WriteRejected, WriteShed, TypeOK
  <2>7. CASE Close(h)
    BY <2>0, <1>3, <2>7, Becoming DEF Close, TypeOK
  <2>8. CASE WriteIgnored(h) \/ Abort(h)
    BY <2>8 DEF WriteIgnored, Abort, saving, history, TypeOK
  <2> QED
    BY <2>3, <2>4, <2>5, <2>6, <2>7, <2>8 DEF WriteStep
<1>6. files' \in [Paths -> Seq(Piece)]
  <2>1. CASE WriteChunk(h)
    <3>1. handle[h].path \in Paths /\ File(h) \in Seq(Piece) /\ NextChunk(h) \in Piece
      BY <2>1, Becoming DEF WriteChunk, Open
    <3>2. (IF handle[h].truncated THEN Append(File(h), NextChunk(h)) ELSE << NextChunk(h) >>)
            \in Seq(Piece)
      BY <3>1
    <3> QED
      BY <2>1, <3>1, <3>2, Becoming DEF WriteChunk, Land
  <2>2. CASE Truncates(h)
    <3>1. PICK size \in 0 .. MaxSize : Truncate(h, size)
      BY <2>2 DEF Truncates
    <3>2. size \in Nat /\ [i \in 1 .. size |-> Zero] \in Seq(Piece)
      BY NumbersAssumption, ContentStarts
    <3> QED
      BY <3>1, <3>2, Becoming DEF Truncate, Open
  <2>3. CASE DiskFails(h)
    <3>1. handle[h].path \in Paths /\ File(h) \in Seq(Piece)
      BY <2>3, Becoming DEF DiskFails, Open
    <3>2. {File(h), << >>, Append(File(h), Other)} \subseteq Seq(Piece)
      BY <3>1 DEF Other, Piece
    <3> QED
      BY <2>3, <3>1, <3>2, Becoming DEF DiskFails
  <2>4. CASE Close(h)
    BY <1>3, <2>4, Becoming DEF Close, TypeOK
  <2>5. CASE \/ WriteBlob(h) \/ WriteIgnored(h) \/ WriteRejected(h) \/ WriteShed(h)
             \/ CloseFails(h) \/ Abort(h)
    BY <2>5 DEF WriteBlob, WriteIgnored, WriteRejected, WriteShed, CloseFails, Abort, saving, history, TypeOK
  <2> QED
    BY <2>1, <2>2, <2>3, <2>4, <2>5 DEF WriteStep
<1> QED
  BY <1>1, <1>2, <1>4, <1>5, <1>6 DEF TypeOK

\* Every step keeps the types.
LEMMA TypeStep ==
  ASSUME TypeOK, [Next]_vars
  PROVE  TypeOK'
<1>1. CASE Tick
  BY <1>1, Levels, NumbersAssumption
  DEF TypeOK, Tick, answers, targets, saving, history
<1> DEFINE Decided == /\ page' \in 0 .. PageBurst
                      /\ share' \in [Frames -> 0 .. FrameBurst]
                      /\ callers' \subseteq Frames
<1>2. ASSUME NEW f \in Frames, Charge(f)
      PROVE  Decided
  BY <1>2, Levels, NumbersAssumption DEF TypeOK, Charge
<1>3. ASSUME NEW f \in Frames, PickShed(f)
      PROVE  TypeOK'
  <2>1. Decided
    BY <1>2, <1>3 DEF PickShed, TypeOK
  <2>2. QED
    BY <1>3, <2>1, Levels, NumbersAssumption DEF PickShed, TypeOK, answers, targets, saving, history
<1>4. ASSUME NEW p \in Places, HandOut(p)
      PROVE  minted' \in 0 .. MaxHandles /\ handle' \in [Ids -> Target]
  BY <1>4, NumbersAssumption DEF HandOut, TypeOK, Fresh, Target, Ids
<1>5. ASSUME NEW f \in Frames, PickAllowed(f)
      PROVE  TypeOK'
  <2>1. Decided
    BY <1>2, <1>5 DEF PickAllowed
  <2>2. /\ (IF staged = << >> THEN Nowhere ELSE Head(staged)) \in Places
        /\ staged' \in Seq(Places)
    BY <1>5 DEF PickAllowed, TypeOK, Places
  <2>3. minted' \in 0 .. MaxHandles /\ handle' \in [Ids -> Target]
    BY <1>4, <1>5, <2>2 DEF PickAllowed
  <2>4. QED
    BY <1>5, <2>1, <2>2, <2>3 DEF PickAllowed, TypeOK, saving, history
<1>6. ASSUME NEW f \in Frames, PickDenied(f)
      PROVE  TypeOK'
  BY <1>2, <1>6 DEF PickDenied, TypeOK, answers, targets, saving, history
<1>7. ASSUME NEW f \in Frames, NEW q \in Prompts, PickAsks(f, q)
      PROVE  TypeOK'
  BY <1>2, <1>7 DEF PickAsks, TypeOK, targets, saving, history
<1>8. ASSUME NEW m \in Modes, SetPolicy(m)
      PROVE  TypeOK'
  BY <1>8 DEF SetPolicy, TypeOK, decisions, targets, saving, history
<1>9. ASSUME NEW p \in Paths, Respond(p)
      PROVE  TypeOK'
  BY <1>9 DEF Respond, TypeOK, decisions, targets, saving, history, Places
<1>10. ASSUME NEW q \in Prompts, PromptEnds(q)
       PROVE  waiting' \subseteq Prompts /\ inFlight' \in Int
  BY <1>10 DEF PromptEnds, TypeOK
<1>11. ASSUME NEW q \in Prompts, AnswerNone(q) \/ PromptTimesOut(q)
       PROVE  TypeOK'
  BY <1>10, <1>11 DEF AnswerNone, PromptTimesOut, PromptEnds, TypeOK, targets, saving, history
<1>12. ASSUME NEW q \in Prompts, NEW p \in Paths, AnswerFile(q, p)
       PROVE  TypeOK'
  <2>1. minted' \in 0 .. MaxHandles /\ handle' \in [Ids -> Target]
    BY <1>4, <1>12 DEF AnswerFile, Places
  <2>2. QED
    BY <1>10, <1>12, <2>1 DEF AnswerFile, PromptEnds, TypeOK, saving, history
<1>13. ASSUME NEW h \in Ids, WriteStep(h)
       PROVE  TypeOK'
  BY <1>13, TypeWrite
<1>14. CASE UNCHANGED vars
  BY <1>14 DEF vars, decisions, answers, targets, saving, history, TypeOK
<1> QED
  BY <1>1, <1>3, <1>5, <1>6, <1>7, <1>8, <1>9, <1>11, <1>12, <1>13, <1>14
  DEF Next, WriteStep, Truncates

THEOREM PickerTypeOK == Spec => []TypeOK
<1>1. Init => TypeOK
  BY NumbersAssumption DEF Init, TypeOK, Fresh, Target, Places
<1> QED
  BY <1>1, TypeStep, PTL DEF Spec

-----------------------------------------------------------------------------
(* The budget.                                                                *)

\* While no frames but f and g call, the page's bucket has lost no more than
\* theirs have lost together.
Lost(f)       == FrameBurst - share[f]
Covered(f, g) == callers \subseteq {f, g} =>
                   PageBurst - page <= IF f = g THEN Lost(f) ELSE Lost(f) + Lost(g)
SharesCovered == \A f, g \in Frames : Covered(f, g)

LEMMA SharesStep ==
  ASSUME TypeOK, SharesCovered, [Next]_vars
  PROVE  SharesCovered'
<1> SUFFICES ASSUME NEW f \in Frames, NEW g \in Frames, callers' \subseteq {f, g}
             PROVE  Covered(f, g)'
  BY DEF SharesCovered, Covered
<1>1. /\ page \in 0 .. PageBurst
      /\ share[f] \in 0 .. FrameBurst /\ share[g] \in 0 .. FrameBurst
      /\ share \in [Frames -> 0 .. FrameBurst] /\ Covered(f, g)
  BY DEF TypeOK, SharesCovered
\* A tick gives the page as much as two frames, or all of it.
<1>2. CASE Tick
  <2>1. /\ share'[f] = UpTo(FrameBurst, share[f] + FrameRefill)
        /\ share'[g] = UpTo(FrameBurst, share[g] + FrameRefill)
        /\ page' = UpTo(PageBurst, page + PageRefill)
        /\ page' = PageBurst \/ callers' = callers
    BY <1>2 DEF Tick
  <2>2. CASE page' = PageBurst
    BY <1>1, <2>1, <2>2, NumbersAssumption DEF Covered, Lost, UpTo
  <2>3. CASE page' # PageBurst
    <3>1. callers \subseteq {f, g} /\ page' = page + PageRefill
      BY <1>1, <2>1, <2>3, NumbersAssumption DEF UpTo
    <3> QED
      BY <1>1, <2>1, <3>1, NumbersAssumption, BudgetAssumption DEF Covered, Lost, UpTo
  <2> QED
    BY <2>2, <2>3
\* A call takes a token of the page only with one of its frame.
<1>3. ASSUME NEW d \in Frames, Charge(d)
      PROVE  Covered(f, g)'
  <2>1. d \in {f, g} /\ callers \subseteq {f, g}
    BY <1>3 DEF Charge
  <2>2. /\ share'[d] = Spent(share[d])
        /\ \A e \in Frames \ {d} : share'[e] = share[e]
        /\ page' = IF share[d] >= Call THEN Spent(page) ELSE page
    BY <1>1, <1>3 DEF Charge, HasShare
  <2> QED
    BY <1>1, <2>1, <2>2, NumbersAssumption DEF Covered, Lost, Spent
<1>4. ASSUME UNCHANGED <<page, share, callers>>
      PROVE  Covered(f, g)'
  BY <1>1, <1>4 DEF Covered, Lost
<1>5. CASE Next
  <2>1. ASSUME NEW d \in Frames,
               \/ PickShed(d) \/ PickAllowed(d) \/ PickDenied(d)
               \/ \E q \in Prompts : PickAsks(d, q)
        PROVE  Covered(f, g)'
    BY <1>3, <1>4, <2>1 DEF PickShed, PickAllowed, PickDenied, PickAsks
  <2>2. ASSUME NEW h \in Ids, WriteStep(h)
        PROVE  Covered(f, g)'
    BY <1>4, <2>2
    DEF WriteStep, WriteChunk, WriteBlob, Truncates, Truncate, DiskFails, WriteIgnored,
        WriteRejected, WriteShed, Close, CloseFails, Abort, Write, decisions
  <2>3. ASSUME NEW q \in Prompts,
               \/ AnswerNone(q) \/ PromptTimesOut(q)
               \/ \E p \in Paths : AnswerFile(q, p)
        PROVE  Covered(f, g)'
    BY <1>4, <2>3 DEF AnswerNone, PromptTimesOut, AnswerFile, PromptEnds
  <2>4. CASE (\E m \in Modes : SetPolicy(m)) \/ (\E p \in Paths : Respond(p))
    BY <1>4, <2>4 DEF SetPolicy, Respond, decisions
  <2> QED
    BY <1>2, <1>5, <2>1, <2>2, <2>3, <2>4 DEF Next, WriteStep, Truncates
<1> QED
  BY <1>4, <1>5 DEF vars, decisions

\* However many frames a page has: while no more than two call, the one with a
\* token of its own finds one in the page's bucket, whatever the other calls and
\* when (wrap, DEFAULT_BUDGETS).
THEOREM FramesKeepTheirShare == Spec => []FrameShare
<1>1. Init => SharesCovered
  BY NumbersAssumption DEF Init, SharesCovered, Covered, Lost
<1>2. TypeOK /\ SharesCovered => FrameShare
  <2> SUFFICES ASSUME TypeOK, SharesCovered, NEW f \in Frames, NEW g \in Frames,
                      callers \subseteq {f, g}, HasShare(f)
               PROVE  HasBudget
    BY DEF FrameShare
  <2>1. /\ page \in 0 .. PageBurst
        /\ share[f] \in Call .. FrameBurst /\ share[g] \in 0 .. FrameBurst
        /\ Covered(f, g)
    BY NumbersAssumption DEF TypeOK, SharesCovered, HasShare
  <2> QED
    BY <2>1, NumbersAssumption, BudgetAssumption DEF Covered, Lost, HasBudget
<1> QED
  BY <1>1, <1>2, PickerTypeOK, SharesStep, PTL DEF Spec

LEMMA SlotsStep ==
  ASSUME TypeOK, SlotsOwed, [Next]_vars
  PROVE  SlotsOwed'
<1>1. IsFiniteSet(waiting) /\ Cardinality(waiting) \in Nat
  BY PromptsAssumption, FS_Subset, FS_CardinalityType DEF TypeOK
<1>2. CASE UNCHANGED <<inFlight, waiting>>
  BY <1>2 DEF SlotsOwed
<1>3. ASSUME NEW f \in Frames, NEW q \in Prompts, PickAsks(f, q)
      PROVE  SlotsOwed'
  <2>1. Cardinality(waiting') = Cardinality(waiting) + 1
    BY <1>1, <1>3, FS_AddElement DEF PickAsks
  <2>2. inFlight' = inFlight + 1 /\ inFlight < MaxInFlight
    BY <1>3 DEF PickAsks, Admitted, HasSlot
  <2> QED
    BY <1>1, <2>1, <2>2, NumbersAssumption DEF SlotsOwed
<1>4. ASSUME NEW q \in Prompts, PromptEnds(q)
      PROVE  SlotsOwed'
  <2>1. Cardinality(waiting') = Cardinality(waiting) - 1
    BY <1>1, <1>4, FS_RemoveElement DEF PromptEnds
  <2> QED
    BY <1>1, <1>4, <2>1, NumbersAssumption DEF SlotsOwed, PromptEnds
<1>5. CASE Next
  <2>1. ASSUME NEW f \in Frames, PickShed(f) \/ PickAllowed(f) \/ PickDenied(f)
        PROVE  SlotsOwed'
    BY <1>2, <2>1 DEF PickShed, PickAllowed, PickDenied, answers
  <2>2. ASSUME NEW h \in Ids, WriteStep(h)
        PROVE  SlotsOwed'
    BY <1>2, <2>2
    DEF WriteStep, WriteChunk, WriteBlob, Truncates, Truncate, DiskFails, WriteIgnored, WriteRejected,
        WriteShed, Close, CloseFails, Abort, Write, decisions, answers
  <2>3. CASE Tick \/ (\E m \in Modes : SetPolicy(m)) \/ (\E p \in Paths : Respond(p))
    BY <1>2, <2>3 DEF Tick, SetPolicy, Respond, decisions, answers
  <2> QED
    BY <1>3, <1>4, <1>5, <2>1, <2>2, <2>3
    DEF Next, WriteStep, Truncates, AnswerNone, PromptTimesOut, AnswerFile
<1> QED
  BY <1>2, <1>5 DEF vars, decisions, answers

\* As many slots are taken as prompts wait, and no more than there are (wrap).
THEOREM SlotsAreOwed == Spec => []SlotsOwed
<1>1. Init => SlotsOwed
  BY FS_EmptySet, NumbersAssumption DEF Init, SlotsOwed
<1> QED
  BY <1>1, PickerTypeOK, SlotsStep, PTL DEF Spec

-----------------------------------------------------------------------------
(* The files.                                                                 *)

\* What is in the file of a handle that nothing else touched: the first chunks,
\* all of them while none was dropped and once a close succeeded.
Whole(h) ==
  Touched(h) => \E n \in 0 .. sent[h] :
                  /\ File(h) = Content(h, zeros[h], n)
                  /\ h \in saved \/ ~ handle[h].shed => n = sent[h]

\* Before the first write nothing was truncated, and nothing sent, unless it was
\* dropped.
Unsent(h) == ~ handle[h].truncated => /\ zeros[h] = 0
                                      /\ ~ handle[h].shed => sent[h] = 0

\* A close that succeeded is the last thing done to a handle.
Final(h) == h \in saved => handle[h].closed /\ (sent[h] # Spoilt => handle[h].truncated)

\* A handle not handed out is as at the start.
Unborn(h) == h > minted => /\ handle[h] = Fresh(Nowhere)
                           /\ sent[h] = 0 /\ zeros[h] = 0 /\ h \notin saved

\* Handles without a destination never write.
Idle(h) == handle[h].path = Nowhere => ~ handle[h].truncated

Sound(h) ==
  /\ sent[h] # Spoilt /\ handle[h].path # Nowhere => Whole(h) /\ Unsent(h)
  /\ Final(h) /\ Unborn(h) /\ Idle(h)

FilesSound == \A h \in Ids : Sound(h)

\* Nothing about a handle changes when nothing it is about does.
LEMMA SoundKept ==
  ASSUME TypeOK, NEW h \in Ids, Sound(h),
         handle'[h] = handle[h], minted' >= minted, minted \in Int, minted' \in Int,
         (sent'[h] = Spoilt /\ h <= minted) \/ (sent'[h] = sent[h] /\ zeros'[h] = zeros[h]),
         sent'[h] # Spoilt /\ handle[h].path # Nowhere
           => files'[handle[h].path] = files[handle[h].path],
         h \in saved' <=> h \in saved
  PROVE  Sound(h)'
<1>1. h \in Nat
  BY NumbersAssumption DEF Ids
<1>2. (sent[h] # Spoilt /\ handle[h].path # Nowhere => Whole(h) /\ Unsent(h))'
  <2> SUFFICES ASSUME sent'[h] # Spoilt, handle'[h].path # Nowhere
               PROVE  Whole(h)' /\ Unsent(h)'
    OBVIOUS
  <2>1. sent'[h] = sent[h] /\ zeros'[h] = zeros[h] /\ Whole(h) /\ Unsent(h)
    BY DEF Sound
  <2>2. File(h)' = File(h)
    BY DEF File
  <2> QED
    BY <2>1, <2>2 DEF Whole, Unsent, Touched, Content
<1>3. Final(h)' /\ Idle(h)'
  BY DEF Final, Idle, Sound
<1>4. Unborn(h)'
  BY <1>1 DEF Unborn, Sound
<1> QED
  BY <1>2, <1>3, <1>4 DEF Sound

\* Handles are written through once they are handed out, and hand out none.
LEMMA MintedKept ==
  ASSUME NEW h \in Ids, WriteStep(h)
  PROVE  minted' = minted /\ h <= minted
<1>1. CASE Write(h)
  BY <1>1 DEF Write, Known
<1>2. CASE WriteShed(h)
  BY <1>2 DEF WriteShed, Known
<1>3. Write(h) \/ WriteShed(h)
  BY DEF WriteStep, WriteChunk, WriteBlob, Truncates, Truncate, DiskFails, WriteIgnored, WriteRejected,
         Close, CloseFails, Abort
<1> QED
  BY <1>1, <1>2, <1>3

\* A write through one handle leaves the others alone, or is noted on them.
LEMMA OthersKept ==
  ASSUME TypeOK, FilesSound, NEW h \in Ids, WriteStep(h), NEW g \in Ids \ {h}
  PROVE  Sound(g)'
<1>0. minted' = minted
  BY MintedKept
<1>1. /\ g \in Ids /\ h \in Ids /\ g # h /\ g \in Nat /\ minted \in Nat
      /\ handle \in [Ids -> Target] /\ sent \in [Ids -> Nat \cup {Spoilt}]
      /\ zeros \in [Ids -> Nat]
      /\ files \in [Paths -> Seq(Piece)] /\ Sound(g)
      /\ minted' = minted /\ << >> \in Seq(Piece)
      /\ handle[g].path # Nowhere => handle[g].path \in Paths
  BY <1>0, NumbersAssumption DEF TypeOK, FilesSound, Ids, Target, Places
<1>2. g \in Others(h) /\ handle[h].path # Nowhere => g <= minted
  BY <1>1 DEF Others, Sound, Unborn, Fresh
<1>3. handle[g].path = handle[h].path => g \in Others(h)
  BY <1>1 DEF Others
<1>4. ASSUME NEW size, NEW n,
             Sent(h, size, n, Others(h)) \/ Sent(h, size, n, Others(h) \cup {h}),
             handle[h].path # Nowhere,
             UNCHANGED files \/ \E file \in Seq(Piece) : Becomes(h, file)
      PROVE  /\ \/ sent'[g] = Spoilt /\ g <= minted
                \/ sent'[g] = sent[g] /\ zeros'[g] = zeros[g]
             /\ sent'[g] # Spoilt /\ handle[g].path # Nowhere
                  => files'[handle[g].path] = files[handle[g].path]
  BY <1>1, <1>2, <1>3, <1>4 DEF Sent, Becomes
<1>5. CASE WriteChunk(h)
  <2>1. handle'[g] = handle[g] /\ (g \in saved' <=> g \in saved) /\ handle[h].path # Nowhere
    BY <1>1, <1>5 DEF WriteChunk, Land, Open
  <2>2. Sent(h, zeros[h], IF sent[h] = Spoilt THEN Spoilt ELSE sent[h] + 1, Others(h))
    BY <1>5 DEF WriteChunk
  <2>3. \E file \in Seq(Piece) : Becomes(h, file)
    <3>1. File(h) \in Seq(Piece) /\ NextChunk(h) \in Piece
      BY <2>1, Becoming
    <3>2. (IF handle[h].truncated THEN Append(File(h), NextChunk(h)) ELSE << NextChunk(h) >>)
            \in Seq(Piece)
      BY <3>1
    <3> QED
      BY <1>5, <3>2 DEF WriteChunk, Land
  <2> QED
    BY <1>1, <1>4, <2>1, <2>2, <2>3, SoundKept
<1>6. CASE Truncates(h)
  <2>0. PICK size \in 0 .. MaxSize : Truncate(h, size)
    BY <1>6 DEF Truncates
  <2>1. handle'[g] = handle[g] /\ (g \in saved' <=> g \in saved) /\ handle[h].path # Nowhere
    BY <1>1, <2>0 DEF Truncate, Open
  <2>2. Sent(h, 0, Spoilt, Others(h)) \/ Sent(h, size, 0, Others(h))
    BY <2>0 DEF Truncate
  <2>3. \E file \in Seq(Piece) : Becomes(h, file)
    <3>1. size \in Nat /\ [i \in 1 .. size |-> Zero] \in Seq(Piece)
      BY NumbersAssumption, ContentStarts
    <3> QED
      BY <2>0, <3>1 DEF Truncate
  <2> QED
    BY <1>1, <1>4, <2>1, <2>2, <2>3, SoundKept
<1>7. CASE DiskFails(h)
  <2>1. handle'[g] = handle[g] /\ (g \in saved' <=> g \in saved) /\ handle[h].path # Nowhere
    BY <1>1, <1>7 DEF DiskFails, Open
  <2>2. Sent(h, 0, 0, Others(h) \cup {h})
    BY <1>7 DEF DiskFails
  <2>3. \E file \in Seq(Piece) : Becomes(h, file)
    <3>1. {File(h), << >>, Append(File(h), Other)} \subseteq Seq(Piece)
      BY <2>1, Becoming DEF Other, Piece
    <3> QED
      BY <1>7, <3>1 DEF DiskFails
  <2> QED
    BY <1>1, <1>4, <2>1, <2>2, <2>3, SoundKept
<1>8. CASE Close(h)
  <2>1. handle'[g] = handle[g] /\ (g \in saved' <=> g \in saved) /\ handle[h].path # Nowhere
    BY <1>1, <1>8 DEF Close
  <2>2. CASE handle[h].truncated
    <3>1. UNCHANGED files /\ sent'[g] = sent[g] /\ zeros'[g] = zeros[g]
      BY <1>8, <2>2 DEF Close
    <3> QED
      BY <1>1, <2>1, <3>1, SoundKept
  <2>3. CASE ~ handle[h].truncated
    <3>1. Sent(h, zeros[h], sent[h], Others(h)) /\ \E file \in Seq(Piece) : Becomes(h, file)
      BY <1>1, <1>8, <2>3 DEF Close
    <3> QED
      BY <1>1, <1>4, <2>1, <3>1, SoundKept
  <2> QED
    BY <2>2, <2>3
<1>9. CASE WriteBlob(h) \/ CloseFails(h)
  <2>1. handle'[g] = handle[g] /\ (g \in saved' <=> g \in saved) /\ UNCHANGED files
    BY <1>1, <1>9 DEF WriteBlob, CloseFails
  <2>2. sent'[g] = sent[g] /\ zeros'[g] = zeros[g]
    BY <1>1, <1>9 DEF WriteBlob, CloseFails, Sent
  <2> QED
    BY <1>1, <2>1, <2>2, SoundKept
<1>10. CASE WriteRejected(h) \/ WriteShed(h) \/ WriteIgnored(h) \/ Abort(h)
  <2>1. handle'[g] = handle[g] /\ (g \in saved' <=> g \in saved) /\ UNCHANGED files
    BY <1>1, <1>10 DEF WriteRejected, WriteShed, WriteIgnored, Abort, saving, history
  <2>2. sent'[g] = sent[g] /\ zeros'[g] = zeros[g]
    BY <1>1, <1>10 DEF WriteRejected, WriteShed, WriteIgnored, Abort, Send, saving, history
  <2> QED
    BY <1>1, <2>1, <2>2, SoundKept
<1> QED
  BY <1>5, <1>6, <1>7, <1>8, <1>9, <1>10 DEF WriteStep

\* A write keeps its own handle sound.
LEMMA OwnKept ==
  ASSUME TypeOK, FilesSound, NEW h \in Ids, WriteStep(h)
  PROVE  Sound(h)'
<1>0. minted' = minted /\ h <= minted
  BY MintedKept
<1>1. /\ h \in Nat /\ minted \in Nat /\ h \notin Others(h)
      /\ handle \in [Ids -> Target] /\ handle[h] \in Target
      /\ sent \in [Ids -> Nat \cup {Spoilt}] /\ zeros \in [Ids -> Nat]
      /\ files \in [Paths -> Seq(Piece)] /\ Sound(h)
      /\ minted' = minted /\ h <= minted
      /\ Spoilt \notin Nat
  BY <1>0, NumbersAssumption DEF TypeOK, FilesSound, Ids, Others, Spoilt
<1>2. Unborn(h)'
  BY <1>1 DEF Unborn
<1>3. ASSUME handle[h].path # Nowhere
      PROVE  handle[h].path \in Paths
  BY <1>1, <1>3 DEF Target, Places
<1>4. CASE WriteChunk(h)
  <2>1. /\ handle'[h] = [handle[h] EXCEPT !.truncated = TRUE]
        /\ ~ handle[h].closed /\ ~ handle[h].shed /\ handle[h].path # Nowhere
        /\ saved' = saved
    BY <1>1, <1>4 DEF WriteChunk, Land, Open, Target
  <2>2. handle'[h].truncated /\ handle'[h].path = handle[h].path /\ h \notin saved
    BY <1>1, <2>1 DEF Target, Sound, Final
  <2>3. ASSUME sent'[h] # Spoilt
        PROVE  Whole(h)'
    <3>1. sent[h] \in Nat /\ sent'[h] = sent[h] + 1 /\ zeros'[h] = zeros[h]
      BY <1>1, <1>4, <2>3 DEF WriteChunk, Sent
    <3>2. File(h)' = Content(h, zeros[h], sent[h] + 1)
      <4>1. File(h)' = IF handle[h].truncated THEN Append(File(h), NextChunk(h))
                       ELSE << NextChunk(h) >>
        BY <1>1, <1>3, <1>4, <2>1, <2>2 DEF WriteChunk, Land, Becomes, File
      <4>2. NextChunk(h) = [by |-> h, n |-> sent[h] + 1]
        BY <1>1, <3>1 DEF NextChunk
      <4>3. CASE handle[h].truncated
        <5>1. File(h) = Content(h, zeros[h], sent[h])
          BY <1>1, <2>1, <3>1, <4>3 DEF Sound, Whole, Touched
        <5> QED
          BY <1>1, <3>1, <4>1, <4>2, <4>3, <5>1, ContentGrows
      <4>4. CASE ~ handle[h].truncated
        <5>1. sent[h] = 0 /\ zeros[h] = 0
          BY <1>1, <2>1, <3>1, <4>4 DEF Sound, Unsent
        <5> QED
          BY <3>1, <4>1, <4>2, <4>4, <5>1, ContentStarts
      <4> QED
        BY <4>3, <4>4
    <3>3. \E n \in 0 .. sent'[h] : File(h)' = Content(h, zeros'[h], n) /\ n = sent'[h]
      BY <3>1, <3>2
    <3> QED
      BY <3>3 DEF Whole, Content
  <2> QED
    BY <1>2, <2>1, <2>2, <2>3 DEF Sound, Unsent, Final, Idle
<1>5. CASE Truncates(h)
  <2>0. PICK size \in 0 .. MaxSize : Truncate(h, size)
    BY <1>5 DEF Truncates
  <2>1. /\ handle'[h] = [handle[h] EXCEPT !.truncated = TRUE]
        /\ ~ handle[h].closed /\ ~ handle[h].shed /\ handle[h].path # Nowhere
        /\ saved' = saved
    BY <1>1, <2>0 DEF Truncate, Open, Target
  <2>2. handle'[h].truncated /\ handle'[h].path = handle[h].path /\ h \notin saved
    BY <1>1, <2>1 DEF Target, Sound, Final
  <2>3. ASSUME sent'[h] # Spoilt
        PROVE  Whole(h)'
    <3>0. size \in Nat /\ h \in Ids
      BY NumbersAssumption
    <3>1. sent'[h] = 0 /\ zeros'[h] = size /\ size \in Nat
      <4>1. CASE sent[h] = Spoilt
        <5>1. Sent(h, 0, Spoilt, Others(h))
          BY <2>0, <4>1 DEF Truncate
        <5> QED
          BY <1>1, <2>3, <5>1 DEF Sent
      <4>2. CASE sent[h] # Spoilt
        <5>1. Sent(h, size, 0, Others(h))
          BY <2>0, <4>2 DEF Truncate
        <5> QED
          BY <1>1, <3>0, <5>1 DEF Sent
      <4> QED
        BY <4>1, <4>2
    <3>2. File(h)' = [i \in 1 .. size |-> Zero]
      BY <1>1, <1>3, <2>0, <2>1, <2>2 DEF Truncate, Becomes, File
    <3>3. \E n \in 0 .. sent'[h] : File(h)' = Content(h, zeros'[h], n) /\ n = sent'[h]
      BY <3>1, <3>2, ContentStarts
    <3> QED
      BY <3>3 DEF Whole, Content
  <2> QED
    BY <1>2, <2>1, <2>2, <2>3 DEF Sound, Unsent, Final, Idle
<1>6. CASE WriteBlob(h) \/ DiskFails(h)
  <2>1. handle' = handle /\ saved' = saved /\ sent'[h] = Spoilt
    BY <1>1, <1>6 DEF WriteBlob, DiskFails, Sent
  <2> QED
    BY <1>1, <1>2, <2>1 DEF Sound, Final, Idle
<1>7. CASE CloseFails(h)
  <2>1. /\ handle'[h] = [handle[h] EXCEPT !.closed = TRUE] /\ handle[h].path # Nowhere
        /\ sent'[h] = Spoilt
    BY <1>1, <1>7 DEF CloseFails, Sent
  <2>2. handle'[h].closed /\ handle'[h].path = handle[h].path
    BY <1>1, <2>1 DEF Target
  <2> QED
    BY <1>2, <2>1, <2>2 DEF Sound, Final, Idle
<1>8. CASE WriteIgnored(h)
  <2>1. UNCHANGED <<handle, files, sent, zeros, saved>>
    BY <1>8 DEF WriteIgnored, saving, history
  <2> QED
    BY <1>1, <2>1, SoundKept
<1>9. CASE WriteRejected(h) \/ WriteShed(h)
  <2>1. PICK k \in {0, 1} : Send(h, k)
    BY <1>9 DEF WriteRejected, WriteShed
  <2>2. /\ handle'[h].shed /\ handle'[h].closed = handle[h].closed
        /\ handle'[h].path = handle[h].path /\ handle'[h].truncated = handle[h].truncated
        /\ files' = files /\ saved' = saved /\ zeros' = zeros
    BY <1>1, <1>9 DEF WriteRejected, WriteShed, Target
  <2>3. sent'[h] = IF Counts(h) THEN sent[h] + k ELSE sent[h]
    BY <1>1, <2>1 DEF Send
  <2>4. ASSUME sent'[h] # Spoilt, handle[h].path # Nowhere
        PROVE  Whole(h)'
    <3>1. sent[h] \in Nat /\ sent'[h] \in Nat /\ sent'[h] >= sent[h] /\ File(h)' = File(h)
      BY <1>1, <2>1, <2>2, <2>3, <2>4 DEF File, Counts
    <3>2. h \in saved => sent'[h] = sent[h]
      BY <1>1, <2>3 DEF Sound, Final, Counts
    <3>3. Touched(h) => \E n \in 0 .. sent'[h] :
                          File(h)' = Content(h, zeros[h], n) /\ (h \in saved => n = sent'[h])
      BY <1>1, <2>4, <3>1, <3>2 DEF Sound, Whole
    <3> QED
      BY <2>2, <3>3 DEF Whole, Touched, Content
  <2> QED
    BY <1>1, <1>2, <2>1, <2>2, <2>3, <2>4 DEF Sound, Unsent, Final, Idle, Counts
<1>10. CASE Abort(h)
  <2>1. /\ handle'[h].closed /\ handle'[h].shed = handle[h].shed
        /\ handle'[h].path = handle[h].path /\ handle'[h].truncated = handle[h].truncated
        /\ files' = files /\ saved' = saved /\ sent' = sent /\ zeros' = zeros
    BY <1>1, <1>10 DEF Abort, Target, saving, history
  <2>2. Whole(h)' <=> Whole(h)
    BY <2>1 DEF Whole, Touched, File, Content
  <2> QED
    BY <1>1, <1>2, <2>1, <2>2 DEF Sound, Unsent, Final, Idle
<1>11. CASE Close(h)
  <2>1. /\ handle'[h].closed /\ handle'[h].truncated /\ handle'[h].shed = handle[h].shed
        /\ handle'[h].path = handle[h].path /\ handle[h].path # Nowhere
        /\ saved' = IF handle[h].shed THEN saved ELSE saved \cup {h}
        /\ sent'[h] = sent[h] /\ (sent[h] # Spoilt => zeros'[h] = zeros[h])
    BY <1>1, <1>11 DEF Close, Target, Sent
  <2>2. ASSUME sent'[h] # Spoilt
        PROVE  Whole(h)'
    <3>1. sent[h] \in Nat /\ zeros'[h] = zeros[h]
      BY <1>1, <2>1, <2>2
    <3>2. CASE handle[h].truncated
      <4>1. File(h)' = File(h)
        BY <1>11, <2>1, <3>2 DEF Close, File
      <4>2. \E n \in 0 .. sent[h] :
              /\ File(h) = Content(h, zeros[h], n)
              /\ h \in saved \/ ~ handle[h].shed => n = sent[h]
        BY <1>1, <2>1, <2>2, <3>2 DEF Sound, Whole, Touched
      <4>3. \E n \in 0 .. sent'[h] :
              /\ File(h)' = Content(h, zeros'[h], n)
              /\ h \in saved' \/ ~ handle'[h].shed => n = sent'[h]
        BY <2>1, <3>1, <4>1, <4>2
      <4> QED
        BY <4>3 DEF Whole, Content
    <3>3. CASE ~ handle[h].truncated
      <4>1. File(h)' = << >>
        BY <1>1, <1>3, <1>11, <2>1, <3>3 DEF Close, Becomes, File
      <4>2. h \notin saved /\ zeros[h] = 0 /\ (~ handle[h].shed => sent[h] = 0)
        BY <1>1, <2>1, <2>2, <3>3 DEF Sound, Final, Unsent
      <4>3. 0 \in 0 .. sent'[h] /\ File(h)' = Content(h, zeros'[h], 0)
            /\ (h \in saved' \/ ~ handle'[h].shed => 0 = sent'[h])
        BY <2>1, <3>1, <4>1, <4>2, ContentStarts
      <4>4. \E n \in 0 .. sent'[h] :
              /\ File(h)' = Content(h, zeros'[h], n)
              /\ h \in saved' \/ ~ handle'[h].shed => n = sent'[h]
        BY <4>3
      <4> QED
        BY <4>4 DEF Whole, Content
    <3> QED
      BY <3>2, <3>3
  <2> QED
    BY <1>2, <2>1, <2>2 DEF Sound, Unsent, Final, Idle
<1> QED
  BY <1>4, <1>5, <1>6, <1>7, <1>8, <1>9, <1>10, <1>11 DEF WriteStep

\* A new handle is sound, and the others stay as they are.
LEMMA HandOutKept ==
  ASSUME TypeOK, FilesSound, NEW p \in Places, HandOut(p), UNCHANGED saving
  PROVE  FilesSound'
<1>1. /\ minted \in Nat /\ minted < MaxHandles /\ minted + 1 \in Ids
      /\ handle \in [Ids -> Target] /\ minted' = minted + 1
      /\ handle' = [handle EXCEPT ![minted + 1] = Fresh(p)]
      /\ files' = files /\ sent' = sent /\ zeros' = zeros /\ saved' = saved
  BY NumbersAssumption DEF TypeOK, HandOut, Ids, saving, history
<1>2. ASSUME NEW h \in Ids, h = minted + 1
      PROVE  Sound(h)'
  <2>1. sent[h] = 0 /\ zeros[h] = 0 /\ h \notin saved
    BY <1>1, <1>2 DEF FilesSound, Sound, Unborn
  <2>2. handle'[h] = Fresh(p) /\ ~ h > minted'
    BY <1>1, <1>2
  <2>3. ~ handle'[h].truncated
    BY <2>2 DEF Fresh
  <2> QED
    BY <1>1, <2>1, <2>2, <2>3 DEF Sound, Whole, Touched, Unsent, Final, Unborn, Idle
<1>3. ASSUME NEW h \in Ids, h # minted + 1
      PROVE  Sound(h)'
  <2>1. handle'[h] = handle[h] /\ Sound(h) /\ minted' >= minted /\ minted' \in Int /\ minted \in Int
    BY <1>1, <1>3 DEF FilesSound
  <2> QED
    BY <1>1, <2>1, SoundKept
<1> QED
  BY <1>2, <1>3 DEF FilesSound

LEMMA FilesStep ==
  ASSUME TypeOK, FilesSound, [Next]_vars
  PROVE  FilesSound'
<1>1. CASE UNCHANGED <<targets, saving>>
  <2>1. ASSUME NEW h \in Ids
        PROVE  Sound(h)'
    <3>1. /\ Sound(h) /\ minted \in Int /\ minted' = minted /\ minted' >= minted
          /\ handle' = handle /\ files' = files /\ saved' = saved
          /\ sent' = sent /\ zeros' = zeros
      BY <1>1, NumbersAssumption DEF FilesSound, TypeOK, targets, saving, history
    <3> QED
      BY <3>1, SoundKept
  <2> QED
    BY <2>1 DEF FilesSound
<1>2. CASE Next
  <2>1. ASSUME NEW f \in Frames, PickAllowed(f)
        PROVE  FilesSound'
    <3>1. (IF staged = << >> THEN Nowhere ELSE Head(staged)) \in Places
      BY DEF TypeOK, Places
    <3> QED
      BY <2>1, <3>1, HandOutKept DEF PickAllowed
  <2>2. ASSUME NEW q \in Prompts, NEW p \in Paths, AnswerFile(q, p)
        PROVE  FilesSound'
    BY <2>2, HandOutKept DEF AnswerFile, PromptEnds, Places
  <2>3. ASSUME NEW h \in Ids, WriteStep(h)
        PROVE  FilesSound'
    BY <2>3, OwnKept, OthersKept DEF FilesSound
  <2>4. ASSUME NEW f \in Frames,
               PickShed(f) \/ PickDenied(f) \/ \E q \in Prompts : PickAsks(f, q)
        PROVE  FilesSound'
    BY <1>1, <2>4 DEF PickShed, PickDenied, PickAsks
  <2>5. ASSUME NEW q \in Prompts, AnswerNone(q) \/ PromptTimesOut(q)
        PROVE  FilesSound'
    BY <1>1, <2>5 DEF AnswerNone, PromptTimesOut, PromptEnds
  <2>6. CASE Tick \/ (\E m \in Modes : SetPolicy(m)) \/ (\E p \in Paths : Respond(p))
    BY <1>1, <2>6 DEF Tick, SetPolicy, Respond
  <2> QED
    BY <1>2, <2>1, <2>2, <2>3, <2>4, <2>5, <2>6 DEF Next, WriteStep, Truncates
<1> QED
  BY <1>1, <1>2 DEF vars

\* Whatever the page calls and whichever calls are dropped, a file that nothing
\* else touches has no hole: after the zeros of its last truncation come the chunks
\* sent since then, and all of them that were sent before the handle was closed once
\* the page is told that it was saved (the write binding and its shed hook).
THEOREM SavesAreWhole == Spec => []SavedIsWhole
<1>1. Init => FilesSound
  BY DEF Init, FilesSound, Sound, Whole, Touched, Unsent, Final, Unborn, Idle, Fresh, Spoilt
<1>2. FilesSound => SavedIsWhole
  <2> SUFFICES ASSUME FilesSound, NEW h \in Ids, Touched(h), sent[h] # Spoilt
               PROVE  \E n \in 0 .. sent[h] :
                        File(h) = Content(h, zeros[h], n) /\ (h \in saved => n = sent[h])
    BY DEF SavedIsWhole
  <2> QED
    BY DEF FilesSound, Sound, Whole, Touched
<1> QED
  BY <1>1, <1>2, PickerTypeOK, FilesStep, PTL DEF Spec
=============================================================================
