------------------------- MODULE PeerSessionsProofs -------------------------
(***************************************************************************)
(* Inbound sessions, for any number of connections and any policy: types,  *)
(* the slot counter and the quotas (SlotsAreExact, QuotasHold), and what a *)
(* poisoned store does to them (PoisonSilencesSessions).                   *)
(***************************************************************************)
EXTENDS PeerSessions, FiniteSetTheorems, TLAPS

\* One session within its quotas.  A transaction in hand is counted but not yet
\* submitted.
WithinQuotas(s) ==
  /\ s.submitted <= s.inbound_tx_decoded
  /\ s.inbound_tx_decoded <= MaxInboundTx
  /\ s.pc = "apply" /\ s.frame.op = "tx" => s.submitted < s.inbound_tx_decoded
  /\ s.frames <= MaxFrames
  /\ s.frames <= MaxAppFrames
  /\ s.stale_decoded_blocks <= MaxStaleBlocks
  /\ s.invalid_block_strikes < MaxInvalidBlocks \/ s.invalid_block_strikes = 0
  /\ s.protocol_errors < MaxProtocolErrors \/ s.protocol_errors = 0

SessionInv ==
  /\ TypeOK
  /\ SlotsAreExact
  /\ \A c \in Conn : WithinQuotas(sess[c])

\* A session a thread can be in.
Proper(s) == s \in Sessions /\ s.pc # "none" /\ WithinQuotas(s)

-----------------------------------------------------------------------------
(***************************************************************************)
(* The records the actions store.                                          *)
(***************************************************************************)

\* The bounds of the policy are numbers.
LEMMA Bounds ==
  /\ Slots \in Nat /\ MaxFrames \in Nat /\ MaxAppFrames \in Nat
  /\ MaxProtocolErrors \in Nat /\ MaxInvalidBlocks \in Nat
  /\ MaxStaleBlocks \in Nat /\ MaxInboundTx \in Nat /\ MaxTip \in Nat
BY PolicyAssumption

\* The empty session.
LEMMA NoSessionFacts ==
  NoSession \in Sessions /\ NoSession.pc = "none" /\ WithinQuotas(NoSession)
BY Bounds DEF NoSession, Sessions, SessionPCs, NoFrame, Frame, WithinQuotas

\* A new session, and one whose loop has returned.
LEMMA FreshFacts ==
  ASSUME NEW where \in SessionPCs \ {"none", "apply"}, NEW n \in Nat
  PROVE  Proper([NoSession EXCEPT !.seen = n, !.pc = where])
         /\ Proper([NoSession EXCEPT !.pc = where])
<1>1. /\ [NoSession EXCEPT !.seen = n, !.pc = where] \in Sessions
      /\ [NoSession EXCEPT !.pc = where] \in Sessions
  BY NoSessionFacts DEF Sessions
<1>2. /\ WithinQuotas([NoSession EXCEPT !.seen = n, !.pc = where])
      /\ WithinQuotas([NoSession EXCEPT !.pc = where])
  BY NoSessionFacts, Bounds DEF WithinQuotas, NoSession
<1> QED
  BY <1>1, <1>2, NoSessionFacts DEF Proper, Sessions

\* A session whose loop has returned still owns its permit.
LEMMA EndedFacts == Proper(Ended)
BY FreshFacts DEF Ended, SessionPCs

\* The next round of the loop.
LEMMA ResumeFacts ==
  ASSUME NEW s \in Sessions, NEW over \in BOOLEAN,
         over \/ WithinQuotas([s EXCEPT !.pc = "read"])
  PROVE  Proper(Resume(s, over))
<1>1. CASE over
  BY <1>1, EndedFacts DEF Resume
<1>2. CASE ~over
  <2>1. NoFrame \in Frame
    BY DEF NoFrame, Frame
  <2>2. [s EXCEPT !.frame = NoFrame, !.pc = "read"] \in Sessions
    BY <2>1 DEF Sessions, SessionPCs
  <2>3. WithinQuotas([s EXCEPT !.frame = NoFrame, !.pc = "read"])
    BY <1>2 DEF WithinQuotas, Sessions
  <2> QED
    BY <1>2, <2>2, <2>3 DEF Resume, Proper, Sessions
<1> QED
  BY <1>1, <1>2

\* An error of the peer.
LEMMA BlamedFacts ==
  ASSUME NEW s \in Sessions, WithinQuotas(s)
  PROVE  Proper(Blamed(s))
<1> DEFINE t == [s EXCEPT !.protocol_errors = @ + 1]
<1>1. t \in Sessions
  BY DEF Sessions
<1>2. s.protocol_errors + 1 >= MaxProtocolErrors \/ WithinQuotas([t EXCEPT !.pc = "read"])
  BY Bounds DEF WithinQuotas, Sessions
<1>3. (s.protocol_errors + 1 >= MaxProtocolErrors) \in BOOLEAN
  OBVIOUS
<1> HIDE DEF t
<1>4. Proper(Resume(t, s.protocol_errors + 1 >= MaxProtocolErrors))
  BY <1>1, <1>2, <1>3, ResumeFacts
<1> QED
  BY <1>4 DEF Blamed, t

\* A decoded frame.
LEMMA CountedFacts ==
  ASSUME NEW s \in Sessions, WithinQuotas(s), NEW f \in Frame
  PROVE  Proper(Counted(s, f))
<1> DEFINE txs == s.inbound_tx_decoded + (IF f.op = "tx" THEN 1 ELSE 0)
           t == [s EXCEPT !.inbound_tx_decoded = txs, !.frame = f, !.pc = "apply"]
<1>1. txs \in Nat /\ s.inbound_tx_decoded <= txs /\ (f.op = "tx" => s.inbound_tx_decoded < txs)
  BY DEF Sessions
<1>2. CASE txs > MaxInboundTx
  BY <1>2, EndedFacts DEF Counted
<1>3. CASE ~(txs > MaxInboundTx)
  <2> HIDE DEF txs
  <2>1. t \in Sessions /\ t.pc = "apply"
    BY <1>1 DEF Sessions, SessionPCs
  <2>2. WithinQuotas(t)
    BY <1>1, <1>3, Bounds DEF WithinQuotas, Sessions
  <2> QED
    BY <1>3, <2>1, <2>2 DEF Counted, Proper, txs
<1> QED
  BY <1>2, <1>3

-----------------------------------------------------------------------------
(***************************************************************************)
(* Steps.                                                                  *)
(***************************************************************************)

\* The owners of permits are finitely many.
LEMMA HoldingFinite == IsFiniteSet(Holding)
BY ConnAssumption, FS_Subset DEF Holding

\* A step that moves one session and keeps its permit.
LEMMA SessionMoves ==
  ASSUME SessionInv, NEW c \in Conn, sess[c].pc # "none", NEW s, Proper(s), Set(c, s),
         UNCHANGED <<active, listener>>, tip' \in Nat, poisoned' \in BOOLEAN
  PROVE  SessionInv'
<1>1. sess' \in [Conn -> Sessions] /\ \A d \in Conn : sess'[d] = IF d = c THEN s ELSE sess[d]
  BY DEF SessionInv, TypeOK, Set, Proper
<1>2. Holding' = Holding
  BY <1>1 DEF Holding, Proper
<1>3. \A d \in Conn : WithinQuotas(sess'[d])
  BY <1>1 DEF SessionInv, Proper
<1>4. TypeOK'
  BY <1>1 DEF SessionInv, TypeOK
<1>5. SlotsAreExact'
  BY <1>2 DEF SessionInv, SlotsAreExact
<1> QED
  BY <1>3, <1>4, <1>5 DEF SessionInv, WithinQuotas

\* The handshake, the read loop and the write of an answer.
LEMMA LoopSteps ==
  ASSUME SessionInv, NEW c \in Conn,
         \/ Setup(c) \/ Handshake(c) \/ ReadEnds(c) \/ Write(c)
         \/ \E f \in Frame : ReadFrame(c, f)
  PROVE  SessionInv'
<1> DEFINE s == sess[c]
<1>1. s \in Sessions /\ WithinQuotas(s) /\ tip \in Nat /\ poisoned \in BOOLEAN
  BY DEF SessionInv, TypeOK
<1>2. CASE Setup(c)
  <2>1. Proper([s EXCEPT !.pc = "hello"])
    BY <1>1 DEF Proper, Sessions, SessionPCs, WithinQuotas
  <2> QED
    BY <1>1, <1>2, <2>1, EndedFacts, SessionMoves DEF Setup, At, node
<1>3. CASE Handshake(c) \/ Write(c)
  <2>1. PICK ok \in BOOLEAN : Set(c, Resume(s, ~ok))
    BY <1>3 DEF Handshake, Write
  <2>2. Proper(Resume(s, ~ok))
    <3>1. WithinQuotas([s EXCEPT !.pc = "read"])
      BY <1>1 DEF WithinQuotas, Sessions
    <3> QED
      BY <1>1, <3>1, ResumeFacts
  <2> HIDE DEF s
  <2>3. sess[c].pc # "none" /\ UNCHANGED <<active, listener, tip, poisoned>>
    BY <1>3 DEF Handshake, Write, At, node
  <2> QED
    BY <1>1, <2>1, <2>2, <2>3, SessionMoves
<1>4. CASE ReadEnds(c)
  BY <1>1, <1>4, EndedFacts, SessionMoves DEF ReadEnds, At, node
<1>5. CASE \E f \in Frame : ReadFrame(c, f)
  <2>1. PICK f \in Frame : ReadFrame(c, f)
    BY <1>5
  <2> DEFINE t == [s EXCEPT !.frames = @ + 1]
             u == IF t.frames > MaxAppFrames THEN Ended
                  ELSE IF f.op = "bad" THEN Blamed(t) ELSE Counted(t, f)
  <2>2. t \in Sessions
    BY <1>1 DEF Sessions
  <2>3. t.frames > MaxAppFrames \/ WithinQuotas(t)
    BY <1>1, <2>1, Bounds DEF ReadFrame, WithinQuotas, Sessions
  <2>4. Set(c, u) /\ s.pc # "none" /\ UNCHANGED <<active, listener, tip, poisoned>>
    BY <2>1 DEF ReadFrame, At, node
  <2> HIDE DEF t
  <2>5. Proper(u)
    BY <2>2, <2>3, EndedFacts, BlamedFacts, CountedFacts
  <2> HIDE DEF u
  <2> QED
    BY <1>1, <2>4, <2>5, SessionMoves
<1> QED
  BY <1>2, <1>3, <1>4, <1>5

\* A frame is applied under the mutex.
LEMMA ApplySteps ==
  ASSUME SessionInv, NEW c \in Conn, Apply(c)
  PROVE  SessionInv'
<1> DEFINE s == sess[c]
<1>1. s \in Sessions /\ WithinQuotas(s) /\ tip \in Nat /\ poisoned \in BOOLEAN
  BY DEF SessionInv, TypeOK
<1>2. s.pc = "apply" /\ UNCHANGED <<active, listener>>
  BY DEF Apply, ApplyPoisoned, ApplyTx, ApplyGetBlocks, ApplyStaleBlock, ApplyInvalidBlock,
         ApplyNextBlock, At
<1>3. WithinQuotas([s EXCEPT !.pc = "read"])
  BY <1>1 DEF WithinQuotas, Sessions
<1>4. CASE ApplyPoisoned(c)
  BY <1>1, <1>2, <1>4, EndedFacts, SessionMoves DEF ApplyPoisoned, node
<1>5. CASE ApplyTx(c)
  <2> DEFINE t == [s EXCEPT !.submitted = @ + 1]
  <2>1. t \in Sessions /\ WithinQuotas([t EXCEPT !.pc = "read"])
    BY <1>1, <1>2, <1>5, Bounds DEF ApplyTx, WithinQuotas, Sessions
  <2>2. Set(c, Resume(t, FALSE)) /\ UNCHANGED <<tip, poisoned>>
    BY <1>5 DEF ApplyTx, node
  <2> HIDE DEF t
  <2>3. Proper(Resume(t, FALSE))
    BY <2>1, ResumeFacts
  <2> QED
    BY <1>1, <1>2, <2>2, <2>3, SessionMoves
<1>6. CASE ApplyGetBlocks(c)
  <2>1. Proper([s EXCEPT !.frame = NoFrame, !.pc = "write"])
    <3>1. NoFrame \in Frame
      BY DEF NoFrame, Frame
    <3> QED
      BY <1>1, <3>1 DEF Proper, Sessions, SessionPCs, WithinQuotas
  <2>2. Proper(Blamed(s))
    BY <1>1, BlamedFacts
  <2> QED
    BY <1>1, <1>2, <1>6, <2>1, <2>2, SessionMoves DEF ApplyGetBlocks, node
<1>7. CASE ApplyStaleBlock(c)
  <2> DEFINE n == s.stale_decoded_blocks + 1
             t == [s EXCEPT !.stale_decoded_blocks = n]
  <2>1. t \in Sessions /\ (n > MaxStaleBlocks \/ WithinQuotas([t EXCEPT !.pc = "read"]))
    BY <1>1, <1>3, Bounds DEF WithinQuotas, Sessions
  <2>2. Set(c, Resume(t, n > MaxStaleBlocks)) /\ UNCHANGED <<tip, poisoned>>
    BY <1>7 DEF ApplyStaleBlock, node
  <2> HIDE DEF t, n
  <2>3. Proper(Resume(t, n > MaxStaleBlocks))
    <3>1. (n > MaxStaleBlocks) \in BOOLEAN
      OBVIOUS
    <3> QED
      BY <2>1, <3>1, ResumeFacts
  <2> QED
    BY <1>1, <1>2, <2>2, <2>3, SessionMoves
<1>8. CASE ApplyInvalidBlock(c)
  <2> DEFINE n == s.invalid_block_strikes + 1
             t == [s EXCEPT !.invalid_block_strikes = n]
  <2>1. t \in Sessions /\ (n >= MaxInvalidBlocks \/ WithinQuotas([t EXCEPT !.pc = "read"]))
    BY <1>1, <1>3, Bounds DEF WithinQuotas, Sessions
  <2>2. Set(c, Resume(t, n >= MaxInvalidBlocks)) /\ UNCHANGED <<tip, poisoned>>
    BY <1>8 DEF ApplyInvalidBlock, node
  <2> HIDE DEF t, n
  <2>3. Proper(Resume(t, n >= MaxInvalidBlocks))
    <3>1. (n >= MaxInvalidBlocks) \in BOOLEAN
      OBVIOUS
    <3> QED
      BY <2>1, <3>1, ResumeFacts
  <2> QED
    BY <1>1, <1>2, <2>2, <2>3, SessionMoves
<1>9. CASE ApplyNextBlock(c)
  <2>1. Proper(Resume(s, FALSE))
    BY <1>1, <1>3, ResumeFacts
  <2>2. tip' \in Nat /\ poisoned' \in BOOLEAN
    <3>1. tip' \in {tip, tip + 1}
      BY <1>9 DEF ApplyNextBlock
    <3>2. poisoned' \in BOOLEAN
      BY <1>1, <1>9, Zenon DEF ApplyNextBlock
    <3> QED
      BY <1>1, <3>1, <3>2
  <2> QED
    BY <1>2, <1>9, <2>1, <2>2, EndedFacts, SessionMoves DEF ApplyNextBlock
<1> QED
  BY <1>4, <1>5, <1>6, <1>7, <1>8, <1>9 DEF Apply

\* The load of InboundPermit::drop: a thread that owns a permit is counted.
LEMMA DropLoadStep ==
  ASSUME SessionInv, NEW c \in Conn, DropLoad(c) \/ DropAgain(c)
  PROVE  SessionInv'
<1>1. sess[c].pc # "none" /\ UNCHANGED <<active, listener, tip, poisoned>>
  BY DEF DropLoad, DropAgain, At, node
<1>2. active \in Nat /\ tip \in Nat /\ poisoned \in BOOLEAN
  BY DEF SessionInv, TypeOK
<1>3. CASE DropLoad(c)
  <2>1. c \in Holding
    BY <1>1 DEF Holding
  <2>2. active # 0
    BY <2>1, HoldingFinite, FS_EmptySet DEF SessionInv, SlotsAreExact
  <2>3. Set(c, [NoSession EXCEPT !.seen = active, !.pc = "drop_cas"])
    BY <1>3, <2>2 DEF DropLoad
  <2> QED
    BY <1>1, <1>2, <2>3, FreshFacts, SessionMoves DEF SessionPCs
<1>4. CASE DropAgain(c)
  BY <1>1, <1>2, <1>4, EndedFacts, SessionMoves DEF DropAgain
<1> QED
  BY <1>3, <1>4

\* The swap that gives the slot back.
LEMMA DropCasStep ==
  ASSUME SessionInv, NEW c \in Conn, DropCas(c)
  PROVE  SessionInv'
<1>1. /\ c \in Holding /\ active' = active - 1 /\ Set(c, NoSession)
      /\ UNCHANGED <<listener, tip, poisoned>>
  BY DEF DropCas, At, Holding, node
<1>2. sess' \in [Conn -> Sessions]
      /\ \A d \in Conn : sess'[d] = IF d = c THEN NoSession ELSE sess[d]
  BY <1>1, NoSessionFacts DEF SessionInv, TypeOK, Set
<1>3. Holding' = Holding \ {c}
  BY <1>2, NoSessionFacts DEF Holding
<1>4. Cardinality(Holding') = Cardinality(Holding) - 1 /\ Cardinality(Holding) \in Nat
      /\ Cardinality(Holding) # 0
  BY <1>1, <1>3, HoldingFinite, FS_RemoveElement, FS_CardinalityType, FS_EmptySet
<1>5. TypeOK'
  BY <1>1, <1>2, <1>4 DEF SessionInv, TypeOK, SlotsAreExact
<1>6. SlotsAreExact'
  BY <1>1, <1>4, Bounds DEF SessionInv, SlotsAreExact
<1>7. \A d \in Conn : WithinQuotas(sess'[d])
  BY <1>2, NoSessionFacts DEF SessionInv
<1> QED
  BY <1>5, <1>6, <1>7 DEF SessionInv, WithinQuotas

\* The swap that takes a slot.
LEMMA AcquireStep ==
  ASSUME SessionInv, NEW c \in Conn, Acquire(c)
  PROVE  SessionInv'
<1> DEFINE s == [NoSession EXCEPT !.pc = "setup"]
<1>1. /\ c \in Conn \ Holding /\ active < Slots /\ active' = active + 1
      /\ sess' = [sess EXCEPT ![c] = s] /\ listener' = Idle
      /\ UNCHANGED <<tip, poisoned>>
  BY DEF Acquire, Holding, node
<1>2. Proper(s)
  BY FreshFacts DEF SessionPCs
<1> HIDE DEF s
<1>3. sess' \in [Conn -> Sessions] /\ \A d \in Conn : sess'[d] = IF d = c THEN s ELSE sess[d]
  BY <1>1, <1>2 DEF SessionInv, TypeOK, Proper
<1>4. Holding' = Holding \cup {c}
  BY <1>2, <1>3 DEF Holding, Proper
<1>5. Cardinality(Holding') = Cardinality(Holding) + 1
  BY <1>1, <1>4, HoldingFinite, FS_AddElement
<1>6. TypeOK'
  BY <1>1, <1>3 DEF SessionInv, TypeOK, Idle
<1>7. SlotsAreExact'
  BY <1>1, <1>5, Bounds DEF SessionInv, SlotsAreExact, TypeOK
<1>8. \A d \in Conn : WithinQuotas(sess'[d])
  BY <1>2, <1>3 DEF SessionInv, Proper
<1> QED
  BY <1>6, <1>7, <1>8 DEF SessionInv, WithinQuotas

\* Steps that leave the sessions alone.
LEMMA OtherSteps ==
  ASSUME SessionInv, Accept \/ Refuse \/ AcquireAgain \/ TickAppends \/ UNCHANGED vars
  PROVE  SessionInv'
<1>1. UNCHANGED <<active, sess>>
  BY DEF Accept, Refuse, AcquireAgain, TickAppends, vars
<1>2. listener' \in [pc : {"accept", "acquire"}, n : Nat]
  BY DEF SessionInv, TypeOK, Accept, Refuse, AcquireAgain, TickAppends, vars, Idle
<1>3. tip' \in {tip, tip + 1}
  BY DEF Accept, Refuse, AcquireAgain, TickAppends, vars, node
<1>4. poisoned' \in BOOLEAN
  BY Zenon DEF SessionInv, TypeOK, Accept, Refuse, AcquireAgain, TickAppends, vars, node
<1>5. TypeOK'
  BY <1>1, <1>2, <1>3, <1>4 DEF SessionInv, TypeOK
<1>6. SlotsAreExact'
  BY <1>1 DEF SessionInv, SlotsAreExact, Holding
<1> QED
  BY <1>1, <1>5, <1>6 DEF SessionInv, WithinQuotas

\* A new process has no sessions.
LEMMA NoSessions ==
  ASSUME sess = [c \in Conn |-> NoSession], active = 0
  PROVE  /\ sess \in [Conn -> Sessions]
         /\ SlotsAreExact
         /\ \A c \in Conn : WithinQuotas(sess[c])
<1>1. Holding = {}
  BY NoSessionFacts DEF Holding
<1>2. SlotsAreExact
  BY <1>1, FS_EmptySet, Bounds DEF SlotsAreExact
<1> QED
  BY <1>2, NoSessionFacts

\* The process ends with its sessions and is started again.
LEMMA RestartStep ==
  ASSUME SessionInv, Restart
  PROVE  SessionInv'
<1>1. Holding' = {}
  BY NoSessionFacts DEF Restart, Holding
<1>2. SlotsAreExact'
  BY <1>1, FS_EmptySet, Bounds DEF SlotsAreExact, Restart
<1>3. TypeOK'
  BY NoSessionFacts DEF SessionInv, TypeOK, Restart, Idle
<1>4. \A c \in Conn : WithinQuotas(sess'[c])
  BY NoSessionFacts DEF Restart
<1> QED
  BY <1>2, <1>3, <1>4 DEF SessionInv, WithinQuotas

-----------------------------------------------------------------------------
(***************************************************************************)
(* The invariant and the properties.                                       *)
(***************************************************************************)

\* The slot counter and the quotas hold in every behaviour.
THEOREM SessionInvariant == Spec => []SessionInv
<1>1. ASSUME Init PROVE SessionInv
  <2>1. sess = [c \in Conn |-> NoSession] /\ active = 0
    BY <1>1 DEF Init
  <2>2. sess \in [Conn -> Sessions] /\ SlotsAreExact /\ \A c \in Conn : WithinQuotas(sess[c])
    BY <2>1, NoSessions
  <2>3. TypeOK
    BY <1>1, <2>2 DEF Init, TypeOK, Idle
  <2> QED
    BY <2>2, <2>3 DEF SessionInv
<1>2. SessionInv /\ [Next]_vars => SessionInv'
  BY LoopSteps, ApplySteps, DropLoadStep, DropCasStep, AcquireStep, OtherSteps, RestartStep
  DEF Next, Listener, Session
<1> QED
  BY <1>1, <1>2, PTL DEF Spec

\* The slot counter is the number of permits and never exceeds the cap, whatever
\* the interleaving of try_acquire and InboundPermit::drop.
THEOREM SlotCounterIsExact == Spec => []SlotsAreExact
<1>1. SessionInv => SlotsAreExact
  BY DEF SessionInv
<1> QED
  BY <1>1, SessionInvariant, PTL

\* Every session of peer_connection_loop stays within the quotas of its policy.
THEOREM SessionsStayWithinQuotas == Spec => []QuotasHold
<1>1. SessionInv => QuotasHold
  <2> SUFFICES ASSUME SessionInv, NEW c \in Conn
               PROVE  WithinQuotas(sess[c]) /\ sess[c].submitted <= MaxInboundTx
    BY DEF QuotasHold, WithinQuotas
  <2>1. sess[c] \in Sessions /\ WithinQuotas(sess[c])
    BY DEF SessionInv, TypeOK
  <2> QED
    BY <2>1, Bounds DEF WithinQuotas, Sessions
<1> QED
  BY <1>1, SessionInvariant, PTL

-----------------------------------------------------------------------------
(***************************************************************************)
(* A poisoned store.                                                       *)
(***************************************************************************)

\* A session that goes from s to t hands nothing to the pool, and owes its peer
\* an answer only if it did before.
Silent(s, t) == t.submitted <= s.submitted /\ (t.pc = "write" => s.pc = "write")

\* The rounds of the loop that do not apply a frame are silent.
LEMMA SilentRounds ==
  ASSUME NEW s \in Sessions, NEW over \in BOOLEAN, NEW f \in Frame
  PROVE  /\ Silent(s, s) /\ Silent(s, Ended) /\ Silent(s, NoSession)
         /\ \A n \in Nat : Silent(s, [NoSession EXCEPT !.seen = n, !.pc = "drop_cas"])
         /\ Silent(s, [s EXCEPT !.pc = "hello"])
         /\ Silent(s, Resume(s, over))
         /\ Silent(s, Blamed([s EXCEPT !.frames = @ + 1]))
         /\ Silent(s, Counted([s EXCEPT !.frames = @ + 1], f))
<1>1. /\ Silent(s, s) /\ Silent(s, Ended) /\ Silent(s, NoSession)
      /\ \A n \in Nat : Silent(s, [NoSession EXCEPT !.seen = n, !.pc = "drop_cas"])
      /\ Silent(s, [s EXCEPT !.pc = "hello"])
      /\ Silent(s, Resume(s, over))
  BY DEF Silent, Sessions, Ended, NoSession, Resume
<1>2. Silent(s, Blamed([s EXCEPT !.frames = @ + 1]))
  BY <1>1 DEF Silent, Sessions, Resume, Blamed
<1>3. Silent(s, Counted([s EXCEPT !.frames = @ + 1], f))
  BY <1>1 DEF Silent, Sessions, Counted
<1> QED
  BY <1>1, <1>2, <1>3

\* With a poisoned store a session moves silently, or ends.
LEMMA PoisonedSession ==
  ASSUME SessionInv, NEW c \in Conn, Session(c), poisoned
  PROVE  \E t : Silent(sess[c], t) /\ Set(c, t) /\ tip' = tip
<1> DEFINE s == sess[c]
<1>1. s \in Sessions /\ active \in Nat /\ NoFrame \in Frame
  BY DEF SessionInv, TypeOK, NoFrame, Frame
<1>2. CASE Setup(c) \/ ReadEnds(c) \/ Apply(c) \/ DropLoad(c) \/ DropCas(c) \/ DropAgain(c)
  BY <1>1, <1>2, SilentRounds
  DEF Setup, ReadEnds, Apply, ApplyPoisoned, ApplyTx, ApplyGetBlocks, ApplyStaleBlock,
      ApplyInvalidBlock, ApplyNextBlock, DropLoad, DropCas, DropAgain, node
<1>3. CASE Handshake(c) \/ Write(c)
  <2>1. PICK ok \in BOOLEAN : Set(c, Resume(s, ~ok))
    BY <1>3 DEF Handshake, Write
  <2>2. Silent(s, Resume(s, ~ok))
    BY <1>1, SilentRounds
  <2> QED
    BY <1>3, <2>1, <2>2 DEF Handshake, Write, node
<1>4. CASE \E f \in Frame : ReadFrame(c, f)
  <2>1. PICK f \in Frame : ReadFrame(c, f)
    BY <1>4
  <2> DEFINE r == [s EXCEPT !.frames = @ + 1]
             t == IF r.frames > MaxAppFrames THEN Ended
                  ELSE IF f.op = "bad" THEN Blamed(r) ELSE Counted(r, f)
  <2>2. Set(c, t) /\ tip' = tip
    BY <2>1 DEF ReadFrame, node
  <2>3. Silent(s, t)
    BY <1>1, SilentRounds
  <2> HIDE DEF t
  <2> QED
    BY <2>2, <2>3
<1> QED
  BY <1>2, <1>3, <1>4 DEF Session

\* Once a persist has failed, no frame changes the node or is answered, also one
\* decoded before the failure (the poison check of apply_predecoded).
THEOREM PoisonIsFinal == Spec => PoisonSilencesSessions
<1>1. SessionInv /\ [Next]_vars =>
        [poisoned /\ poisoned' =>
           /\ tip' = tip
           /\ \A c \in Conn :
                /\ sess'[c].submitted <= sess[c].submitted
                /\ sess'[c].pc = "write" => sess[c].pc = "write"]_vars
  <2> SUFFICES ASSUME SessionInv, Next, poisoned, poisoned'
               PROVE  tip' = tip /\ \A c \in Conn : Silent(sess[c], sess'[c])
    BY DEF Silent
  <2>1. sess \in [Conn -> Sessions]
    BY DEF SessionInv, TypeOK
  <2>2. CASE \E c \in Conn : Session(c)
    <3>1. PICK c \in Conn : Session(c)
      BY <2>2
    <3>2. PICK t : Silent(sess[c], t) /\ Set(c, t) /\ tip' = tip
      BY <3>1, PoisonedSession
    <3>3. \A d \in Conn : sess'[d] = IF d = c THEN t ELSE sess[d]
      BY <2>1, <3>2 DEF Set
    <3> QED
      BY <2>1, <3>2, <3>3 DEF Silent, Sessions
  <2>3. CASE \E c \in Conn : Acquire(c)
    <3>1. PICK c \in Conn : Acquire(c)
      BY <2>3
    <3>2. /\ sess' = [sess EXCEPT ![c] = [NoSession EXCEPT !.pc = "setup"]] /\ tip' = tip
      BY <3>1 DEF Acquire, node
    <3>3. Silent(sess[c], [NoSession EXCEPT !.pc = "setup"])
      BY <2>1 DEF Silent, NoSession, Sessions
    <3> QED
      BY <2>1, <3>2, <3>3 DEF Silent, Sessions
  <2>4. CASE Accept \/ Refuse \/ AcquireAgain
    BY <2>1, <2>4 DEF Accept, Refuse, AcquireAgain, node, Silent, Sessions
  <2>5. CASE TickAppends \/ Restart
    BY <2>5 DEF TickAppends, Restart
  <2> QED
    BY <2>2, <2>3, <2>4, <2>5 DEF Next, Listener
<1> QED
  BY <1>1, SessionInvariant, PTL DEF Spec, PoisonSilencesSessions

\* Type correctness of the sessions and the slot pool.
THEOREM SessionTypeCorrect == Spec => []TypeOK
<1>1. SessionInv => TypeOK
  BY DEF SessionInv
<1> QED
  BY <1>1, SessionInvariant, PTL


=============================================================================
