---------------------------- MODULE PeerSessions ----------------------------
(***************************************************************************)
(* Inbound peer sessions of a node (node/src/network.rs): the accept loop, *)
(* the pool of session slots with its compare-and-swap loops, and one      *)
(* thread per connection that reads frames, counts them against the        *)
(* session's quotas and applies them under the node mutex.                 *)
(*                                                                         *)
(* A critical section of the mutex is one step.  Of the node there is the  *)
(* height of its chain and the poison flag; module Node has the rest.      *)
(***************************************************************************)
EXTENDS Integers, FiniteSets

CONSTANTS
  Conn,               \* the connections
  Slots,              \* policy.max_concurrent_sessions
  MaxFrames,          \* MAX_FRAMES_PER_INBOUND_SESSION
  MaxAppFrames,       \* policy.max_app_frames_per_session
  MaxProtocolErrors,  \* policy.max_protocol_errors_per_session
  MaxInvalidBlocks,   \* policy.max_invalid_network_blocks_per_session
  MaxStaleBlocks,     \* policy.max_stale_decoded_blocks_per_session
  MaxInboundTx,       \* policy.max_inbound_tx_per_session
  MaxTip              \* bound: height of the chain

ASSUME ConnAssumption == IsFiniteSet(Conn)
ASSUME PolicyAssumption ==
  {Slots, MaxFrames, MaxAppFrames, MaxProtocolErrors, MaxInvalidBlocks, MaxStaleBlocks,
   MaxInboundTx, MaxTip} \subseteq Nat

VARIABLES
  active,    \* InboundSlotPool::active
  listener,  \* the accept loop: [pc, n], n the local of try_acquire
  sess,      \* the session thread of each connection
  tip,       \* height of the chain
  poisoned   \* BlockStore::poisoned

vars == <<active, listener, sess, tip, poisoned>>
node == <<tip, poisoned>>

\* Decoded frames; "bad" is a payload predecode_inbound_app_payload refuses.
Frame == [op : {"tx", "get_blocks", "bad"}, height : {0}]
           \cup [op : {"block"}, height : 1 .. MaxTip + 2]

NoFrame == [op |-> "bad", height |-> 0]

\* "drop" and "drop_cas" are the two halves of InboundPermit::drop.
SessionPCs == {"none", "setup", "hello", "read", "apply", "write", "drop", "drop_cas"}

\* The locals of a session thread, and the transactions it handed to the pool.
Sessions ==
  [pc : SessionPCs, frames : Nat, protocol_errors : Nat, invalid_block_strikes : Nat,
   stale_decoded_blocks : Nat, inbound_tx_decoded : Nat, frame : Frame, seen : Nat,
   submitted : Nat]

NoSession ==
  [pc |-> "none", frames |-> 0, protocol_errors |-> 0, invalid_block_strikes |-> 0,
   stale_decoded_blocks |-> 0, inbound_tx_decoded |-> 0, frame |-> NoFrame, seen |-> 0,
   submitted |-> 0]

Idle == [pc |-> "accept", n |-> 0]

\* The threads that own a permit.
Holding == {c \in Conn : sess[c].pc # "none"}

TypeOK ==
  /\ active \in Nat
  /\ listener \in [pc : {"accept", "acquire"}, n : Nat]
  /\ sess \in [Conn -> Sessions]
  /\ tip \in Nat
  /\ poisoned \in BOOLEAN

Init ==
  /\ active = 0
  /\ listener = Idle
  /\ sess = [c \in Conn |-> NoSession]
  /\ tip = 0
  /\ poisoned = FALSE

-----------------------------------------------------------------------------
(***************************************************************************)
(* serve_tcp_listener and InboundSlotPool::try_acquire.                    *)
(***************************************************************************)

\* accept, and the load that opens try_acquire.
Accept ==
  /\ listener.pc = "accept"
  /\ Holding # Conn
  /\ listener' = [pc |-> "acquire", n |-> active]
  /\ UNCHANGED <<active, sess, node>>

\* No slot: the stream is dropped.
Refuse ==
  /\ listener.pc = "acquire"
  /\ listener.n >= Slots
  /\ listener' = Idle
  /\ UNCHANGED <<active, sess, node>>

\* Mutant of Acquire: the swap stores the count of a release.
AcquireReleases(c) ==
  /\ listener.pc = "acquire"
  /\ sess[c].pc = "none"
  /\ listener.n < Slots
  /\ active = listener.n
  /\ active' = listener.n - 1
  /\ sess' = [sess EXCEPT ![c] = [NoSession EXCEPT !.pc = "setup"]]
  /\ listener' = Idle
  /\ UNCHANGED node

\* compare_exchange_weak and the spawn of the session thread.
Acquire(c) ==
  /\ listener.pc = "acquire"
  /\ sess[c].pc = "none"
  /\ listener.n < Slots
  /\ active = listener.n
  /\ active' = listener.n + 1
  /\ sess' = [sess EXCEPT ![c] = [NoSession EXCEPT !.pc = "setup"]]
  /\ listener' = Idle
  /\ UNCHANGED node

AcquireAgain ==
  /\ listener.pc = "acquire"
  /\ listener.n < Slots
  /\ active # listener.n
  /\ listener' = [listener EXCEPT !.n = active]
  /\ UNCHANGED <<active, sess, node>>

Listener == Accept \/ Refuse \/ (\E c \in Conn : Acquire(c)) \/ AcquireAgain

-----------------------------------------------------------------------------
(***************************************************************************)
(* peer_connection_loop.                                                   *)
(***************************************************************************)
At(c, where) == sess[c].pc = where

Set(c, s) == sess' = [sess EXCEPT ![c] = s]

\* The loop returns: its locals are gone, the permit is not.
Ended == [NoSession EXCEPT !.pc = "drop"]

\* The next round of the loop, unless the session is over.
Resume(s, over) == IF over THEN Ended ELSE [s EXCEPT !.frame = NoFrame, !.pc = "read"]

\* peer_session_setup reads the node under the mutex, then lets it go.
Setup(c) ==
  /\ At(c, "setup")
  /\ Set(c, IF poisoned THEN Ended ELSE [sess[c] EXCEPT !.pc = "hello"])
  /\ UNCHANGED <<active, listener, node>>

\* handshake_responder: a good HELLO, or anything else.
Handshake(c) ==
  /\ At(c, "hello")
  /\ \E ok \in BOOLEAN : Set(c, Resume(sess[c], ~ok))
  /\ UNCHANGED <<active, listener, node>>

\* The head of the loop: too many frames, end of stream, timeout, bad frame.
ReadEnds(c) ==
  /\ At(c, "read")
  /\ Set(c, Ended)
  /\ UNCHANGED <<active, listener, node>>

\* The session after one more error of the peer.
Blamed(s) ==
  Resume([s EXCEPT !.protocol_errors = @ + 1], s.protocol_errors + 1 >= MaxProtocolErrors)

\* Mutant of Counted: the quota is compared before the transaction is counted.
CountedLate(s, f) ==
  LET txs == s.inbound_tx_decoded + (IF f.op = "tx" THEN 1 ELSE 0)
  IN  IF s.inbound_tx_decoded > MaxInboundTx THEN Ended
      ELSE [s EXCEPT !.inbound_tx_decoded = txs, !.frame = f, !.pc = "apply"]

\* Decoded transactions are counted before the mutex is taken.
Counted(s, f) ==
  LET txs == s.inbound_tx_decoded + (IF f.op = "tx" THEN 1 ELSE 0)
  IN  IF txs > MaxInboundTx THEN Ended
      ELSE [s EXCEPT !.inbound_tx_decoded = txs, !.frame = f, !.pc = "apply"]

\* Mutant of ReadFrame: frames are not counted.
ReadFrameUncounted(c, f) ==
  /\ At(c, "read")
  /\ sess[c].frames < MaxFrames
  /\ Set(c, IF f.op = "bad" THEN Blamed(sess[c]) ELSE Counted(sess[c], f))
  /\ UNCHANGED <<active, listener, node>>

ReadFrame(c, f) ==
  /\ At(c, "read")
  /\ sess[c].frames < MaxFrames
  /\ LET s == [sess[c] EXCEPT !.frames = @ + 1]
     IN  Set(c, IF s.frames > MaxAppFrames THEN Ended
                ELSE IF f.op = "bad"       THEN Blamed(s)
                ELSE Counted(s, f))
  /\ UNCHANGED <<active, listener, node>>

-----------------------------------------------------------------------------
(***************************************************************************)
(* apply_predecoded, in one critical section of the mutex.                 *)
(***************************************************************************)

\* A store poisoned since the frame was read ends the session.
ApplyPoisoned(c) ==
  /\ At(c, "apply")
  /\ poisoned
  /\ Set(c, Ended)
  /\ UNCHANGED <<active, listener, node>>

\* Mutant of ApplyTx: the store is not looked at.
ApplyTxUnchecked(c) ==
  /\ At(c, "apply")
  /\ sess[c].frame.op = "tx"
  /\ Set(c, Resume([sess[c] EXCEPT !.submitted = @ + 1], FALSE))
  /\ UNCHANGED <<active, listener, node>>

ApplyTx(c) ==
  /\ At(c, "apply") /\ ~poisoned
  /\ sess[c].frame.op = "tx"
  /\ Set(c, Resume([sess[c] EXCEPT !.submitted = @ + 1], FALSE))
  /\ UNCHANGED <<active, listener, node>>

\* The answer is written after the mutex is released; one that exceeds the frame
\* limit is an error that counts against the peer.
ApplyGetBlocks(c) ==
  /\ At(c, "apply") /\ ~poisoned
  /\ sess[c].frame.op = "get_blocks"
  /\ \/ Set(c, [sess[c] EXCEPT !.frame = NoFrame, !.pc = "write"])
     \/ Set(c, Blamed(sess[c]))
  /\ UNCHANGED <<active, listener, node>>

Write(c) ==
  /\ At(c, "write")
  /\ \E ok \in BOOLEAN : Set(c, Resume(sess[c], ~ok))
  /\ UNCHANGED <<active, listener, node>>

\* A block at or below the tip is only counted.
ApplyStaleBlock(c) ==
  /\ At(c, "apply") /\ ~poisoned
  /\ sess[c].frame.op = "block"
  /\ sess[c].frame.height <= tip
  /\ LET n == sess[c].stale_decoded_blocks + 1
     IN  Set(c, Resume([sess[c] EXCEPT !.stale_decoded_blocks = n], n > MaxStaleBlocks))
  /\ UNCHANGED <<active, listener, node>>

\* A block above the tip is refused by the chain: the only kind of strike.
ApplyInvalidBlock(c) ==
  /\ At(c, "apply") /\ ~poisoned
  /\ sess[c].frame.op = "block"
  /\ sess[c].frame.height > tip
  /\ LET n == sess[c].invalid_block_strikes + 1
     IN  Set(c, Resume([sess[c] EXCEPT !.invalid_block_strikes = n], n >= MaxInvalidBlocks))
  /\ UNCHANGED <<active, listener, node>>

\* The next block is appended and persisted, or its persist poisons the store.
ApplyNextBlock(c) ==
  /\ At(c, "apply") /\ ~poisoned
  /\ sess[c].frame.op = "block"
  /\ sess[c].frame.height = tip + 1
  /\ \/ tip' = tip + 1 /\ UNCHANGED poisoned /\ Set(c, Resume(sess[c], FALSE))
     \/ poisoned' = TRUE /\ UNCHANGED tip /\ Set(c, Ended)
  /\ UNCHANGED <<active, listener>>

-----------------------------------------------------------------------------
(***************************************************************************)
(* InboundPermit::drop, when the thread of the session ends.               *)
(***************************************************************************)
DropLoad(c) ==
  /\ At(c, "drop")
  /\ Set(c, IF active = 0 THEN NoSession
            ELSE [NoSession EXCEPT !.seen = active, !.pc = "drop_cas"])
  /\ UNCHANGED <<active, listener, node>>

\* Mutant of DropCas: the loaded count is stored without comparing.
DropStore(c) ==
  /\ At(c, "drop_cas")
  /\ active' = sess[c].seen - 1
  /\ Set(c, NoSession)
  /\ UNCHANGED <<listener, node>>

DropCas(c) ==
  /\ At(c, "drop_cas")
  /\ active = sess[c].seen
  /\ active' = sess[c].seen - 1
  /\ Set(c, NoSession)
  /\ UNCHANGED <<listener, node>>

DropAgain(c) ==
  /\ At(c, "drop_cas")
  /\ active # sess[c].seen
  /\ Set(c, Ended)
  /\ UNCHANGED <<active, listener, node>>

-----------------------------------------------------------------------------
(***************************************************************************)
(* The rest of the node: the tick of cmd_run.                              *)
(***************************************************************************)

\* The tick seals or syncs a block, or fails to persist it.
TickAppends ==
  /\ ~poisoned
  /\ \/ tip < MaxTip /\ tip' = tip + 1 /\ UNCHANGED poisoned
     \/ poisoned' = TRUE /\ UNCHANGED tip
  /\ UNCHANGED <<active, listener, sess>>

\* The tick finds the store poisoned and the process ends with its threads; the
\* operator starts it again.
Restart ==
  /\ poisoned
  /\ poisoned' = FALSE
  /\ active' = 0
  /\ listener' = Idle
  /\ sess' = [c \in Conn |-> NoSession]
  /\ UNCHANGED tip

-----------------------------------------------------------------------------
Apply(c) ==
  \/ ApplyPoisoned(c)
  \/ ApplyTx(c)
  \/ ApplyGetBlocks(c)
  \/ ApplyStaleBlock(c)
  \/ ApplyInvalidBlock(c)
  \/ ApplyNextBlock(c)

Session(c) ==
  \/ Setup(c)
  \/ Handshake(c)
  \/ ReadEnds(c)
  \/ \E f \in Frame : ReadFrame(c, f)
  \/ Apply(c)
  \/ Write(c)
  \/ DropLoad(c)
  \/ DropCas(c)
  \/ DropAgain(c)

Next ==
  \/ Listener
  \/ \E c \in Conn : Session(c)
  \/ TickAppends
  \/ Restart

Spec == Init /\ [][Next]_vars

\* Socket timeouts bound every read and write, the mutex is granted, and a
\* compare-and-swap that can succeed again and again does succeed.
FairSpec ==
  Spec /\ \A c \in Conn : WF_vars(Session(c)) /\ SF_vars(DropCas(c))

-----------------------------------------------------------------------------
(***************************************************************************)
(* Properties.                                                             *)
(***************************************************************************)

\* The slot counter is exact: it is the number of threads that own a permit, at
\* most the configured cap, however the compare-and-swap loops of the accept
\* thread and of ending sessions interleave.
SlotsAreExact == active = Cardinality(Holding) /\ active <= Slots

\* A session that is still reading is within every quota, and never handed the
\* pool more transactions than its quota.
QuotasHold ==
  \A c \in Conn :
    /\ sess[c].submitted <= MaxInboundTx
    /\ sess[c].pc \in {"read", "apply", "write"} =>
         /\ sess[c].frames <= MaxFrames /\ sess[c].frames <= MaxAppFrames
         /\ sess[c].stale_decoded_blocks <= MaxStaleBlocks
         /\ sess[c].invalid_block_strikes < MaxInvalidBlocks \/ sess[c].invalid_block_strikes = 0
         /\ sess[c].protocol_errors < MaxProtocolErrors \/ sess[c].protocol_errors = 0

\* Once a persist has failed, no session changes the node or is answered until
\* the process is restarted, even with a frame decoded before the failure.
PoisonSilencesSessions ==
  [][poisoned /\ poisoned' =>
       /\ tip' = tip
       /\ \A c \in Conn :
            /\ sess'[c].submitted <= sess[c].submitted
            /\ sess'[c].pc = "write" => sess[c].pc = "write"]_vars

\* Every slot that is taken is given back: no peer keeps a session for ever, by
\* silence or by traffic.
SlotsAreReturned == \A c \in Conn : c \in Holding ~> c \notin Holding

=============================================================================
