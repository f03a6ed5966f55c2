--------------------------- MODULE DumpSignal_proofs ---------------------------
(***************************************************************************)
(* What the dump signal promises, proved for any number of generations,    *)
(* failures and attached groups: an acknowledgement means a dump, and no   *)
(* generation is lost or served twice.                                     *)
(***************************************************************************)
EXTENDS DumpSignal, WellFoundedInduction, TLAPS

-----------------------------------------------------------------------------
(* The inductive invariant.                                                 *)

\* Where the monitor and the reporter hold claims.
Serving == {"reack", "who", "torch", "dump", "ack", "finish"}
Claimed == {"dump", "ack", "finish"}

Bases  == 0..None
States == [sid : Nat, nonce : Nat, base : Bases, first : Bases, high : Bases,
           done : SUBSET Gens, pending : SUBSET Gens, failed : SUBSET Gens,
           unacked : SUBSET Gens, torch : {"unseen", "seen"}]
Polls  == [pc : {"sleep", "gen", "seen"} \cup Serving, sid : Nat, nonce : Nat,
           key : BOOLEAN, gen : 0..MaxGen, gens : SUBSET Gens,
           unacked : SUBSET Gens, torch : BOOLEAN, dumped : BOOLEAN,
           acked : BOOLEAN]
Incidents == [pc : {"idle", "set", "claim"} \cup Claimed, inc : Nat,
              gen : 0..MaxGen, sid : Nat, gens : SUBSET Gens,
              dumped : BOOLEAN, acked : BOOLEAN]
Leftovers == [op : {"add", "set", "ack", "read"}, inc : Nat,
              gens : SUBSET Gens, monitor : BOOLEAN]
Attaches  == [pc : {"idle", "key", "apply"}, ok : BOOLEAN, nonce : Nat,
              gen : 0..MaxGen, key : BOOLEAN]

Typed ==
  /\ inc \in Incs /\ gen \in 0..MaxGen /\ key \in BOOLEAN
  /\ acks \subseteq Incs \X Gens
  /\ state \in States /\ sids \in Nat
  /\ a \in Attaches
  /\ m \in Polls /\ conn \in Nat
  /\ i \in Incidents /\ late \subseteq Leftovers
  /\ covered \in [Incs -> Nat] /\ straddled \in SUBSET Nat
  /\ trouble \in 0..MaxTrouble

\* Nobody knows of a server before it runs.
Servers ==
  /\ inc <= trouble + 1
  /\ \A k \in acks : k[1] <= inc
  /\ state.nonce <= inc /\ m.nonce <= inc /\ i.inc <= inc /\ a.nonce <= inc
  /\ \A l \in late : l.inc <= inc
  /\ conn <= inc

\* A state is of one server for as long as it lives, and claims name the
\* state they were taken from.
Identity ==
  /\ state.sid <= sids /\ m.sid <= sids /\ i.sid <= sids
  /\ state.sid = 0 => state = NoState
  /\ state.base = None <=> state.nonce = 0
  /\ a.pc = "apply" /\ a.ok => a.nonce # 0
  /\ m.pc # "sleep" => m.sid # 0 /\ m.nonce # 0
  /\ m.pc \notin Serving => m.gens = {} /\ m.unacked = {}
  /\ m.pc = "torch" => m.gens = {}
  /\ m.pc \notin {"ack", "finish"} => m.dumped = FALSE
  /\ m.pc \in Serving /\ m.sid = state.sid => state.nonce = m.nonce
  /\ i.pc \notin Claimed => i.gens = {} /\ i.sid = 0
  /\ i.pc \notin {"ack", "finish"} => i.dumped = FALSE
  /\ i.pc \in {"set", "claim", "ack", "finish"} => i.gen # 0
  /\ i.gen = 0 => i.gens = {}

\* Every generation from the base to the highest one claimed is done, failed,
\* or pending with the thread that serves it.  Without a base none is claimed.
Sound(s) ==
  /\ s.done \cap (s.pending \cup s.failed) = {}
  /\ s.pending \cap s.failed = {}
  /\ s.base # None =>
       /\ Top(s) <= MaxGen
       /\ (s.base + 1)..Top(s) = s.done \cup s.pending \cup s.failed
  /\ s.base = None => s.pending = {} /\ s.done = {} /\ s.failed = {} /\ s.unacked = {}
WholeOf(s, mine, its) ==
  s.pending = mine \cup its /\ mine \cap its = {} /\ Sound(s)

MonitorHas == IF m.sid = state.sid THEN m.gens ELSE {}
ReporterHas == IF i.sid = state.sid THEN i.gens ELSE {}
Whole == state.sid # 0 => WholeOf(state, MonitorHas, ReporterHas)

\* What is known of the running server's generations has been signalled.
UpTo(gens, n) == \A g \in gens : g <= n
Signalled ==
  /\ covered[inc] <= gen
  /\ \A n \in Incs : n > inc => covered[n] = 0
  /\ a.nonce = inc => a.gen <= gen
  /\ m.pc = "gen" => conn = m.nonce
  /\ m.pc = "seen" /\ m.nonce = inc => m.gen <= gen
  /\ i.inc = inc => i.gen <= gen

\* The same of what was claimed, while the running server knows of nothing that
\* served another ...
Clean == inc \notin straddled
Claims ==
  Clean =>
    /\ state.base # None /\ state.nonce = inc => Top(state) <= gen
    /\ m.nonce = inc => UpTo(m.gens, gen)
    /\ i.inc = inc => UpTo(i.gens, gen)
    /\ i.sid # 0 /\ i.sid = state.sid /\ i.gens # {} /\ state.nonce = inc =>
         i.inc = inc

\* ... and a dump was written after whatever is, or may still be, acknowledged
\* to it.  What earlier servers were acknowledged stays as it was.
Behind(gens) == UpTo(gens, covered[inc])
AcksBehind ==
  /\ \A k \in acks : k[1] = inc => k[2] <= covered[inc]
  /\ \A l \in late : l.op = "ack" /\ l.inc = inc => Behind(l.gens)
  /\ state.nonce = inc => Behind(state.unacked)
MonitorBehind ==
  m.nonce = inc =>
    /\ Behind(m.unacked)
    /\ m.pc = "ack" \/ (m.pc = "finish" /\ m.dumped = TRUE) => Behind(m.gens)
ReporterBehind ==
  i.inc = inc /\ (i.pc = "ack" \/ (i.pc = "finish" /\ i.dumped = TRUE)) =>
    Behind(i.gens \cup {i.gen})
Dumped ==
  /\ AckMeansDump
  /\ Clean => AcksBehind /\ MonitorBehind /\ ReporterBehind

IInv == Typed /\ Servers /\ Identity /\ Whole /\ Signalled /\ Claims /\ Dumped

-----------------------------------------------------------------------------
(* _StoreState.                                                             *)

\* A set of natural numbers that is not empty has a least one.
LEMMA LeastOf ==
  ASSUME NEW S \in SUBSET Nat, S # {}
  PROVE  \E x \in S : \A y \in S : x <= y
<1> DEFINE R == OpToRel(<, Nat)
<1>1. \A x, y \in Nat : x < y => <<x, y>> \in R
  BY DEF OpToRel
<1>2. IsWellFoundedOn(R, Nat)
  BY NatLessThanWellFounded
<1> HIDE DEF R
<1>3. PICK x \in S : \A y \in S : <<y, x>> \notin R
  BY <1>2, WFMin, Zenon
<1>4. \A y \in S : ~(y < x)
  BY <1>1, <1>3
<1> QED BY <1>4

\* The base moves to the end of what is done without a gap.
LEMMA BaseMoves ==
  ASSUME NEW s \in States, s.base # None, NEW done \in SUBSET Gens
  PROVE  /\ NewBase(s, done) \in s.base..MaxGen
         /\ (s.base + 1)..NewBase(s, done) \subseteq done
         /\ NewBase(s, done) + 1 \notin done
<1>0. MaxGen \in Nat /\ s.base \in 0..MaxGen /\ done \subseteq 1..MaxGen
  BY DumpAssumption DEF States, Bases, None, Gens
<1> DEFINE S == {b \in s.base..MaxGen : b + 1 \notin done}
<1>1. MaxGen \in S
  BY <1>0
<1>2. PICK b \in S : \A c \in S : b <= c
  <2>1. S \subseteq Nat  BY <1>0
  <2> HIDE DEF S
  <2> QED BY <1>1, <2>1, LeastOf
<1>3. ASSUME NEW g \in (s.base + 1)..b PROVE g \in done
  <2>1. g - 1 \in s.base..MaxGen /\ (g - 1) + 1 = g /\ ~(b <= g - 1)
    BY <1>0, <1>2, <1>3
  <2> QED BY <1>2, <2>1
<1>4. \E c \in s.base..MaxGen : (s.base + 1)..c \subseteq done /\ c + 1 \notin done
  BY <1>2, <1>3
<1> QED BY <1>4 DEF NewBase

LEMMA TopIs ==
  ASSUME NEW s \in States
  PROVE  /\ Top(s) \in Bases /\ Top(s) >= s.base /\ Top(s) >= s.high
         /\ Top(s) \in {s.base, s.high}
  BY DumpAssumption DEF Top, States, Bases, None

LEMMA NoStateIs ==
  NoState \in States /\ NoState.sid = 0 /\ NoState.nonce = 0 /\ NoState.base = None
  BY DumpAssumption DEF NoState, States, Bases, None

LEMMA NewStateIs ==
  ASSUME NEW s, s \in Nat, NEW nonce, nonce \in Nat, NEW base, base \in Bases,
         NEW seen
  PROVE  LET n == NewState(s, nonce, base, seen)
         IN /\ n \in States /\ n.sid = s /\ n.nonce = nonce /\ n.base = base
            /\ n.high = base /\ Top(n) = base
            /\ n.done = {} /\ n.pending = {} /\ n.failed = {} /\ n.unacked = {}
  BY DumpAssumption DEF NewState, NoState, States, Bases, None, Top

LEMMA ClaimIs ==
  ASSUME NEW s \in States, NEW upto \in 0..MaxGen, NEW retry \in BOOLEAN,
         NEW n, n = Claim(s, upto, retry)
  PROVE  /\ n \in States /\ Claimable(s, upto, retry) \in SUBSET Gens
         /\ n.sid = s.sid /\ n.nonce = s.nonce /\ n.base = s.base
         /\ n.done = s.done /\ n.unacked = s.unacked
         /\ s.base = None => n = s /\ Claimable(s, upto, retry) = {}
         /\ s.base # None =>
              /\ n.failed = IF retry THEN {} ELSE s.failed
              /\ n.pending = s.pending \cup Claimable(s, upto, retry)
              /\ Top(n) = IF upto > Top(s) THEN upto ELSE Top(s)
<1>0. /\ MaxGen \in Nat /\ Top(s) \in Nat /\ upto \in Bases /\ Top(s) \in Bases
      /\ Top(s) >= s.base /\ s.base \in Nat
  BY TopIs, DumpAssumption DEF Bases, None, States
<1>1. Claimable(s, upto, retry) \in SUBSET Gens
  BY <1>0 DEF Claimable, States, Gens
<1>2. CASE s.base = None
  BY <1>1, <1>2 DEF Claim, Claimable
<1>3. CASE s.base # None
  <2> DEFINE C == Claimable(s, upto, retry)
             f == IF retry THEN {} ELSE s.failed
             h == IF upto > Top(s) THEN upto ELSE Top(s)
             p == s.pending \cup C
  <2>1. n = [s EXCEPT !.failed = f, !.high = h, !.pending = p]
    BY <1>3 DEF Claim
  <2>2. f \in SUBSET Gens /\ h \in Bases /\ p \in SUBSET Gens
    BY <1>0, <1>1 DEF States
  <2>3. Top(n) = h
    <3>1. n.high = h /\ n.base = s.base
      BY <2>1 DEF States
    <3> QED BY <1>0, <3>1 DEF Top
  <2> HIDE DEF C, f, h, p
  <2>4. /\ n \in States /\ n.sid = s.sid /\ n.nonce = s.nonce /\ n.base = s.base
        /\ n.done = s.done /\ n.unacked = s.unacked
        /\ n.failed = f /\ n.pending = p
    BY <2>1, <2>2 DEF States
  <2> QED BY <1>1, <1>3, <2>3, <2>4 DEF C, f, h, p
<1> QED BY <1>2, <1>3

LEMMA ClaimKeeps ==
  ASSUME NEW s \in States, NEW upto \in 0..MaxGen, NEW retry \in BOOLEAN
  PROVE  LET n == Claim(s, upto, retry)
         IN /\ n.sid = s.sid /\ n.nonce = s.nonce /\ n.base = s.base
            /\ n.unacked = s.unacked
  BY ClaimIs

\* A finish moves the generations it covers to the failed, or, with the base,
\* to the done.
Finished(s, gens, dumped, n) ==
  /\ n.sid = s.sid /\ n.nonce = s.nonce /\ n.high = s.high
  /\ n.unacked \subseteq s.unacked \cup IF dumped THEN gens ELSE {}
  /\ n.base = None <=> s.base = None
  /\ gens = {} => n = s
  /\ gens # {} /\ ~dumped =>
       /\ n.base = s.base /\ n.done = s.done
       /\ n.pending = s.pending \ gens /\ n.failed = s.failed \cup gens
  /\ gens # {} /\ dumped /\ s.base # None =>
       /\ n.pending = s.pending \ gens /\ n.failed = s.failed \ gens
       /\ n.base = NewBase(s, s.done \cup gens)
       /\ n.done = {g \in s.done \cup gens : g > n.base}

LEMMA FinishIs ==
  ASSUME NEW s \in States, NEW gens \in SUBSET Gens, NEW dumped \in BOOLEAN,
         NEW acked \in BOOLEAN, NEW n, n = Finish(s, gens, dumped, acked)
  PROVE  n \in States /\ Finished(s, gens, dumped, n)
<1>1. CASE gens = {}
  BY <1>1 DEF Finish, Finished
<1>2. CASE gens # {} /\ ~dumped
  BY <1>2 DEF Finish, Finished, States
<1>3. CASE gens # {} /\ dumped
  <2> DEFINE done == s.done \cup gens
             base == NewBase(s, done)
             kept == IF base = None THEN done ELSE {g \in done : g > base}
  <2>1. /\ done \in SUBSET Gens /\ kept \in SUBSET Gens
        /\ base \in Bases /\ (base = None <=> s.base = None)
    <3>1. CASE s.base = None
      BY <3>1 DEF NewBase, States
    <3>2. CASE s.base # None
      BY <3>2, BaseMoves, DumpAssumption DEF States, Bases, None
    <3> QED BY <3>1, <3>2 DEF States
  <2> DEFINE p == s.pending \ gens
             f == s.failed \ gens
             u == IF acked THEN s.unacked ELSE s.unacked \cup gens
  <2>2. n = [s EXCEPT !.pending = p, !.failed = f, !.base = base, !.done = kept,
                      !.unacked = u]
    BY <1>3 DEF Finish
  <2>5. p \in SUBSET Gens /\ f \in SUBSET Gens /\ u \in SUBSET Gens
    BY DEF States
  <2>3. s.base # None => kept = {g \in done : g > base}
    BY <2>1
  <2> HIDE DEF done, base, kept, p, f, u
  <2>4. /\ n \in States /\ n.sid = s.sid /\ n.nonce = s.nonce /\ n.high = s.high
        /\ n.unacked = u /\ n.base = base /\ n.done = kept
        /\ n.pending = p /\ n.failed = f
    BY <2>1, <2>2, <2>5 DEF States
  <2> QED BY <1>3, <2>1, <2>3, <2>4 DEF Finished, done, base, p, f, u
<1> QED BY <1>1, <1>2, <1>3

-----------------------------------------------------------------------------
(* Types.                                                                   *)

LEMMA Constants == MaxGen \in Nat /\ MaxTrouble \in Nat /\ None \in Bases
  BY DumpAssumption DEF None, Bases

LEMMA NoneIs ==
  NoPoll \in Polls /\ NoIncident \in Incidents /\ NoAttach \in Attaches
  BY Constants DEF NoPoll, Polls, NoIncident, Incidents, NoAttach, Attaches,
                   Gens, Serving, Claimed

LEMMA LeftoverIs ==
  ASSUME NEW op \in {"add", "set", "ack", "read"}, NEW n \in Nat,
         NEW gens \in SUBSET Gens, NEW mon \in BOOLEAN
  PROVE  Leftover(op, n, gens, mon) \subseteq Leftovers
  BY DEF Leftover, Leftovers

LEMMA AcksIs ==
  ASSUME inc \in Incs, NEW gens \in SUBSET Gens
  PROVE  Acks(gens) \subseteq Incs \X Gens
  BY DEF Acks

LEMMA WrongTyped ==
  ASSUME trouble \in 0..MaxTrouble, GoesWrong
  PROVE  trouble' \in 0..MaxTrouble
  BY Constants DEF GoesWrong

LEMMA DumpTyped ==
  ASSUME Typed, DumpOk \/ DumpFails
  PROVE  /\ covered' \in [Incs -> Nat] /\ straddled' \in SUBSET Nat
         /\ trouble' \in 0..MaxTrouble
<1>1. CASE DumpOk
  <2>1. covered' = [covered EXCEPT ![inc] = gen] /\ gen \in Nat
    BY <1>1, Constants DEF DumpOk, Typed
  <2> QED BY <1>1, <2>1 DEF DumpOk, Typed
<1>2. CASE DumpFails
  BY <1>2, WrongTyped DEF DumpFails, history, Typed
<1> QED BY <1>1, <1>2

LEMMA CallTyped ==
  ASSUME Typed, NEW op \in {"ack", "read"}, NEW gens \in SUBSET Gens,
         CallFails(op, gens)
  PROVE  conn' \in Nat /\ late' \subseteq Leftovers /\ trouble' \in 0..MaxTrouble
<1>1. late' = late \/ late' = late \cup Leftover(op, inc, gens, TRUE)
  BY DEF CallFails
<1>2. Leftover(op, inc, gens, TRUE) \subseteq Leftovers
  <2>1. inc \in Nat /\ op \in {"add", "set", "ack", "read"} /\ TRUE \in BOOLEAN
    BY Constants DEF Typed, Incs
  <2> QED BY <2>1, LeftoverIs
<1>3. conn' \in Nat
  <2>1. conn \in Nat  BY DEF Typed
  <2>2. conn' = conn \/ conn' = 0  BY DEF CallFails
  <2> QED BY <2>1, <2>2
<1>4. trouble' \in 0..MaxTrouble
  BY WrongTyped DEF CallFails, Typed
<1> QED BY <1>1, <1>2, <1>3, <1>4 DEF Typed

LEMMA FinishOnTyped ==
  ASSUME Typed, NEW sid, NEW gens \in SUBSET Gens, NEW dumped \in BOOLEAN,
         NEW acked \in BOOLEAN, FinishOn(sid, gens, dumped, acked)
  PROVE  state' \in States
  BY FinishIs DEF FinishOn, Typed

LEMMA StraddlesTyped ==
  ASSUME Typed, NEW n, Straddles(n)
  PROVE  straddled' \in SUBSET Nat
<1>1. inc \in Nat
  BY Constants DEF Typed, Incs
<1> QED BY <1>1 DEF Straddles, Typed

\* The poll's answer is applied to the state it was asked for, or to the one
\* that replaces it.
LEMMA PollAppliesTyped ==
  ASSUME Typed, NEW retry \in BOOLEAN, PollApplies(retry)
  PROVE  state' \in States /\ sids' \in Nat /\ m' \in Polls
<1> DEFINE s0 == Replaced(m.nonce)
           s == [s0 EXCEPT !.torch = IF m.gen # s0.first THEN "seen" ELSE @]
           gens == Claimable(s, m.gen, retry)
<1>0. /\ m \in Polls /\ m.nonce \in Nat /\ m.gen \in 0..MaxGen /\ m.gen \in Bases
      /\ 0 \in Bases /\ sids + 1 \in Nat /\ m.key \in BOOLEAN
  BY Constants DEF Typed, Polls, Bases, None
<1>1. s0 \in States
  <2>1. NewState(sids + 1, m.nonce, 0, FALSE) \in States
    BY <1>0, NewStateIs
  <2>2. state \in States  BY DEF Typed
  <2> QED BY <2>1, <2>2 DEF Replaced
<1>2. s \in States /\ s.sid \in Nat /\ s.unacked \in SUBSET Gens
  BY <1>1 DEF States
<1>3. gens \in SUBSET Gens /\ Claim(s, m.gen, retry) \in States
  BY <1>0, <1>2, ClaimIs
<1>4. CASE m' = NoPoll
  <2>1. UNCHANGED stateVars \/ SetState(NewState(sids + 1, m.nonce, m.gen, m.key))
    BY <1>4 DEF PollApplies, NoPoll
  <2>2. NewState(sids + 1, m.nonce, m.gen, m.key) \in States
        /\ NewState(sids + 1, m.nonce, m.gen, m.key).sid = sids + 1
    BY <1>0, NewStateIs
  <2> QED BY <1>0, <1>4, <2>1, <2>2, NoneIs DEF SetState, stateVars, Typed
<1>5. CASE m' # NoPoll
  <2>1. PICK asked \in BOOLEAN :
          /\ state' = Claim(s, m.gen, retry)
          /\ sids' = IF s.sid > sids THEN s.sid ELSE sids
          /\ m' = [NoPoll EXCEPT !.pc = "reack", !.sid = s.sid,
                                 !.nonce = m.nonce, !.gens = gens,
                                 !.unacked = s.unacked, !.torch = asked]
    BY <1>5 DEF PollApplies
  <2> HIDE DEF s, gens
  <2>2. m' \in Polls
    BY <1>0, <1>2, <1>3, <2>1, NoneIs DEF Polls, Serving
  <2> QED BY <1>2, <1>3, <2>1, <2>2 DEF Typed
<1> QED BY <1>4, <1>5

LEMMA TypedStep == ASSUME IInv, [Next]_vars PROVE Typed'
<1>0. /\ Typed /\ MaxGen \in Nat /\ MaxTrouble \in Nat
      /\ inc \in Nat /\ m \in Polls /\ i \in Incidents /\ state \in States
  BY Constants DEF IInv, Typed, Incs
<1>1. CASE PeerSignals
  <2>1. gen' \in 0..MaxGen  BY <1>0, <1>1 DEF PeerSignals, Typed
  <2>2. key' \in BOOLEAN  BY <1>0, <1>1, Zenon DEF PeerSignals, Typed
  <2> QED BY <1>0, <1>1, <2>1, <2>2 DEF PeerSignals, Typed, serverVars,
             stateVars, mainVars, monitorVars, history
<1>2. CASE TorchSignals
  BY <1>0, <1>2, WrongTyped DEF TorchSignals, Typed, serverVars, stateVars,
     mainVars, monitorVars, history
<1>3. CASE Restart
  <2>1. inc' \in Incs /\ trouble' \in 0..MaxTrouble
    BY <1>0, <1>3 DEF Restart, GoesWrong, Typed, Incs, IInv, Servers
  <2>2. gen' = 0 /\ key' = FALSE  BY <1>3 DEF Restart
  <2>3. gen' \in 0..MaxGen
    BY <1>0, <2>2
  <2>4. key' \in BOOLEAN
    BY <2>2, Zenon
  <2> QED BY <1>0, <1>3, <2>1, <2>3, <2>4 DEF Restart, Typed, serverVars,
             stateVars, mainVars, monitorVars, history
<1>4. CASE AttachReads
  <2>1. a' \in Attaches
    BY <1>0, <1>4 DEF AttachReads, NoAttach, Typed, Attaches
  <2> QED BY <1>0, <1>4, <2>1 DEF AttachReads, Typed, serverVars, stateVars,
             mainVars, monitorVars, history
<1>5. CASE AttachFails
  <2>1. a' \in Attaches
    BY <1>0, <1>5, NoneIs DEF AttachFails, Attaches
  <2> QED BY <1>0, <1>5, <2>1, WrongTyped DEF AttachFails, Typed, serverVars,
             stateVars, mainVars, monitorVars, history
<1>6. CASE AttachApplies
  <2>1. \/ UNCHANGED stateVars
        \/ \E n \in Nat, b \in Bases, seen \in BOOLEAN :
             SetState(NewState(sids + 1, n, b, seen))
    <3>1. /\ a.nonce \in Nat /\ a.gen \in Bases /\ a.key \in BOOLEAN
          /\ 0 \in Bases /\ None \in Bases /\ 0 \in Nat /\ FALSE \in BOOLEAN
      BY Constants, <1>0 DEF Typed, Attaches, Bases, None
    <3> QED BY <1>6, <3>1 DEF AttachApplies
  <2>2. state' \in States /\ sids' \in Nat
    <3>1. sids + 1 \in Nat /\ state \in States /\ sids \in Nat
      BY <1>0 DEF Typed
    <3>2. ASSUME NEW n \in Nat, NEW b \in Bases, NEW seen \in BOOLEAN
          PROVE  /\ NewState(sids + 1, n, b, seen) \in States
                 /\ NewState(sids + 1, n, b, seen).sid = sids + 1
      BY <3>1, NewStateIs
    <3> QED BY <2>1, <3>1, <3>2 DEF SetState, stateVars
  <2> QED BY <1>0, <1>6, <2>2, NoneIs DEF AttachApplies, Typed, serverVars,
             stateVars, mainVars, monitorVars, history
<1>7. CASE Detach
  BY <1>0, <1>7, NoStateIs DEF Detach, Typed, serverVars, stateVars, mainVars,
     monitorVars, history
<1>8. CASE PollReadsKey
  <2>1. late' \subseteq Leftovers
    <3>1. \A l \in late : l \in Leftovers /\ [l EXCEPT !.monitor = FALSE] \in Leftovers
      BY <1>0 DEF Typed, Leftovers
    <3> QED BY <1>8, <3>1 DEF PollReadsKey
  <2>2. state.sid \in Nat /\ key \in BOOLEAN  BY <1>0 DEF Typed, States
  <2>3. \/ m' = [NoPoll EXCEPT !.pc = "gen", !.sid = state.sid, !.nonce = inc,
                               !.key = key] /\ conn' = inc
        \/ m' = m /\ conn' = 0
    BY <1>8 DEF PollReadsKey
  <2>4. m' \in Polls /\ conn' \in Nat
    <3>1. ASSUME NEW k \in BOOLEAN
          PROVE  [NoPoll EXCEPT !.pc = "gen", !.sid = state.sid, !.nonce = inc,
                                !.key = k] \in Polls
      BY <1>0, <2>2, NoneIs DEF Polls
    <3>2. m' \in Polls  BY <1>0, <2>2, <2>3, <3>1, Zenon
    <3>3. conn' \in Nat  BY <1>0, <2>3
    <3> QED BY <3>2, <3>3
  <2> QED BY <1>0, <1>8, <2>1, <2>4 DEF PollReadsKey, Typed, serverVars,
             stateVars, mainVars, monitorVars, history
<1>9. CASE PollReadsGen
  <2>0. gen \in 0..MaxGen /\ conn \in Nat  BY <1>0 DEF Typed
  <2>1. m' \in Polls /\ conn' \in Nat
    <3>1. \/ m' = [m EXCEPT !.pc = "seen", !.gen = gen] /\ conn' = conn
          \/ m' = NoPoll /\ conn' = 0
      BY <1>9 DEF PollReadsGen
    <3>2. [m EXCEPT !.pc = "seen", !.gen = gen] \in Polls
      BY <1>0, <2>0 DEF Polls
    <3> QED BY <2>0, <3>1, <3>2, NoneIs
  <2> QED BY <1>0, <1>9, <2>1 DEF PollReadsGen, Typed, serverVars, stateVars,
             mainVars, monitorVars, history
<1>10. CASE PollOverruns
  <2>1. Leftover("read", conn, {}, TRUE) \subseteq Leftovers
    BY <1>0, LeftoverIs DEF Typed
  <2> QED BY <1>0, <1>10, <2>1, NoneIs, WrongTyped DEF PollOverruns, Typed,
             serverVars, stateVars, mainVars, monitorVars, history
<1>11. ASSUME NEW retry \in BOOLEAN, PollApplies(retry) PROVE Typed'
  <2>1. state' \in States /\ sids' \in Nat /\ m' \in Polls
    BY <1>11, PollAppliesTyped DEF IInv
  <2> QED BY <1>0, <1>11, <2>1 DEF PollApplies, Typed, serverVars, stateVars,
             mainVars, monitorVars, history
<1>12. CASE Reacks
  <2>1. m' \in Polls
    BY <1>0, <1>12, NoneIs DEF Reacks, AfterAcks, Polls, Serving
  <2>2. m.unacked \in SUBSET Gens  BY <1>0 DEF Polls
  <2>3. acks' \subseteq Incs \X Gens
    BY <1>0, <1>12, <2>2, AcksIs DEF Reacks, Typed
  <2>4. state' \in States
    BY <1>0, <1>12 DEF Reacks, States
  <2>5. conn' \in Nat /\ late' \subseteq Leftovers /\ trouble' \in 0..MaxTrouble
    BY <1>0, <1>12, <2>2, CallTyped DEF Reacks, CallAnswers, Typed
  <2>6. straddled' \in SUBSET Nat
    BY <1>0, <1>12, StraddlesTyped DEF Reacks, Typed
  <2> QED BY <1>0, <1>12, <2>1, <2>3, <2>4, <2>5, <2>6 DEF Reacks, Typed, mainVars
<1>13. CASE AsksSignaller
  <2>1. m' \in Polls
    BY <1>0, <1>13 DEF AsksSignaller, Polls, Serving
  <2>2. conn' \in Nat /\ late' \subseteq Leftovers /\ trouble' \in 0..MaxTrouble
    BY <1>0, <1>13, CallTyped DEF AsksSignaller, CallAnswers, Typed
  <2> QED BY <1>0, <1>13, <2>1, <2>2 DEF AsksSignaller, Typed, serverVars,
             stateVars, mainVars, monitorVars, history
<1>14. CASE MonitorDumps
  <2>1. m' \in Polls
    BY <1>0, <1>14 DEF MonitorDumps, Polls, Serving
  <2> QED BY <1>0, <1>14, <2>1, DumpTyped DEF MonitorDumps, Typed, serverVars,
             stateVars, mainVars, monitorVars, history
<1>15. CASE MonitorAcks
  <2>1. m' \in Polls
    BY <1>0, <1>15 DEF MonitorAcks, Polls, Serving
  <2>2. m.gens \in SUBSET Gens  BY <1>0 DEF Polls
  <2>3. acks' \subseteq Incs \X Gens
    BY <1>0, <1>15, <2>2, AcksIs DEF MonitorAcks, Typed
  <2>4. conn' \in Nat /\ late' \subseteq Leftovers /\ trouble' \in 0..MaxTrouble
    BY <1>0, <1>15, <2>2, CallTyped DEF MonitorAcks, CallAnswers, Typed
  <2>5. straddled' \in SUBSET Nat
    BY <1>0, <1>15, StraddlesTyped DEF MonitorAcks
  <2> QED BY <1>0, <1>15, <2>1, <2>3, <2>4, <2>5
          DEF MonitorAcks, Typed, mainVars, stateVars
<1>16. CASE MonitorFinishes
  <2>1. state' \in States
    BY <1>0, <1>16, FinishOnTyped DEF MonitorFinishes, Polls
  <2> QED BY <1>0, <1>16, <2>1, NoneIs DEF MonitorFinishes, Typed, serverVars,
             stateVars, mainVars, monitorVars, history
<1>17. CASE DumpsForTorch
  <2>1. state' \in States
    BY <1>0, <1>17 DEF DumpsForTorch, States
  <2> QED BY <1>0, <1>17, <2>1, NoneIs, DumpTyped DEF DumpsForTorch, Typed,
             serverVars, stateVars, mainVars, monitorVars, history
<1>18. CASE SignalAdds
  <2>1. gen' \in 0..MaxGen  BY <1>0, <1>18 DEF SignalAdds, Typed
  <2>2. i' \in Incidents
    BY <1>0, <1>18, <2>1, NoneIs DEF SignalAdds, Incidents
  <2> QED BY <1>0, <1>18, <2>1, <2>2 DEF SignalAdds, Typed, serverVars,
             stateVars, mainVars, monitorVars, history
<1>19. CASE SignalSets
  <2>1. i' \in Incidents
    <3>1. \/ i' = [i EXCEPT !.pc = "claim"]
          \/ i' = [i EXCEPT !.pc = "dump", !.gen = 0]
      BY <1>19 DEF SignalSets
    <3>2. [i EXCEPT !.pc = "claim"] \in Incidents
      BY <1>0 DEF Incidents
    <3>3. [i EXCEPT !.pc = "dump", !.gen = 0] \in Incidents
      <4>1. 0 \in 0..MaxGen  BY <1>0
      <4> QED BY <1>0, <4>1 DEF Incidents, Claimed
    <3> QED BY <3>1, <3>2, <3>3
  <2>2. key' \in BOOLEAN  BY <1>0, <1>19 DEF SignalSets, Typed
  <2> QED BY <1>0, <1>19, <2>1, <2>2 DEF SignalSets, Typed, serverVars,
             stateVars, mainVars, monitorVars, history
<1>20. CASE SignalGivenUp
  <2>1. i' \in Incidents
    BY <1>0, <1>20, NoneIs DEF SignalGivenUp, Incidents, Claimed
  <2>2. /\ Leftover("add", inc, {}, FALSE) \subseteq Leftovers
        /\ Leftover("set", i.inc, {}, FALSE) \subseteq Leftovers
    BY <1>0, LeftoverIs DEF Incidents
  <2>3. late' \subseteq Leftovers
    BY <1>0, <1>20, <2>2 DEF SignalGivenUp, Typed
  <2> QED BY <1>0, <1>20, <2>1, <2>3, WrongTyped DEF SignalGivenUp, Typed,
             serverVars, stateVars, mainVars, monitorVars, history
<1>21. ASSUME NEW retry \in BOOLEAN, IncidentClaims(retry) PROVE Typed'
  <2>0. i.gen \in 0..MaxGen /\ i.gen # 0
    BY <1>0, <1>21 DEF IncidentClaims, Incidents, IInv, Identity
  <2>1. state' \in States
    BY <1>0, <1>21, <2>0, ClaimIs DEF IncidentClaims
  <2>2. i' \in Incidents
    <3>1. {i.gen} \in SUBSET Gens /\ Claimable(state, i.gen, retry) \in SUBSET Gens
      BY <1>0, <1>21, <2>0, ClaimIs DEF Gens
    <3> QED BY <1>0, <1>21, <3>1 DEF IncidentClaims, Incidents, Claimed, States
  <2>3. straddled' \in SUBSET Nat
    <3>1. state.nonce \in Nat /\ i.inc \in Nat
      BY <1>0 DEF Typed, States, Incidents
    <3> QED BY <1>0, <1>21, <3>1 DEF IncidentClaims, Typed
  <2> QED BY <1>0, <1>21, <2>1, <2>2, <2>3 DEF IncidentClaims, Typed, serverVars,
             stateVars, mainVars, monitorVars, history
<1>22. CASE IncidentDumps
  <2>1. i' \in Incidents
    BY <1>0, <1>22, NoneIs DEF IncidentDumps, Incidents, Claimed
  <2> QED BY <1>0, <1>22, <2>1, DumpTyped DEF IncidentDumps, Typed, serverVars,
             stateVars, mainVars, monitorVars, history
<1>23. CASE IncidentAcks
  <2>1. i' \in Incidents
    BY <1>0, <1>23 DEF IncidentAcks, Incidents, Claimed
  <2>2. i.gens \cup {i.gen} \in SUBSET Gens /\ i.inc \in Nat
    BY <1>0, <1>23 DEF IncidentAcks, Incidents, IInv, Identity, Gens
  <2>3. /\ Acks(i.gens \cup {i.gen}) \subseteq Incs \X Gens
        /\ Leftover("ack", i.inc, i.gens \cup {i.gen}, FALSE) \subseteq Leftovers
    BY <1>0, <2>2, AcksIs, LeftoverIs DEF Typed
  <2>4. acks' \subseteq Incs \X Gens /\ late' \subseteq Leftovers
    BY <1>0, <1>23, <2>3 DEF IncidentAcks, Typed
  <2>5. trouble' \in 0..MaxTrouble
    BY <1>0, <1>23, WrongTyped DEF IncidentAcks, Typed
  <2> QED BY <1>0, <1>23, <2>1, <2>4, <2>5 DEF IncidentAcks, Typed, serverVars,
             stateVars, mainVars, monitorVars, history
<1>24. CASE IncidentFinishes
  <2>1. state' \in States
    BY <1>0, <1>24, FinishOnTyped DEF IncidentFinishes, Incidents
  <2> QED BY <1>0, <1>24, <2>1, NoneIs DEF IncidentFinishes, Typed, serverVars,
             stateVars, mainVars, monitorVars, history
<1>25. ASSUME NEW l \in late, LateLands(l) PROVE Typed'
  <2>0. l \in Leftovers /\ l.gens \in SUBSET Gens
    BY <1>0 DEF Typed, Leftovers
  <2>1. late' \subseteq Leftovers
    <3>1. [l EXCEPT !.op = "set"] \in Leftovers  BY <2>0 DEF Leftovers
    <3> QED BY <1>0, <1>25, <3>1 DEF LateLands, Typed
  <2>2. acks' \subseteq Incs \X Gens
    BY <1>0, <1>25, <2>0, AcksIs DEF LateLands, Typed, serverVars
  <2>3. inc' = inc /\ gen' \in 0..MaxGen
    BY <1>0, <1>25 DEF LateLands, Typed, serverVars
  <2>4. key' \in BOOLEAN
    BY <1>0, <1>25 DEF LateLands, Typed, serverVars
  <2> QED BY <1>0, <1>25, <2>1, <2>2, <2>3, <2>4
          DEF LateLands, Typed, stateVars, mainVars, history
<1>27. CASE AttachReadsKey
  <2>1. a' \in Attaches
    BY <1>0, <1>27, NoneIs DEF AttachReadsKey, NoAttach, Typed, Attaches
  <2> QED BY <1>0, <1>27, <2>1 DEF AttachReadsKey, Typed, serverVars, stateVars,
             mainVars, monitorVars, history
<1>26. CASE UNCHANGED vars
  BY <1>26 DEF IInv, Typed, serverVars, stateVars, mainVars, monitorVars,
     history, vars
<1> QED BY <1>1, <1>2, <1>3, <1>4, <1>5, <1>6, <1>7, <1>8, <1>9, <1>10, <1>11,
           <1>12, <1>13, <1>14, <1>15, <1>16, <1>17, <1>18, <1>19, <1>20, <1>21,
           <1>22, <1>23, <1>24, <1>25, <1>26, <1>27 DEF Next, Monitor, Reporter,
           Environment
-----------------------------------------------------------------------------
(* What steps do to the state and the claims.                               *)

\* The same state but for what the watch on torch's key has seen.
SameState(s, t) ==
  /\ s.sid = t.sid /\ s.nonce = t.nonce /\ s.base = t.base /\ s.high = t.high
  /\ s.done = t.done /\ s.pending = t.pending /\ s.failed = t.failed
  /\ s.unacked = t.unacked

\* The monitor's answer is moot, is the first reading of a store, or is
\* claimed from the state or from the one that replaces it after a restart.
Applied(s, retry) ==
  /\ m.pc = "seen" /\ m.sid = state.sid /\ state.nonce # 0
  /\ state' = Claim(s, m.gen, retry)
  /\ \/ SameState(s, state) /\ m.nonce = state.nonce /\ sids' = IF s.sid > sids THEN s.sid ELSE sids
     \/ /\ SameState(s, NewState(sids + 1, m.nonce, 0, FALSE))
        /\ m.nonce # state.nonce /\ sids' = sids + 1
  /\ m'.pc = "reack" /\ m'.sid = s.sid /\ m'.nonce = m.nonce
  /\ m'.gens = Claimable(s, m.gen, retry) /\ m'.unacked = s.unacked
  /\ m'.dumped = FALSE

LEMMA PollAppliesIs ==
  ASSUME Typed, NEW retry \in BOOLEAN, PollApplies(retry)
  PROVE  \/ m' = NoPoll /\ UNCHANGED stateVars
         \/ /\ m' = NoPoll /\ m.pc = "seen" /\ m.sid = state.sid /\ state.nonce = 0
            /\ state' = NewState(sids + 1, m.nonce, m.gen, m.key)
            /\ sids' = sids + 1
         \/ \E s \in States : Applied(s, retry)
<1> DEFINE s0 == Replaced(m.nonce)
           s == [s0 EXCEPT !.torch = IF m.gen # s0.first THEN "seen" ELSE @]
           gens == Claimable(s, m.gen, retry)
           new == NewState(sids + 1, m.nonce, 0, FALSE)
<1>0. /\ m \in Polls /\ m.nonce \in Nat /\ m.gen \in 0..MaxGen /\ m.gen \in Bases
      /\ 0 \in Bases /\ sids + 1 \in Nat /\ m.key \in BOOLEAN /\ state \in States
      /\ sids \in Nat
  BY Constants DEF Typed, Polls, Bases, None
<1>1. new \in States /\ new.sid = sids + 1
  <2>1. new.sid = sids + 1
    BY DEF NewState, NoState
  <2>2. new \in States
    BY <1>0, NewStateIs
  <2> QED BY <2>1, <2>2
<1>2. s0 = IF m.nonce = state.nonce THEN state ELSE new
  BY DEF Replaced
<1>3. s0 \in States
  BY <1>0, <1>1, <1>2
<1> HIDE DEF s0
<1>4. s \in States /\ SameState(s, s0)
  BY <1>3 DEF States, SameState
<1>5. CASE m' = NoPoll
  <2>1. \/ UNCHANGED stateVars
        \/ /\ m.pc = "seen" /\ m.sid = state.sid /\ state.nonce = 0
           /\ SetState(NewState(sids + 1, m.nonce, m.gen, m.key))
    BY <1>5 DEF PollApplies, NoPoll
  <2>2. NewState(sids + 1, m.nonce, m.gen, m.key).sid = sids + 1
    BY DEF NewState, NoState
  <2> QED BY <1>5, <2>1, <2>2 DEF SetState
<1>6. CASE m' # NoPoll
  <2>1. PICK asked \in BOOLEAN :
          /\ m.pc = "seen" /\ m.sid = state.sid /\ state.nonce # 0
          /\ state' = Claim(s, m.gen, retry)
          /\ sids' = IF s.sid > sids THEN s.sid ELSE sids
          /\ m' = [NoPoll EXCEPT !.pc = "reack", !.sid = s.sid,
                                 !.nonce = m.nonce, !.gens = gens,
                                 !.unacked = s.unacked, !.torch = asked]
    BY <1>6 DEF PollApplies, s0
  <2> HIDE DEF s, gens
  <2>2. /\ m'.pc = "reack" /\ m'.sid = s.sid /\ m'.nonce = m.nonce
        /\ m'.gens = gens /\ m'.unacked = s.unacked /\ m'.dumped = FALSE
    BY <2>1 DEF NoPoll
  <2>3. CASE m.nonce = state.nonce
    BY <1>2, <1>4, <2>1, <2>2, <2>3 DEF Applied, gens
  <2>4. CASE m.nonce # state.nonce
    <3>1. SameState(s, new)  BY <1>2, <1>4, <2>4
    <3> HIDE DEF new
    <3>2. sids' = sids + 1
      BY <1>0, <1>1, <2>1, <3>1 DEF SameState
    <3> QED BY <1>4, <2>1, <2>2, <2>4, <3>1, <3>2 DEF Applied, gens, new
  <2> QED BY <2>3, <2>4
<1> QED BY <1>5, <1>6

\* Attaching leaves the state alone or makes a new one, with the baseline it
\* read, none, or that of a server that restarted.
LEMMA AttachAppliesIs ==
  ASSUME Typed, AttachApplies
  PROVE  \/ UNCHANGED stateVars
         \/ /\ sids' = sids + 1
            /\ \/ /\ a.ok = TRUE
                  /\ \/ state' = NewState(sids + 1, a.nonce, a.gen, a.key)
                     \/ state' = NewState(sids + 1, a.nonce, 0, FALSE)
               \/ state' = NewState(sids + 1, 0, None, FALSE)
<1>1. /\ a.nonce \in Nat /\ a.gen \in Bases /\ a.key \in BOOLEAN /\ a.ok \in BOOLEAN
      /\ 0 \in Bases /\ None \in Bases /\ FALSE \in BOOLEAN /\ sids + 1 \in Nat
  BY Constants DEF Typed, Attaches, Bases, None
<1>2. /\ NewState(sids + 1, a.nonce, a.gen, a.key).sid = sids + 1
      /\ NewState(sids + 1, a.nonce, 0, FALSE).sid = sids + 1
      /\ NewState(sids + 1, 0, None, FALSE).sid = sids + 1
  BY DEF NewState, NoState
<1>3. \/ UNCHANGED stateVars
      \/ a.ok /\ SetState(NewState(sids + 1, a.nonce, a.gen, a.key))
      \/ a.ok /\ SetState(NewState(sids + 1, a.nonce, 0, FALSE))
      \/ SetState(NewState(sids + 1, 0, None, FALSE))
  BY DEF AttachApplies
<1> QED BY <1>1, <1>2, <1>3 DEF SetState

\* A finish that does not reach the state leaves it alone.
LEMMA FinishOnIs ==
  ASSUME Typed, NEW sid, NEW gens \in SUBSET Gens, NEW dumped \in BOOLEAN,
         NEW acked \in BOOLEAN, FinishOn(sid, gens, dumped, acked)
  PROVE  IF sid # 0 /\ sid = state.sid THEN Finished(state, gens, dumped, state')
                                       ELSE state' = state
  BY FinishIs DEF FinishOn, Typed

LEMMA FinishOnKeeps ==
  ASSUME Typed, NEW sid, NEW gens \in SUBSET Gens, NEW dumped \in BOOLEAN,
         NEW acked \in BOOLEAN, FinishOn(sid, gens, dumped, acked)
  PROVE  /\ state'.sid = state.sid /\ state'.nonce = state.nonce
         /\ state'.base = None <=> state.base = None
  BY FinishOnIs DEF Finished

\* Servers are learnt from the one that runs, or from who knew them.
LEMMA ServersKeep ==
  ASSUME Servers, inc \in Nat, trouble \in Nat, inc' = inc,
         trouble' \in {trouble, trouble + 1},
         state'.nonce \in {state.nonce, m.nonce, a.nonce, 0},
         m'.nonce \in {m.nonce, inc, 0}, i'.inc \in {i.inc, inc, 0},
         a'.nonce \in {a.nonce, inc, 0}, conn' \in {conn, inc, 0},
         \A l \in late' : \/ l.inc \in {inc, i.inc, conn}
                          \/ \E k \in late : l.inc = k.inc,
         \A k \in acks' : k \in acks \/ k[1] = inc
  PROVE  Servers'
<1>1. inc' <= trouble' + 1
  <2>1. inc <= trouble + 1  BY DEF Servers
  <2>2. CASE trouble' = trouble  BY <2>1, <2>2
  <2>3. CASE trouble' = trouble + 1  BY <2>1, <2>3
  <2> QED BY <2>2, <2>3
<1>2. \A k \in acks' : k[1] <= inc
  BY DEF Servers
<1>3. state'.nonce <= inc /\ m'.nonce <= inc /\ i'.inc <= inc /\ a'.nonce <= inc
  BY DEF Servers
<1>4. (\A l \in late' : l.inc <= inc) /\ conn' <= inc
  BY DEF Servers
<1> QED BY <1>1, <1>2, <1>3, <1>4 DEF Servers

LEMMA ServersStep == ASSUME IInv, [Next]_vars PROVE Servers'
<1>0. /\ Typed /\ Servers /\ inc \in Nat /\ m \in Polls /\ i \in Incidents
      /\ state \in States /\ a \in Attaches /\ trouble \in Nat
      /\ i.gens \in SUBSET Gens /\ i.dumped \in BOOLEAN /\ i.acked \in BOOLEAN
      /\ m.gens \in SUBSET Gens /\ m.dumped \in BOOLEAN /\ m.acked \in BOOLEAN
      /\ i.gen \in 0..MaxGen /\ m.gen \in 0..MaxGen
  <2>1. /\ Typed /\ Servers /\ inc \in Nat /\ m \in Polls /\ i \in Incidents
        /\ state \in States /\ a \in Attaches /\ trouble \in Nat
    BY Constants DEF IInv, Typed, Incs
  <2>2. /\ i.gens \in SUBSET Gens /\ i.dumped \in BOOLEAN /\ i.acked \in BOOLEAN
        /\ i.gen \in 0..MaxGen
    BY <2>1 DEF Incidents
  <2>3. /\ m.gens \in SUBSET Gens /\ m.dumped \in BOOLEAN /\ m.acked \in BOOLEAN
        /\ m.gen \in 0..MaxGen
    BY <2>1 DEF Polls
  <2> QED BY <2>1, <2>2, <2>3
<1>1. CASE PeerSignals
  <2>1. UNCHANGED <<inc, trouble, state, a, m, conn, i, late, acks>>
    BY <1>1 DEF PeerSignals, serverVars, stateVars, mainVars, monitorVars, history
  <2> QED BY <1>0, <2>1, ServersKeep
<1>2. CASE TorchSignals
  <2>1. trouble' \in {trouble, trouble + 1}
    BY <1>2, <1>0 DEF TorchSignals, GoesWrong
  <2>2. UNCHANGED <<inc, state, a, m, conn, i, late, acks>>
    BY <1>2 DEF TorchSignals, serverVars, stateVars, mainVars, monitorVars, history
  <2> QED BY <1>0, <2>1, <2>2, ServersKeep
<1>3. CASE Restart
  <2>1. inc' = inc + 1 /\ trouble' = trouble + 1 /\ trouble \in Nat
    BY <1>3, <1>0 DEF Restart, GoesWrong, Typed
  <2>2. UNCHANGED <<acks, state, a, m, conn, i, late>>
    BY <1>3 DEF Restart, stateVars, mainVars, monitorVars
  <2>3. /\ acks \subseteq Incs \X Gens /\ late \subseteq Leftovers /\ conn \in Nat
        /\ Incs \subseteq Nat
    BY <1>0 DEF Typed, Incs
  <2>4. /\ state.nonce \in Nat /\ m.nonce \in Nat /\ i.inc \in Nat /\ a.nonce \in Nat
        /\ \A l \in late : l.inc \in Nat
        /\ \A k \in acks : k[1] \in Nat
    BY <1>0, <2>3 DEF States, Polls, Incidents, Attaches, Leftovers
  <2> QED BY <1>0, <2>1, <2>2, <2>3, <2>4 DEF Servers
<1>4. CASE AttachReads
  <2>1. a'.nonce = inc
    BY <1>4, <1>0 DEF AttachReads
  <2>2. UNCHANGED <<inc, trouble, state, m, conn, i, late, acks>>
    BY <1>4 DEF AttachReads, serverVars, stateVars, mainVars, monitorVars, history
  <2> QED BY <1>0, <2>1, <2>2, ServersKeep
<1>5. CASE AttachFails
  <2>1. a'.nonce = 0
    BY <1>5, <1>0 DEF AttachFails, NoAttach
  <2>2. trouble' \in {trouble, trouble + 1}
    BY <1>5, <1>0 DEF AttachFails, GoesWrong
  <2>3. UNCHANGED <<inc, state, m, conn, i, late, acks>>
    BY <1>5 DEF AttachFails, serverVars, stateVars, mainVars, monitorVars, history
  <2> QED BY <1>0, <2>1, <2>2, <2>3, ServersKeep
<1>6. CASE AttachApplies
  <2>1. state'.nonce \in {state.nonce, a.nonce, 0}
    <3>1. /\ NewState(sids + 1, a.nonce, a.gen, a.key).nonce = a.nonce
          /\ NewState(sids + 1, a.nonce, 0, FALSE).nonce = a.nonce
          /\ NewState(sids + 1, 0, None, FALSE).nonce = 0
      BY DEF NewState, NoState
    <3> QED BY <1>6, <1>0, <3>1, AttachAppliesIs DEF stateVars
  <2>2. a'.nonce = 0
    BY <1>6 DEF AttachApplies, NoAttach
  <2>3. UNCHANGED <<inc, trouble, m, conn, i, late, acks>>
    BY <1>6 DEF AttachApplies, serverVars, stateVars, mainVars, monitorVars, history
  <2> QED BY <1>0, <2>1, <2>2, <2>3, ServersKeep
<1>7. CASE Detach
  <2>1. state'.nonce \in {state.nonce, 0}
    BY <1>7, NoStateIs DEF Detach
  <2>2. UNCHANGED <<inc, trouble, a, m, conn, i, late, acks>>
    BY <1>7 DEF Detach, serverVars, stateVars, mainVars, monitorVars, history
  <2> QED BY <1>0, <2>1, <2>2, ServersKeep
<1>8. CASE PollReadsKey
  <2>1. m'.nonce \in {inc, m.nonce} /\ conn' \in {inc, 0}
    BY <1>8, <1>0 DEF PollReadsKey, NoPoll
  <2>2. \A l \in late : [l EXCEPT !.monitor = FALSE].inc = l.inc
    BY <1>0 DEF Typed, Leftovers
  <2>3. \A l \in late' : \E k \in late : l.inc = k.inc
    BY <1>8, <2>2 DEF PollReadsKey
  <2>4. UNCHANGED <<inc, trouble, state, a, i, acks>>
    BY <1>8 DEF PollReadsKey, serverVars, stateVars, mainVars, monitorVars, history
  <2> QED BY <1>0, <2>1, <2>2, <2>3, <2>4, ServersKeep
<1>9. CASE PollReadsGen
  <2>1. m'.nonce \in {0, m.nonce}
    <3>1. m' = [m EXCEPT !.pc = "seen", !.gen = gen] \/ m' = NoPoll
      BY <1>9 DEF PollReadsGen
    <3>2. [m EXCEPT !.pc = "seen", !.gen = gen].nonce = m.nonce
      BY <1>0 DEF Polls
    <3>3. NoPoll.nonce = 0  BY DEF NoPoll
    <3> QED BY <3>1, <3>2, <3>3
  <2>2. conn' \in {conn, 0}
    BY <1>9, <1>0 DEF PollReadsGen
  <2>3. UNCHANGED <<inc, trouble, state, a, i, late, acks>>
    BY <1>9 DEF PollReadsGen, serverVars, stateVars, mainVars, monitorVars, history
  <2> QED BY <1>0, <2>1, <2>2, <2>3, ServersKeep
<1>10. CASE PollOverruns
  <2>1. m'.nonce = 0 /\ conn' = 0
    BY <1>10, <1>0 DEF PollOverruns, NoPoll
  <2>2. \A l \in late' : l \in late \/ l.inc = conn
    BY <1>10, <1>0 DEF PollOverruns, Leftover
  <2>3. trouble' \in {trouble, trouble + 1}
    BY <1>10, <1>0 DEF PollOverruns, GoesWrong
  <2>4. UNCHANGED <<inc, state, a, i, acks>>
    BY <1>10 DEF PollOverruns, serverVars, stateVars, mainVars, monitorVars, history
  <2> QED BY <1>0, <2>1, <2>2, <2>3, <2>4, ServersKeep
<1>11. ASSUME NEW retry \in BOOLEAN, PollApplies(retry) PROVE Servers'
  <2>1. m'.nonce \in {0, m.nonce}
    <3>1. NoPoll.nonce = 0  BY DEF NoPoll
    <3> QED BY <1>11, <1>0, <3>1, PollAppliesIs DEF Applied
  <2>2. state'.nonce \in {state.nonce, m.nonce}
    <3>1. m.nonce \in Nat /\ m.gen \in Bases /\ m.gen \in 0..MaxGen
      BY <1>0, Constants DEF Polls, Bases, None
    <3>2. CASE \E s \in States : Applied(s, retry)
      <4>1. PICK s \in States : Applied(s, retry)  BY <3>2
      <4>2. state'.nonce = s.nonce
        BY <4>1, <3>1, ClaimIs DEF Applied
      <4>3. NewState(sids + 1, m.nonce, 0, FALSE).nonce = m.nonce
        BY DEF NewState, NoState
      <4> QED BY <4>1, <4>2, <4>3 DEF Applied, SameState
    <3>3. NewState(sids + 1, m.nonce, m.gen, m.key).nonce = m.nonce
      BY DEF NewState, NoState
    <3> QED BY <1>11, <1>0, <3>2, <3>3, PollAppliesIs DEF stateVars
  <2>3. UNCHANGED <<inc, trouble, a, conn, i, late, acks>>
    BY <1>11 DEF PollApplies, serverVars, stateVars, mainVars, monitorVars, history
  <2> QED BY <1>0, <2>1, <2>2, <2>3, ServersKeep
<1>12. CASE Reacks
  <2>1. m'.nonce \in {m.nonce, 0}
    BY <1>12, <1>0 DEF Reacks, NoPoll, Polls
  <2>2. state'.nonce = state.nonce
    BY <1>12, <1>0 DEF Reacks, States
  <2>3. /\ conn' \in {conn, inc, 0} /\ trouble' \in {trouble, trouble + 1}
        /\ \A l \in late' : l \in late \/ l.inc = inc
    BY <1>12, <1>0 DEF Reacks, CallAnswers, CallFails, GoesWrong, Leftover
  <2>4. \A k \in acks' : k \in acks \/ k[1] = inc
    BY <1>12, <1>0 DEF Reacks, Acks
  <2>5. UNCHANGED <<inc, a, i>>
    BY <1>12 DEF Reacks, serverVars, stateVars, mainVars, monitorVars, history
  <2> QED BY <1>0, <2>1, <2>2, <2>3, <2>4, <2>5, ServersKeep
<1>13. CASE AsksSignaller
  <2>1. m'.nonce = m.nonce
    BY <1>13, <1>0 DEF AsksSignaller, Polls
  <2>2. /\ conn' \in {conn, inc, 0} /\ trouble' \in {trouble, trouble + 1}
        /\ \A l \in late' : l \in late \/ l.inc = inc
    BY <1>13, <1>0 DEF AsksSignaller, CallAnswers, CallFails, GoesWrong, Leftover
  <2>3. UNCHANGED <<inc, state, a, i, acks>>
    BY <1>13 DEF AsksSignaller, serverVars, stateVars, mainVars, monitorVars,
       history
  <2> QED BY <1>0, <2>1, <2>2, <2>3, ServersKeep
<1>14. CASE MonitorDumps
  <2>1. m'.nonce = m.nonce
    BY <1>14, <1>0 DEF MonitorDumps, Polls
  <2>2. trouble' \in {trouble, trouble + 1}
    BY <1>14, <1>0 DEF MonitorDumps, DumpOk, DumpFails, GoesWrong
  <2>3. UNCHANGED <<inc, state, a, conn, i, late, acks>>
    BY <1>14 DEF MonitorDumps, serverVars, stateVars, mainVars, monitorVars, history
  <2> QED BY <1>0, <2>1, <2>2, <2>3, ServersKeep
<1>15. CASE MonitorAcks
  <2>1. m'.nonce = m.nonce
    BY <1>15, <1>0 DEF MonitorAcks, Polls
  <2>2. /\ conn' \in {conn, inc, 0} /\ trouble' \in {trouble, trouble + 1}
        /\ \A l \in late' : l \in late \/ l.inc = inc
    BY <1>15, <1>0 DEF MonitorAcks, CallAnswers, CallFails, GoesWrong, Leftover
  <2>3. \A k \in acks' : k \in acks \/ k[1] = inc
    BY <1>15, <1>0 DEF MonitorAcks, Acks
  <2>4. UNCHANGED <<inc, state, a, i>>
    BY <1>15 DEF MonitorAcks, serverVars, stateVars, mainVars, monitorVars, history
  <2> QED BY <1>0, <2>1, <2>2, <2>3, <2>4, ServersKeep
<1>16. CASE MonitorFinishes
  <2>1. m'.nonce = 0
    BY <1>16 DEF MonitorFinishes, NoPoll
  <2>2. state'.nonce = state.nonce
    <3>1. \A d, k \in BOOLEAN : \A g \in SUBSET Gens : \A sid :
            FinishOn(sid, g, d, k) => state'.nonce = state.nonce
      BY <1>0, FinishOnKeeps
    <3> QED BY <1>16, <1>0, <3>1 DEF MonitorFinishes
  <2>3. UNCHANGED <<inc, trouble, a, conn, i, late, acks>>
    BY <1>16 DEF MonitorFinishes, serverVars, stateVars, mainVars, monitorVars,
       history
  <2> QED BY <1>0, <2>1, <2>2, <2>3, ServersKeep
<1>17. CASE DumpsForTorch
  <2>1. m'.nonce = 0
    BY <1>17 DEF DumpsForTorch, NoPoll
  <2>2. state'.nonce = state.nonce
    BY <1>17, <1>0 DEF DumpsForTorch, States
  <2>3. trouble' \in {trouble, trouble + 1}
    BY <1>17, <1>0 DEF DumpsForTorch, DumpOk, DumpFails, GoesWrong
  <2>4. UNCHANGED <<inc, a, conn, i, late, acks>>
    BY <1>17 DEF DumpsForTorch, serverVars, stateVars, mainVars, monitorVars,
       history
  <2> QED BY <1>0, <2>1, <2>2, <2>3, <2>4, ServersKeep
<1>18. CASE SignalAdds
  <2>1. i'.inc = inc
    BY <1>18, <1>0 DEF SignalAdds, NoIncident
  <2>2. UNCHANGED <<inc, trouble, state, a, m, conn, late, acks>>
    BY <1>18 DEF SignalAdds, serverVars, stateVars, mainVars, monitorVars, history
  <2> QED BY <1>0, <2>1, <2>2, ServersKeep
<1>19. CASE SignalSets
  <2>1. i'.inc = i.inc
    BY <1>19, <1>0 DEF SignalSets, Incidents
  <2>2. UNCHANGED <<inc, trouble, state, a, m, conn, late, acks>>
    BY <1>19 DEF SignalSets, serverVars, stateVars, mainVars, monitorVars, history
  <2> QED BY <1>0, <2>1, <2>2, ServersKeep
<1>20. CASE SignalGivenUp
  <2>1. i'.inc = 0
    BY <1>20, <1>0 DEF SignalGivenUp, NoIncident
  <2>2. \A l \in late' : l \in late \/ l.inc \in {inc, i.inc}
    BY <1>20, <1>0 DEF SignalGivenUp, Leftover
  <2>3. trouble' \in {trouble, trouble + 1}
    BY <1>20, <1>0 DEF SignalGivenUp, GoesWrong
  <2>4. UNCHANGED <<inc, state, a, m, conn, acks>>
    BY <1>20 DEF SignalGivenUp, serverVars, stateVars, mainVars, monitorVars,
       history
  <2> QED BY <1>0, <2>1, <2>2, <2>3, <2>4, ServersKeep
<1>21. ASSUME NEW retry \in BOOLEAN, IncidentClaims(retry) PROVE Servers'
  <2>1. i'.inc = i.inc
    BY <1>21, <1>0 DEF IncidentClaims, Incidents
  <2>2. state'.nonce = state.nonce
    <3>1. CASE state.sid = 0
      BY <1>21, <3>1 DEF IncidentClaims
    <3>2. CASE state.sid # 0
      <4>1. state' = Claim(state, i.gen, retry)
        BY <1>21, <3>2 DEF IncidentClaims
      <4>2. PICK n : n = Claim(state, i.gen, retry)
        OBVIOUS
      <4>3. state \in States /\ i.gen \in 0..MaxGen /\ retry \in BOOLEAN
        BY <1>0, <1>21
      <4>4. n.nonce = state.nonce
        BY <4>2, <4>3, ClaimIs
      <4> QED BY <4>1, <4>2, <4>4
    <3> QED BY <3>1, <3>2
  <2>3. UNCHANGED <<inc, trouble, a, m, conn, late, acks>>
    BY <1>21 DEF IncidentClaims, serverVars, stateVars, mainVars, monitorVars,
       history
  <2> QED BY <1>0, <2>1, <2>2, <2>3, ServersKeep
<1>22. CASE IncidentDumps
  <2>1. i'.inc \in {0, i.inc}
    <3>1. \/ i' = [i EXCEPT !.pc = "ack", !.dumped = TRUE]
          \/ i' = [i EXCEPT !.pc = "finish"] \/ i' = NoIncident
      BY <1>22 DEF IncidentDumps
    <3>2. /\ [i EXCEPT !.pc = "ack", !.dumped = TRUE].inc = i.inc
          /\ [i EXCEPT !.pc = "finish"].inc = i.inc
      BY <1>0 DEF Incidents
    <3>3. NoIncident.inc = 0  BY DEF NoIncident
    <3> QED BY <3>1, <3>2, <3>3
  <2>2. trouble' \in {trouble, trouble + 1}
    BY <1>22, <1>0 DEF IncidentDumps, DumpOk, DumpFails, GoesWrong
  <2>3. UNCHANGED <<inc, state, a, m, conn, late, acks>>
    BY <1>22 DEF IncidentDumps, serverVars, stateVars, mainVars, monitorVars,
       history
  <2> QED BY <1>0, <2>1, <2>2, <2>3, ServersKeep
<1>23. CASE IncidentAcks
  <2>1. i'.inc = i.inc
    BY <1>23, <1>0 DEF IncidentAcks, Incidents
  <2>2. \A l \in late' : l \in late \/ l.inc = i.inc
    BY <1>23, <1>0 DEF IncidentAcks, Leftover
  <2>3. \A k \in acks' : k \in acks \/ k[1] = inc
    <3>1. acks' = acks \/ acks' = acks \cup Acks(i.gens \cup {i.gen})
      BY <1>23 DEF IncidentAcks
    <3> QED BY <3>1 DEF Acks
  <2>4. trouble' \in {trouble, trouble + 1}
    BY <1>23, <1>0 DEF IncidentAcks, GoesWrong
  <2>5. UNCHANGED <<inc, state, a, m, conn>>
    BY <1>23 DEF IncidentAcks, serverVars, stateVars, mainVars, monitorVars, history
  <2> QED BY <1>0, <2>1, <2>2, <2>3, <2>4, <2>5, ServersKeep
<1>24. CASE IncidentFinishes
  <2>1. i'.inc = 0
    BY <1>24 DEF IncidentFinishes, NoIncident
  <2>2. state'.nonce = state.nonce
    <3>1. \A d, k \in BOOLEAN : \A g \in SUBSET Gens : \A sid :
            FinishOn(sid, g, d, k) => state'.nonce = state.nonce
      BY <1>0, FinishOnKeeps
    <3> QED BY <1>24, <1>0, <3>1 DEF IncidentFinishes
  <2>3. UNCHANGED <<inc, trouble, a, m, conn, late, acks>>
    BY <1>24 DEF IncidentFinishes, serverVars, stateVars, mainVars, monitorVars,
       history
  <2> QED BY <1>0, <2>1, <2>2, <2>3, ServersKeep
<1>25. ASSUME NEW l \in late, LateLands(l) PROVE Servers'
  <2>1. \A k \in acks' : k \in acks \/ k[1] = inc
    BY <1>25, <1>0 DEF LateLands, Acks, serverVars
  <2>2. [l EXCEPT !.op = "set"].inc = l.inc
    BY <1>25, <1>0 DEF Typed, Leftovers
  <2>3. late' \subseteq late \cup {[l EXCEPT !.op = "set"]}
    BY <1>25 DEF LateLands
  <2>4. inc' = inc
    BY <1>25, <1>0 DEF LateLands, serverVars
  <2>5. UNCHANGED <<trouble, state, a, m, conn, i>>
    BY <1>25 DEF LateLands, serverVars, stateVars, mainVars, monitorVars, history
  <2> QED BY <1>0, <2>1, <2>2, <2>3, <2>4, <2>5, ServersKeep
<1>27. CASE AttachReadsKey
  <2>1. a'.nonce \in {0, inc}
    BY <1>27, <1>0 DEF AttachReadsKey, NoAttach, Typed, Attaches
  <2>2. UNCHANGED <<inc, trouble, state, m, conn, i, late, acks>>
    BY <1>27 DEF AttachReadsKey, serverVars, stateVars, mainVars, monitorVars,
       history
  <2> QED BY <1>0, <2>1, <2>2, ServersKeep
<1>26. CASE UNCHANGED vars
  BY <1>26, <1>0 DEF Servers, serverVars, stateVars, mainVars, monitorVars,
     history, vars
<1> QED BY <1>1, <1>2, <1>3, <1>4, <1>5, <1>6, <1>7, <1>8, <1>9, <1>10, <1>11,
           <1>12, <1>13, <1>14, <1>15, <1>16, <1>17, <1>18, <1>19, <1>20, <1>21,
           <1>22, <1>23, <1>24, <1>25, <1>26, <1>27 DEF Next, Monitor, Reporter,
           Environment
-----------------------------------------------------------------------------
(* A claim and a finish leave a whole state whole.                          *)

LEMMA ClaimableIs ==
  ASSUME NEW s \in States, NEW upto \in 0..MaxGen, NEW retry \in BOOLEAN,
         s.base # None, NEW g
  PROVE  g \in Claimable(s, upto, retry) <=>
           /\ (g \in Nat /\ Top(s) < g /\ g <= upto) \/ (retry /\ g \in s.failed)
           /\ g \notin s.done /\ g \notin s.pending
<1>1. Top(s) \in Nat /\ upto \in Nat
  BY TopIs, Constants DEF Bases, None
<1>2. g \in (Top(s) + 1)..upto <=> g \in Nat /\ Top(s) < g /\ g <= upto
  BY <1>1
<1> HIDE <1>1
<1> QED BY <1>2 DEF Claimable

LEMMA ClaimWhole ==
  ASSUME NEW s \in States, NEW upto \in 0..MaxGen, NEW retry \in BOOLEAN,
         NEW mine, NEW its, WholeOf(s, mine, its),
         NEW n, n = Claim(s, upto, retry)
  PROVE  LET C == Claimable(s, upto, retry)
         IN /\ C \cap (mine \cup its) = {}
            /\ n.pending = mine \cup its \cup C
            /\ Sound(n)
<1> DEFINE C == Claimable(s, upto, retry)
<1>1. CASE s.base = None
  BY <1>1, ClaimIs DEF WholeOf, Sound
<1>2. CASE s.base # None
  <2>1. /\ n.base = s.base /\ n.done = s.done /\ n.unacked = s.unacked
        /\ n.failed = IF retry THEN {} ELSE s.failed
        /\ n.pending = s.pending \cup C
        /\ Top(n) = IF upto > Top(s) THEN upto ELSE Top(s)
    BY <1>2, ClaimIs
  <2>2. \A g : g \in C <=>
          /\ (g \in Nat /\ Top(s) < g /\ g <= upto) \/ (retry /\ g \in s.failed)
          /\ g \notin s.done /\ g \notin s.pending
    BY <1>2, ClaimableIs
  <2>3. /\ Top(s) \in Nat /\ s.base \in Nat /\ Top(s) >= s.base /\ Top(s) <= MaxGen
        /\ upto \in Nat /\ upto <= MaxGen /\ MaxGen \in Nat
    BY <1>2, TopIs, Constants DEF Bases, None, States, WholeOf, Sound
  <2>4. /\ s.pending = mine \cup its /\ s.done \cap (s.pending \cup s.failed) = {}
        /\ s.pending \cap s.failed = {}
        /\ (s.base + 1)..Top(s) = s.done \cup s.pending \cup s.failed
    BY <1>2 DEF WholeOf, Sound
  <2> HIDE DEF C
  <2>5. C \cap (mine \cup its) = {} /\ n.pending = mine \cup its \cup C
    BY <2>1, <2>2, <2>4
  <2>6. n.done \cap (n.pending \cup n.failed) = {} /\ n.pending \cap n.failed = {}
    <3>1. \A g \in s.failed : g \in Nat /\ g <= Top(s)
      BY <2>3, <2>4
    <3> QED BY <2>1, <2>2, <2>3, <2>4, <3>1
  <2>7. (n.base + 1)..Top(n) = n.done \cup n.pending \cup n.failed
    <3>1. ASSUME NEW g \in (n.base + 1)..Top(n)
          PROVE  g \in n.done \cup n.pending \cup n.failed
      <4>1. g \in Nat /\ g >= s.base + 1 /\ (g <= Top(s) \/ g <= upto)
        BY <2>1, <2>3, <3>1
      <4>2. CASE g <= Top(s)
        BY <2>1, <2>2, <2>3, <2>4, <4>1, <4>2
      <4>3. CASE ~(g <= Top(s))
        BY <2>1, <2>2, <2>3, <4>1, <4>3
      <4> QED BY <4>2, <4>3
    <3>2. ASSUME NEW g \in n.done \cup n.pending \cup n.failed
          PROVE  g \in (n.base + 1)..Top(n)
      <4>1. \/ g \in (s.base + 1)..Top(s)
            \/ g \in Nat /\ Top(s) < g /\ g <= upto
        BY <2>1, <2>2, <2>4, <3>2
      <4> QED BY <2>1, <2>3, <4>1
    <3> QED BY <3>1, <3>2
  <2>8. Top(n) <= MaxGen
    BY <2>1, <2>3
  <2> QED BY <1>2, <2>1, <2>5, <2>6, <2>7, <2>8 DEF C, Sound
<1> QED BY <1>1, <1>2

LEMMA FinishWhole ==
  ASSUME NEW s \in States, NEW n \in States, NEW mine \in SUBSET Gens, NEW its,
         NEW dumped \in BOOLEAN,
         WholeOf(s, mine, its), Finished(s, mine, dumped, n)
  PROVE  /\ n.pending = its
         /\ Sound(n)
         /\ n.base # None => Top(n) = Top(s)
<1>1. CASE mine = {}
  BY <1>1 DEF Finished, WholeOf, Sound
<1>2. CASE mine # {}
  <2>0. s.base # None /\ n.base # None
    BY <1>2 DEF Finished, WholeOf, Sound
  <2>1. /\ Top(s) \in Nat /\ s.base \in 0..MaxGen /\ Top(s) >= s.base
        /\ Top(s) <= MaxGen /\ MaxGen \in Nat /\ s.high \in Nat
        /\ Top(s) >= s.high /\ Top(s) \in {s.base, s.high}
    BY <2>0, TopIs, Constants DEF Bases, None, States, WholeOf, Sound
  <2>2. /\ s.pending = mine \cup its /\ s.done \cap (s.pending \cup s.failed) = {}
        /\ mine \cap its = {} /\ s.pending \cap s.failed = {}
        /\ (s.base + 1)..Top(s) = s.done \cup s.pending \cup s.failed
    BY <2>0 DEF WholeOf, Sound
  <2>3. CASE ~dumped
    <3>1. /\ n.base = s.base /\ n.done = s.done /\ n.high = s.high
          /\ n.pending = s.pending \ mine /\ n.failed = s.failed \cup mine
      BY <1>2, <2>3 DEF Finished
    <3>2. Top(n) = Top(s)
      BY <3>1 DEF Top
    <3> QED BY <2>0, <2>1, <2>2, <3>1, <3>2 DEF Sound
  <2>4. CASE dumped
    <3> DEFINE done == s.done \cup mine
    <3>1. /\ n.pending = s.pending \ mine /\ n.failed = s.failed \ mine
          /\ n.high = s.high /\ n.base = NewBase(s, done)
          /\ n.done = {g \in done : g > n.base}
      BY <1>2, <2>0, <2>4 DEF Finished
    <3>2. n.base \in s.base..MaxGen /\ (s.base + 1)..n.base \subseteq done
      <4>1. done \in SUBSET Gens  BY DEF States
      <4> HIDE DEF done
      <4> QED BY <2>0, <3>1, <4>1, BaseMoves
    <3>3. n.pending = its /\ n.failed = s.failed
      BY <2>2, <3>1
    <3>4. n.base <= Top(s)
      <4>1. CASE n.base = s.base  BY <2>1, <4>1
      <4>2. CASE n.base # s.base
        <5>1. n.base \in (s.base + 1)..n.base
          BY <2>1, <3>2, <4>2
        <5>2. n.base \in (s.base + 1)..Top(s)
          BY <2>2, <3>2, <5>1
        <5> QED BY <2>1, <5>2
      <4> QED BY <4>1, <4>2
    <3>5. Top(n) = Top(s)
      <4>1. n.base \in Nat  BY <2>1, <3>2
      <4>2. Top(n) = IF s.high > n.base THEN s.high ELSE n.base
        BY <3>1 DEF Top
      <4>3. Top(s) = IF s.high > s.base THEN s.high ELSE s.base
        BY DEF Top
      <4>4. s.base <= n.base  BY <2>1, <3>2
      <4> QED BY <2>1, <3>4, <4>1, <4>2, <4>3, <4>4
    <3>6. (n.base + 1)..Top(n) = n.done \cup n.pending \cup n.failed
      <4>1. ASSUME NEW g \in (n.base + 1)..Top(n)
            PROVE  g \in n.done \cup n.pending \cup n.failed
        <5>1. g \in (s.base + 1)..Top(s) /\ g > n.base
          BY <2>1, <3>2, <3>5, <4>1
        <5> QED BY <2>2, <3>1, <3>3, <5>1
      <4>2. ASSUME NEW g \in n.done \cup n.pending \cup n.failed
            PROVE  g \in (n.base + 1)..Top(n)
        <5>1. g \in (s.base + 1)..Top(s)
          BY <2>2, <3>1, <3>3, <4>2
        <5>2. g > n.base
          <6>1. CASE g \in n.done  BY <3>1, <6>1
          <6>2. CASE g \in n.pending \cup n.failed
            <7>1. g \notin done
              BY <2>2, <3>3, <6>2
            <7>2. g \notin (s.base + 1)..n.base
              BY <3>2, <7>1
            <7> QED BY <2>1, <3>2, <5>1, <7>2
          <6> QED BY <4>2, <6>1, <6>2
        <5> QED BY <2>1, <3>2, <3>5, <5>1, <5>2
      <4> QED BY <4>1, <4>2
    <3>7. n.done \cap (n.pending \cup n.failed) = {} /\ n.pending \cap n.failed = {}
      BY <2>2, <3>1, <3>3
    <3> QED BY <2>0, <2>1, <3>3, <3>5, <3>6, <3>7 DEF Sound
  <2> QED BY <2>3, <2>4
<1> QED BY <1>1, <1>2

-----------------------------------------------------------------------------
(* What each step of the monitor and of the reporter does to the claims.    *)

LEMMA NoPollHas ==
  /\ NoPoll.pc = "sleep" /\ NoPoll.sid = 0 /\ NoPoll.nonce = 0
  /\ NoPoll.gens = {} /\ NoPoll.unacked = {} /\ NoPoll.dumped = FALSE
  BY DEF NoPoll

LEMMA NoIncidentHas ==
  /\ NoIncident.pc = "idle" /\ NoIncident.inc = 0 /\ NoIncident.gen = 0
  /\ NoIncident.sid = 0 /\ NoIncident.gens = {} /\ NoIncident.dumped = FALSE
  BY DEF NoIncident

\* The acknowledgements still on their way are those there were, and maybe
\* this one.
LateWas(l) == \E k \in late : l.op = k.op /\ l.inc = k.inc /\ l.gens = k.gens
LateKeeps == \A l \in late' : l.op = "ack" => LateWas(l)
LateGains(n, gens) ==
  \A l \in late' : l.op = "ack" => LateWas(l) \/ (l.inc = n /\ l.gens = gens)

LEMMA LeftoverHas ==
  ASSUME NEW op, NEW n, NEW gens, NEW mon,
         late' = late \cup Leftover(op, n, gens, mon)
  PROVE  LateGains(n, gens) /\ (op # "ack" => LateKeeps)
  BY DEF LateGains, LateKeeps, LateWas, Leftover

LEMMA LateSame == ASSUME late' = late PROVE LateKeeps
  BY DEF LateKeeps, LateWas

LEMMA CallFailsHas ==
  ASSUME NEW op, NEW gens, CallFails(op, gens)
  PROVE  LateGains(inc, gens) /\ (op # "ack" => LateKeeps)
  BY LeftoverHas, LateSame DEF CallFails, LateGains, LateKeeps

\* The monitor's claims as they were, at another step.
MonitorAt(pc) ==
  /\ m'.pc = pc /\ m'.sid = m.sid /\ m'.nonce = m.nonce /\ m'.gens = m.gens
  /\ m'.unacked \subseteq m.unacked
ReporterAt(pc) ==
  /\ i'.pc = pc /\ i'.sid = i.sid /\ i'.inc = i.inc /\ i'.gens = i.gens

Elsewhere == <<sids, a, i>>          \* what the monitor leaves alone
Aside == <<sids, a, m, conn>>        \* what the reporter leaves alone
Server == <<inc, gen, acks>>

LEMMA PollReadsKeyIs ==
  ASSUME Typed, PollReadsKey
  PROVE  /\ m.pc = "sleep" /\ state.sid # 0 /\ LateKeeps
         /\ \/ m' = m
            \/ /\ m'.pc = "gen" /\ m'.sid = state.sid /\ m'.nonce = inc
               /\ m'.gens = {} /\ m'.unacked = {} /\ m'.dumped = FALSE
               /\ conn' = inc
         /\ UNCHANGED <<Server, state, Elsewhere, history>>
<1>1. LateKeeps
  <2>1. \A l \in late : LET k == [l EXCEPT !.monitor = FALSE]
                        IN k.op = l.op /\ k.inc = l.inc /\ k.gens = l.gens
    BY DEF Typed, Leftovers
  <2> QED BY <2>1 DEF PollReadsKey, LateKeeps, LateWas
<1>2. \/ m' = m
      \/ /\ m'.pc = "gen" /\ m'.sid = state.sid /\ m'.nonce = inc
         /\ m'.gens = {} /\ m'.unacked = {} /\ m'.dumped = FALSE
         /\ conn' = inc
  BY DEF PollReadsKey, NoPoll
<1> QED BY <1>1, <1>2 DEF PollReadsKey, serverVars, stateVars, mainVars, history,
                          Server, Elsewhere

LEMMA PollReadsGenIs ==
  ASSUME Typed, PollReadsGen
  PROVE  /\ m.pc = "gen" /\ LateKeeps
         /\ \/ m' = NoPoll
            \/ /\ MonitorAt("seen") /\ m'.gen = gen /\ m'.dumped = m.dumped
               /\ conn = inc /\ conn' = conn
         /\ UNCHANGED <<Server, state, Elsewhere, history>>
<1>1. \/ m' = NoPoll
      \/ m' = [m EXCEPT !.pc = "seen", !.gen = gen] /\ conn = inc /\ conn' = conn
  BY DEF PollReadsGen
<1>2. LET n == [m EXCEPT !.pc = "seen", !.gen = gen]
      IN /\ n.pc = "seen" /\ n.sid = m.sid /\ n.nonce = m.nonce /\ n.gens = m.gens
         /\ n.unacked = m.unacked /\ n.gen = gen /\ n.dumped = m.dumped
  BY DEF Typed, Polls
<1> QED BY <1>1, <1>2, LateSame
    DEF PollReadsGen, serverVars, stateVars, mainVars, history, Server, Elsewhere,
        MonitorAt

LEMMA PollOverrunsIs ==
  ASSUME PollOverruns
  PROVE  /\ m' = NoPoll /\ m.pc = "gen" /\ LateKeeps
         /\ UNCHANGED <<Server, state, Elsewhere, history>>
<1>1. LateKeeps
  <2>1. late' = late \cup Leftover("read", conn, {}, TRUE)
    BY DEF PollOverruns
  <2>2. "read" # "ack"
    OBVIOUS
  <2> QED BY <2>1, <2>2, LeftoverHas, Zenon
<1> QED BY <1>1 DEF PollOverruns, serverVars, stateVars, mainVars, history, Server,
                    Elsewhere

LEMMA ReacksIs ==
  ASSUME Typed, Reacks
  PROVE  /\ m.pc = "reack" /\ UNCHANGED <<inc, gen, Elsewhere, covered>>
         /\ \/ m' = NoPoll /\ m.gens = {}
            \/ /\ MonitorAt(IF m.gens = {} THEN "torch" ELSE "who")
               /\ m'.unacked = {} /\ m'.dumped = m.dumped
         /\ \/ state' = state
            \/ m.sid = state.sid /\ state' = [state EXCEPT !.unacked = @ \ m.unacked]
         /\ acks' \in {acks, acks \cup Acks(m.unacked)}
         /\ LateGains(inc, m.unacked)
         /\ m.unacked = {} => acks' = acks /\ LateKeeps
         /\ straddled \subseteq straddled'
         /\ m.nonce = inc \/ inc \in straddled' \/ (acks' = acks /\ LateKeeps)
<1>1. \/ m' = NoPoll /\ m.gens = {}
      \/ /\ MonitorAt(IF m.gens = {} THEN "torch" ELSE "who")
         /\ m'.unacked = {} /\ m'.dumped = m.dumped
  <2>1. CASE m.gens = {}
    <3>1. m' = NoPoll \/ m' = [m EXCEPT !.pc = "torch", !.unacked = {}]
      BY <2>1 DEF Reacks, AfterAcks
    <3> QED BY <2>1, <3>1 DEF Typed, Polls, MonitorAt
  <2>2. CASE m.gens # {}
    <3>1. m' = [m EXCEPT !.pc = "who", !.unacked = {}]
      BY <2>2 DEF Reacks, AfterAcks
    <3> QED BY <2>2, <3>1 DEF Typed, Polls, MonitorAt
  <2> QED BY <2>1, <2>2
<1>2. LateGains(inc, m.unacked) /\ (m.unacked = {} => LateKeeps)
  <2>1. \/ late' = late
        \/ m.unacked # {} /\ CallFails("ack", m.unacked)
    BY DEF Reacks
  <2> QED BY <2>1, LateSame, CallFailsHas DEF LateKeeps, LateGains
<1>3. /\ m.pc = "reack" /\ UNCHANGED <<inc, gen, Elsewhere, covered>>
      /\ straddled \subseteq straddled'
  BY Zenon DEF Reacks, Straddles, mainVars, Elsewhere
<1>4. /\ \/ state' = state
         \/ m.sid = state.sid /\ state' = [state EXCEPT !.unacked = @ \ m.unacked]
      /\ acks' \in {acks, acks \cup Acks(m.unacked)}
      /\ m.unacked = {} => acks' = acks
  BY Zenon DEF Reacks
<1>5. ASSUME m.nonce # inc PROVE inc \in straddled' \/ (acks' = acks /\ LateKeeps)
  <2>1. CASE m.unacked = {}
    BY <1>2, <1>4, <2>1
  <2>2. CASE m.unacked # {} /\ ~stuck /\ Reaches(conn)
    BY <1>5, <2>2 DEF Reacks, Straddles
  <2>3. CASE m.unacked # {} /\ ~(~stuck /\ Reaches(conn))
    <3>1. acks' = acks /\ late' = late
      BY <2>3 DEF Reacks, CallAnswers, CallFails
    <3> QED BY <3>1, LateSame
  <2> QED BY <2>1, <2>2, <2>3
<1> QED BY <1>1, <1>2, <1>3, <1>4, <1>5

LEMMA AsksSignallerIs ==
  ASSUME Typed, AsksSignaller
  PROVE  /\ m.pc = "who" /\ MonitorAt("dump") /\ m'.unacked = m.unacked
         /\ m'.dumped = m.dumped /\ LateKeeps
         /\ UNCHANGED <<Server, state, Elsewhere, history>>
<1>1. MonitorAt("dump") /\ m'.unacked = m.unacked /\ m'.dumped = m.dumped
  BY DEF AsksSignaller, Typed, Polls, MonitorAt
<1>2. LateKeeps
  <2>1. late' = late \/ CallFails("read", {})
    BY DEF AsksSignaller
  <2> QED BY <2>1, LateSame, CallFailsHas
<1> QED BY <1>1, <1>2 DEF AsksSignaller, serverVars, stateVars, mainVars, history,
                          Server, Elsewhere

\* A dump that is written follows what has been signalled.
Covers == covered' = [covered EXCEPT ![inc] = gen] /\ straddled' = straddled

LEMMA MonitorDumpsIs ==
  ASSUME Typed, MonitorDumps
  PROVE  /\ m.pc = "dump" /\ LateKeeps /\ m'.unacked = m.unacked
         /\ \/ MonitorAt("ack") /\ Covers
            \/ MonitorAt("finish") /\ m'.dumped = m.dumped /\ UNCHANGED history
         /\ UNCHANGED <<Server, state, Elsewhere>>
<1>1. /\ m'.unacked = m.unacked
      /\ \/ MonitorAt("ack") /\ DumpOk
         \/ MonitorAt("finish") /\ m'.dumped = m.dumped /\ DumpFails
  BY DEF MonitorDumps, Typed, Polls, MonitorAt
<1> QED BY <1>1, LateSame
    DEF MonitorDumps, DumpOk, DumpFails, serverVars, stateVars, mainVars, history,
        Server, Elsewhere, Covers

LEMMA MonitorAcksIs ==
  ASSUME Typed, MonitorAcks
  PROVE  /\ m.pc = "ack" /\ MonitorAt("finish") /\ m'.unacked = m.unacked
         /\ m'.dumped = m.dumped
         /\ acks' \in {acks, acks \cup Acks(m.gens)} /\ LateGains(inc, m.gens)
         /\ straddled \subseteq straddled'
         /\ m.nonce = inc \/ inc \in straddled' \/ (acks' = acks /\ LateKeeps)
         /\ UNCHANGED <<inc, gen, state, Elsewhere, covered>>
<1>0. /\ m.pc = "ack"
      /\ \/ m' = [m EXCEPT !.pc = "finish"]
         \/ m' = [m EXCEPT !.pc = "finish", !.acked = TRUE]
  BY DEF MonitorAcks
<1>1. MonitorAt("finish") /\ m'.unacked = m.unacked /\ m'.dumped = m.dumped
  BY <1>0 DEF Typed, Polls, MonitorAt
<1>2. LateGains(inc, m.gens)
  <2>1. late' = late \/ CallFails("ack", m.gens)
    BY DEF MonitorAcks
  <2> QED BY <2>1, LateSame, CallFailsHas DEF LateKeeps, LateGains
<1>3. ASSUME m.nonce # inc PROVE inc \in straddled' \/ (acks' = acks /\ LateKeeps)
  <2>1. CASE ~stuck /\ Reaches(conn)
    BY <1>3, <2>1 DEF MonitorAcks, Straddles
  <2>2. CASE ~(~stuck /\ Reaches(conn))
    <3>1. acks' = acks /\ late' = late
      BY <2>2 DEF MonitorAcks, CallAnswers, CallFails
    <3> QED BY <3>1, LateSame
  <2> QED BY <2>1, <2>2
<1> QED BY <1>1, <1>2, <1>3 DEF MonitorAcks, Straddles, stateVars, mainVars, Elsewhere

LEMMA MonitorFinishesIs ==
  ASSUME Typed, MonitorFinishes
  PROVE  /\ m.pc = "finish" /\ m' = NoPoll /\ LateKeeps
         /\ IF m.sid # 0 /\ m.sid = state.sid
            THEN Finished(state, m.gens, m.dumped, state')
            ELSE state' = state
         /\ UNCHANGED <<Server, Elsewhere, history>>
<1>1. /\ m.gens \in SUBSET Gens /\ m.dumped \in BOOLEAN /\ m.acked \in BOOLEAN
  BY DEF Typed, Polls
<1>2. ASSUME NEW sid, NEW g \in SUBSET Gens, NEW d \in BOOLEAN, NEW k \in BOOLEAN,
             FinishOn(sid, g, d, k)
      PROVE  IF sid # 0 /\ sid = state.sid THEN Finished(state, g, d, state')
                                           ELSE state' = state
  BY <1>2, FinishOnIs
<1> QED BY <1>1, <1>2, LateSame DEF MonitorFinishes, serverVars, mainVars, history,
                                    Server, Elsewhere

LEMMA DumpsForTorchIs ==
  ASSUME Typed, DumpsForTorch
  PROVE  /\ m.pc = "torch" /\ m' = NoPoll /\ LateKeeps
         /\ SameState(state', state)
         /\ state' = state \/ m.sid = state.sid
         /\ Covers \/ UNCHANGED history
         /\ UNCHANGED <<Server, Elsewhere>>
  BY LateSame DEF DumpsForTorch, DumpOk, DumpFails, serverVars, mainVars, history,
                  Server, Elsewhere, Covers, SameState, Typed, States

LEMMA PollAppliesHas ==
  ASSUME NEW retry, PollApplies(retry)
  PROVE  LateKeeps /\ UNCHANGED <<Server, a, i, history>> /\ m.pc = "seen"
  BY LateSame DEF PollApplies, serverVars, mainVars, history, Server


LEMMA SignalAddsIs ==
  ASSUME SignalAdds
  PROVE  /\ i.pc = "idle" /\ gen' = gen + 1 /\ LateKeeps
         /\ i'.pc = "set" /\ i'.inc = inc /\ i'.gen = gen + 1 /\ i'.sid = 0
         /\ i'.gens = {} /\ i'.dumped = FALSE
         /\ UNCHANGED <<inc, acks, state, Aside, history>>
  BY LateSame DEF SignalAdds, NoIncident, stateVars, mainVars, monitorVars, history,
                  Aside

LEMMA SignalSetsIs ==
  ASSUME Typed, SignalSets
  PROVE  /\ i.pc = "set" /\ LateKeeps
         /\ \/ ReporterAt("claim") /\ i'.gen = i.gen
            \/ ReporterAt("dump") /\ i'.gen = 0
         /\ i'.dumped = i.dumped
         /\ UNCHANGED <<Server, state, Aside, history>>
<1>1. \/ i' = [i EXCEPT !.pc = "claim"]
      \/ i' = [i EXCEPT !.pc = "dump", !.gen = 0]
  BY DEF SignalSets
<1>2. /\ \/ ReporterAt("claim") /\ i'.gen = i.gen
         \/ ReporterAt("dump") /\ i'.gen = 0
      /\ i'.dumped = i.dumped
  BY <1>1 DEF Typed, Incidents, ReporterAt
<1> QED BY <1>2, LateSame DEF SignalSets, stateVars, mainVars, monitorVars, history,
                              Aside, Server

LEMMA SignalGivenUpIs ==
  ASSUME SignalGivenUp
  PROVE  /\ i'.pc = "dump" /\ i'.inc = 0 /\ i'.gen = 0 /\ i'.sid = 0 /\ i'.gens = {}
         /\ i'.dumped = FALSE
         /\ i.pc \in {"idle", "set"} /\ LateKeeps
         /\ UNCHANGED <<Server, state, Aside, history>>
<1>1. LateKeeps
  BY DEF SignalGivenUp, LateKeeps, LateWas, Leftover
<1>2. /\ i'.pc = "dump" /\ i'.inc = 0 /\ i'.gen = 0 /\ i'.sid = 0 /\ i'.gens = {}
      /\ i'.dumped = FALSE
  BY DEF SignalGivenUp, NoIncident
<1> QED BY <1>1, <1>2 DEF SignalGivenUp, serverVars, stateVars, mainVars,
                          monitorVars, history, Aside, Server

LEMMA IncidentClaimsIs ==
  ASSUME Typed, NEW retry \in BOOLEAN, IncidentClaims(retry)
  PROVE  /\ i.pc = "claim" /\ LateKeeps
         /\ straddled \subseteq straddled'
         /\ \/ state.nonce \in {0, i.inc}
            \/ state.nonce \in straddled' /\ i.inc \in straddled'
         /\ i'.pc = "dump" /\ i'.inc = i.inc /\ i'.gen = i.gen /\ i'.sid = state.sid
         /\ i'.dumped = i.dumped
         /\ IF state.sid = 0
            THEN state' = state /\ i'.gens = {i.gen}
            ELSE /\ state' = Claim(state, i.gen, retry)
                 /\ i'.gens = Claimable(state, i.gen, retry)
         /\ UNCHANGED <<Server, Aside, covered>>
<1>1. /\ i'.pc = "dump" /\ i'.inc = i.inc /\ i'.gen = i.gen /\ i'.sid = state.sid
      /\ i'.dumped = i.dumped
      /\ i'.gens = IF state.sid = 0 THEN {i.gen} ELSE Claimable(state, i.gen, retry)
  BY DEF IncidentClaims, Typed, Incidents
<1>2. state' = IF state.sid = 0 THEN state ELSE Claim(state, i.gen, retry)
  BY DEF IncidentClaims
<1>3. /\ straddled \subseteq straddled'
      /\ \/ state.nonce \in {0, i.inc}
         \/ state.nonce \in straddled' /\ i.inc \in straddled'
  BY DEF IncidentClaims
<1> QED BY <1>1, <1>2, <1>3, LateSame
    DEF IncidentClaims, serverVars, mainVars, monitorVars, Aside, Server

LEMMA IncidentDumpsIs ==
  ASSUME Typed, IncidentDumps
  PROVE  /\ i.pc = "dump" /\ LateKeeps
         /\ \/ i' = NoIncident /\ i.gen = 0
            \/ ReporterAt("ack") /\ Covers /\ i'.gen = i.gen /\ i.gen # 0
            \/ /\ ReporterAt("finish") /\ i'.gen = i.gen /\ i.gen # 0
               /\ i'.dumped = i.dumped
         /\ Covers \/ UNCHANGED history
         /\ UNCHANGED <<Server, state, Aside>>
<1>1. \/ i' = NoIncident /\ i.gen = 0
      \/ i' = [i EXCEPT !.pc = "ack", !.dumped = TRUE] /\ DumpOk /\ i.gen # 0
      \/ i' = [i EXCEPT !.pc = "finish"] /\ i.gen # 0
  BY DEF IncidentDumps
<1>2. LET n == [i EXCEPT !.pc = "ack", !.dumped = TRUE]
      IN /\ n.pc = "ack" /\ n.sid = i.sid /\ n.inc = i.inc /\ n.gens = i.gens
         /\ n.gen = i.gen
  BY DEF Typed, Incidents
<1>3. LET n == [i EXCEPT !.pc = "finish"]
      IN /\ n.pc = "finish" /\ n.sid = i.sid /\ n.inc = i.inc /\ n.gens = i.gens
         /\ n.gen = i.gen /\ n.dumped = i.dumped
  BY DEF Typed, Incidents
<1>4. Covers \/ UNCHANGED history
  BY DEF IncidentDumps, DumpOk, DumpFails, Covers, history
<1>5. DumpOk => Covers
  BY DEF DumpOk, Covers
<1>6. /\ i.pc = "dump" /\ LateKeeps /\ UNCHANGED <<Server, state, Aside>>
  BY LateSame DEF IncidentDumps, serverVars, stateVars, mainVars, monitorVars,
     Aside,
                  Server
<1> QED BY <1>1, <1>2, <1>3, <1>4, <1>5, <1>6 DEF ReporterAt

LEMMA IncidentAcksIs ==
  ASSUME Typed, IncidentAcks
  PROVE  /\ i.pc = "ack" /\ ReporterAt("finish") /\ i'.gen = i.gen
         /\ \/ /\ i.inc = inc /\ acks' = acks \cup Acks(i.gens \cup {i.gen})
               /\ LateKeeps
            \/ acks' = acks /\ LateGains(i.inc, i.gens \cup {i.gen})
         /\ UNCHANGED <<inc, gen, state, Aside, history>>
<1>1. \/ i' = [i EXCEPT !.pc = "finish", !.acked = TRUE]
      \/ i' = [i EXCEPT !.pc = "finish"]
  BY DEF IncidentAcks
<1>2. ReporterAt("finish") /\ i'.gen = i.gen
  BY <1>1 DEF Typed, Incidents, ReporterAt
<1>3. \/ /\ i.inc = inc /\ acks' = acks \cup Acks(i.gens \cup {i.gen})
         /\ late' = late
      \/ /\ acks' = acks
         /\ \/ late' = late
            \/ late' = late \cup Leftover("ack", i.inc, i.gens \cup {i.gen}, FALSE)
  BY DEF IncidentAcks
<1>4. LateGains(i.inc, i.gens \cup {i.gen})
  <2>1. CASE late' = late
    BY <2>1, LateSame DEF LateGains, LateKeeps
  <2>2. CASE late' = late \cup Leftover("ack", i.inc, i.gens \cup {i.gen}, FALSE)
    BY <2>2, LeftoverHas, Zenon
  <2> QED BY <1>3, <2>1, <2>2, LateSame DEF LateGains, LateKeeps
<1>5. \/ /\ i.inc = inc /\ acks' = acks \cup Acks(i.gens \cup {i.gen})
         /\ LateKeeps
      \/ acks' = acks /\ LateGains(i.inc, i.gens \cup {i.gen})
  BY <1>3, <1>4, LateSame
<1> QED BY <1>2, <1>5 DEF IncidentAcks, stateVars, mainVars, monitorVars, Aside,
                          history

LEMMA IncidentFinishesIs ==
  ASSUME Typed, IncidentFinishes
  PROVE  /\ i.pc = "finish" /\ i' = NoIncident /\ LateKeeps
         /\ IF i.sid # 0 /\ i.sid = state.sid
            THEN Finished(state, i.gens, i.dumped, state')
            ELSE state' = state
         /\ UNCHANGED <<Server, Aside, history>>
<1>1. /\ i.gens \in SUBSET Gens /\ i.dumped \in BOOLEAN /\ i.acked \in BOOLEAN
  BY DEF Typed, Incidents
<1>2. ASSUME NEW sid, NEW g \in SUBSET Gens, NEW d \in BOOLEAN, NEW k \in BOOLEAN,
             FinishOn(sid, g, d, k)
      PROVE  IF sid # 0 /\ sid = state.sid THEN Finished(state, g, d, state')
                                           ELSE state' = state
  BY <1>2, FinishOnIs
<1> QED BY <1>1, <1>2, LateSame DEF IncidentFinishes, serverVars, mainVars,
                                    monitorVars, history, Server, Aside

LEMMA LateLandsIs ==
  ASSUME Typed, NEW l \in late, LateLands(l)
  PROVE  /\ gen' \in {gen, gen + 1} /\ LateKeeps
         /\ \/ acks' = acks
            \/ l.op = "ack" /\ l.inc = inc /\ acks' = acks \cup Acks(l.gens)
         /\ UNCHANGED <<inc, state, Aside, i, history>>
<1>1. LateKeeps
  <2>1. [l EXCEPT !.op = "set"].op = "set"
    BY DEF Typed, Leftovers
  <2>2. \A k \in late' : k \in late \/ k = [l EXCEPT !.op = "set"]
    BY DEF LateLands
  <2> QED BY <2>1, <2>2 DEF LateKeeps, LateWas
<1>2. /\ gen' \in {gen, gen + 1}
      /\ \/ acks' = acks
         \/ l.op = "ack" /\ l.inc = inc /\ acks' = acks \cup Acks(l.gens)
      /\ inc' = inc
  BY DEF LateLands, serverVars
<1> QED BY <1>1, <1>2 DEF LateLands, stateVars, mainVars, history, Aside

-----------------------------------------------------------------------------
(* What the others do.                                                      *)

Claimers == <<state, sids, m, i, conn, late, covered, straddled>>

LEMMA PeerSignalsIs ==
  ASSUME PeerSignals
  PROVE  gen' = gen + 1 /\ UNCHANGED <<inc, acks, a, Claimers>>
  BY DEF PeerSignals, stateVars, mainVars, monitorVars, history, Claimers

LEMMA TorchSignalsIs ==
  ASSUME TorchSignals
  PROVE  UNCHANGED <<Server, a, Claimers>>
  BY DEF TorchSignals, stateVars, mainVars, monitorVars, history, Claimers, Server

LEMMA RestartIs ==
  ASSUME Restart
  PROVE  inc' = inc + 1 /\ gen' = 0 /\ UNCHANGED <<acks, a, Claimers>>
  BY DEF Restart, stateVars, mainVars, monitorVars, history, Claimers

LEMMA AttachReadsIs ==
  ASSUME AttachReads \/ AttachFails
  PROVE  /\ \/ a'.nonce = inc /\ a'.gen = gen
            \/ a'.nonce = 0
         /\ a'.ok = FALSE
         /\ UNCHANGED <<Server, Claimers>>
  BY DEF AttachReads, AttachFails, NoAttach, serverVars, stateVars, monitorVars,
         history, Claimers, Server

LEMMA AttachReadsKeyIs ==
  ASSUME Typed, AttachReadsKey
  PROVE  /\ \/ a'.nonce = inc /\ a.nonce = inc /\ a'.gen = a.gen
            \/ a'.nonce = 0 /\ a'.ok = FALSE
         /\ UNCHANGED <<Server, Claimers>>
  BY DEF AttachReadsKey, NoAttach, Typed, Attaches, serverVars, stateVars,
         monitorVars, history, Claimers, Server

LEMMA AttachAppliesHas ==
  ASSUME AttachApplies
  PROVE  /\ a.pc = "apply" /\ a'.pc = "idle" /\ a'.nonce = 0
         /\ UNCHANGED <<Server, m, i, conn, late, history>>
  BY DEF AttachApplies, NoAttach, serverVars, monitorVars, history, Server

LEMMA DetachIs ==
  ASSUME Detach
  PROVE  /\ state' \in {state, NoState}
         /\ UNCHANGED <<Server, sids, a, m, i, conn, late, history>>
  BY DEF Detach, serverVars, monitorVars, history, Server


\* A state that is new has claimed nothing.
IsNew(s, nonce, base) ==
  /\ s.sid = sids + 1 /\ s.nonce = nonce /\ s.base = base /\ Top(s) = base
  /\ s.done = {} /\ s.pending = {} /\ s.failed = {} /\ s.unacked = {}

LEMMA NewIs ==
  ASSUME NEW nonce, NEW base, NEW seen, NEW s,
         SameState(s, NewState(sids + 1, nonce, base, seen))
  PROVE  IsNew(s, nonce, base)
<1>1. LET n == NewState(sids + 1, nonce, base, seen)
      IN /\ n.sid = sids + 1 /\ n.nonce = nonce /\ n.base = base /\ n.high = base
         /\ n.done = {} /\ n.pending = {} /\ n.failed = {} /\ n.unacked = {}
  BY DEF NewState, NoState
<1> QED BY <1>1 DEF SameState, IsNew, Top

LEMMA AttachAppliesTo ==
  ASSUME Typed, AttachApplies
  PROVE  \/ UNCHANGED stateVars
         \/ /\ sids' = sids + 1
            /\ \/ IsNew(state', 0, None)
               \/ a.ok = TRUE /\ (IsNew(state', a.nonce, a.gen)
                                    \/ IsNew(state', a.nonce, 0))
<1>1. ASSUME NEW nonce, NEW base, NEW seen \in BOOLEAN,
             state' = NewState(sids + 1, nonce, base, seen)
      PROVE  IsNew(state', nonce, base)
  BY <1>1, NewIs DEF SameState
<1>2. a.key \in BOOLEAN  BY DEF Typed, Attaches
<1> QED BY <1>1, <1>2, AttachAppliesIs

LEMMA PollAppliesTo ==
  ASSUME Typed, Identity, NEW retry \in BOOLEAN, PollApplies(retry)
  PROVE  \/ m' = NoPoll /\ UNCHANGED stateVars
         \/ /\ m' = NoPoll /\ m.sid = state.sid
            /\ IsNew(state', m.nonce, m.gen) /\ sids' = sids + 1
         \/ \E s \in States : /\ Applied(s, retry)
                              /\ \/ SameState(s, state) /\ sids' = sids
                                 \/ IsNew(s, m.nonce, 0) /\ sids' = sids + 1
<1>1. ASSUME NEW nonce, NEW base, NEW seen \in BOOLEAN,
             state' = NewState(sids + 1, nonce, base, seen)
      PROVE  IsNew(state', nonce, base)
  BY <1>1, NewIs DEF SameState
<1>2. m.key \in BOOLEAN  BY DEF Typed, Polls
<1>3. ASSUME NEW s \in States, Applied(s, retry)
      PROVE  \/ SameState(s, state) /\ sids' = sids
             \/ IsNew(s, m.nonce, 0) /\ sids' = sids + 1
  <2>1. CASE m.nonce = state.nonce
    <3>1. state.sid \in Nat /\ sids \in Nat /\ state.sid <= sids
      BY DEF Typed, States, Identity
    <3> QED BY <1>3, <2>1, <3>1 DEF Applied, SameState
  <2>2. CASE m.nonce # state.nonce
    BY <1>3, <2>2, NewIs DEF Applied
  <2> QED BY <2>1, <2>2
<1> QED BY <1>1, <1>2, <1>3, PollAppliesIs


-----------------------------------------------------------------------------
(* Identity.                                                                *)

LEMMA IdentityStep == ASSUME IInv, [Next]_vars PROVE Identity'
<1>0. /\ Typed /\ Identity /\ inc \in Nat /\ inc # 0 /\ sids \in Nat
      /\ state \in States /\ state.sid \in Nat /\ m.sid \in Nat /\ i.sid \in Nat
      /\ gen \in Nat /\ None \notin 0..MaxGen /\ None # 0
      /\ m.gen \in 0..MaxGen /\ a.gen \in 0..MaxGen /\ i.gen \in 0..MaxGen
  <2>1. MaxGen \in Nat /\ None \notin 0..MaxGen /\ None # 0
    BY Constants DEF None
  <2>2. Typed /\ Identity /\ inc \in Nat /\ inc # 0 /\ gen \in Nat
    BY Constants DEF IInv, Typed, Incs
  <2> QED BY <2>1, <2>2 DEF Typed, States, Polls, Incidents, Attaches
<1>1. CASE PeerSignals
  BY <1>1, <1>0, PeerSignalsIs
  DEF Claimers, Identity
<1>2. CASE TorchSignals
  BY <1>2, <1>0, TorchSignalsIs
  DEF Claimers, Server, Identity
<1>3. CASE Restart
  BY <1>3, <1>0, RestartIs
  DEF Claimers, Identity
<1>4. CASE AttachReads
  BY <1>4, <1>0, AttachReadsIs
  DEF Claimers, Server, Identity
<1>5. CASE AttachFails
  BY <1>5, <1>0, AttachReadsIs
  DEF Claimers, Server, Identity
<1>6. CASE AttachApplies
  <2>1. UNCHANGED <<m, i>> /\ a.pc = "apply" /\ a'.pc = "idle"
    BY <1>6, AttachAppliesHas
  <2>2. CASE UNCHANGED stateVars
    BY <1>0, <2>1, <2>2 DEF Identity, stateVars
  <2>3. CASE ~UNCHANGED stateVars
    <3>1. PICK nonce, base : /\ sids' = sids + 1 /\ IsNew(state', nonce, base)
                             /\ (base = None <=> nonce = 0)
      <4>1. a.ok = TRUE => a.nonce # 0 /\ a.gen # None
        BY <1>0, <2>1 DEF Identity
      <4>2. CASE sids' = sids + 1 /\ IsNew(state', 0, None)
        BY <4>2
      <4>3. CASE sids' = sids + 1 /\ a.ok = TRUE /\ IsNew(state', a.nonce, a.gen)
        BY <4>1, <4>3
      <4>4. CASE sids' = sids + 1 /\ a.ok = TRUE /\ IsNew(state', a.nonce, 0)
        BY <1>0, <4>1, <4>4
      <4> QED BY <1>6, <1>0, <2>3, <4>2, <4>3, <4>4, AttachAppliesTo
    <3>2. state'.sid = sids + 1 /\ (state'.base = None <=> state'.nonce = 0)
      BY <3>1 DEF IsNew
    <3>3. state'.sid # 0 /\ state'.sid # m.sid
      BY <1>0, <3>2 DEF Identity
    <3> QED BY <1>0, <2>1, <3>1, <3>2, <3>3 DEF Identity
  <2> QED BY <2>2, <2>3
<1>7. CASE Detach
  <2>1. UNCHANGED <<sids, a, m, i>> /\ state' \in {state, NoState}
    BY <1>7, DetachIs
  <2>2. CASE state' = state
    BY <1>0, <2>1, <2>2 DEF Identity
  <2>3. CASE state' = NoState
    <3>1. state'.sid = 0 /\ state'.nonce = 0 /\ state'.base = None
      BY <2>3, NoStateIs
    <3> QED BY <1>0, <2>1, <2>3, <3>1 DEF Identity, Serving
  <2> QED BY <2>1, <2>2, <2>3
<1>8. CASE PollReadsKey
  BY <1>8, <1>0, PollReadsKeyIs
  DEF Server, Elsewhere, Identity, Serving
<1>9. CASE PollReadsGen
  BY <1>9, <1>0, PollReadsGenIs, NoPollHas
  DEF Server, Elsewhere, MonitorAt, Identity, Serving
<1>10. CASE PollOverruns
  BY <1>10, <1>0, PollOverrunsIs, NoPollHas
  DEF Server, Elsewhere, Identity, Serving
<1>11. ASSUME NEW retry \in BOOLEAN, PollApplies(retry) PROVE Identity'
  <2>1. UNCHANGED <<a, i>> /\ m.pc = "seen"
    BY <1>11, PollAppliesHas
  <2>2. CASE m' = NoPoll /\ UNCHANGED stateVars
    BY <1>0, <2>1, <2>2, NoPollHas DEF Identity, stateVars, Serving
  <2>3. CASE m' = NoPoll /\ IsNew(state', m.nonce, m.gen) /\ sids' = sids + 1
    <3>1. state'.sid = sids + 1 /\ state'.base = m.gen /\ state'.nonce = m.nonce
      BY <2>3 DEF IsNew
    <3>2. state'.base # None /\ state'.nonce # 0
      BY <1>0, <2>1, <3>1 DEF Identity
    <3> QED BY <1>0, <2>1, <2>3, <3>1, <3>2, NoPollHas DEF Identity, Serving
  <2>4. ASSUME NEW s \in States, Applied(s, retry),
               \/ SameState(s, state) /\ sids' = sids
               \/ IsNew(s, m.nonce, 0) /\ sids' = sids + 1
        PROVE  Identity'
    <3>1. state'.sid = s.sid /\ state'.nonce = s.nonce /\ state'.base = s.base
      BY <1>0, <2>4, ClaimIs DEF Applied
    <3>2. /\ m'.pc = "reack" /\ m'.sid = s.sid /\ m'.nonce = m.nonce
          /\ m'.dumped = FALSE
          /\ m.nonce # 0 /\ m.sid # 0 /\ m.sid = state.sid
      BY <1>0, <2>1, <2>4 DEF Applied, Identity
    <3>3. CASE SameState(s, state) /\ sids' = sids
      <4>1. s.sid = state.sid /\ s.nonce = state.nonce /\ s.base = state.base
        BY <3>3 DEF SameState
      <4>2. s.nonce = m.nonce
        BY <2>4, <4>1 DEF Applied, SameState, NewState, NoState
      <4> QED BY <1>0, <2>1, <3>1, <3>2, <3>3, <4>1, <4>2 DEF Identity, Serving
    <3>4. CASE IsNew(s, m.nonce, 0) /\ sids' = sids + 1
      <4>1. s.sid = sids + 1 /\ s.nonce = m.nonce /\ s.base = 0
        BY <3>4 DEF IsNew
      <4> QED BY <1>0, <2>1, <3>1, <3>2, <3>4, <4>1 DEF Identity, Serving
    <3> QED BY <2>4, <3>3, <3>4
  <2> QED BY <1>11, <1>0, <2>2, <2>3, <2>4, PollAppliesTo
<1>12. CASE Reacks
  <2>1. /\ state'.sid = state.sid /\ state'.nonce = state.nonce
        /\ state'.base = state.base /\ (state.sid = 0 => state' = state)
    <3>1. m.pc = "reack" /\ m.sid # 0
      BY <1>12, <1>0, ReacksIs DEF Identity
    <3>2. LET n == [state EXCEPT !.unacked = @ \ m.unacked]
          IN n.sid = state.sid /\ n.nonce = state.nonce /\ n.base = state.base
      BY <1>0 DEF States
    <3> QED BY <1>12, <1>0, <3>1, <3>2, ReacksIs
  <2>2. /\ m.pc = "reack" /\ UNCHANGED <<sids, a, i>>
        /\ \/ m' = NoPoll
           \/ /\ MonitorAt(IF m.gens = {} THEN "torch" ELSE "who")
              /\ m'.unacked = {} /\ m'.dumped = m.dumped
    BY <1>12, <1>0, ReacksIs DEF Elsewhere
  <2> QED BY <1>0, <2>1, <2>2, NoPollHas DEF Identity, MonitorAt, Serving
<1>13. CASE AsksSignaller
  BY <1>13, <1>0, AsksSignallerIs
  DEF Server, Elsewhere, MonitorAt, Identity, Serving
<1>14. CASE MonitorDumps
  BY <1>14, <1>0, MonitorDumpsIs
  DEF Server, Elsewhere, MonitorAt, Identity, Serving
<1>15. CASE MonitorAcks
  BY <1>15, <1>0, MonitorAcksIs
  DEF Elsewhere, MonitorAt, Identity, Serving
<1>16. CASE MonitorFinishes
  BY <1>16, <1>0, MonitorFinishesIs, NoPollHas
  DEF Server, Elsewhere, Identity, Finished, Serving
<1>17. CASE DumpsForTorch
  BY <1>17, <1>0, DumpsForTorchIs, NoPollHas
  DEF Server, Elsewhere, SameState, Identity, Serving
<1>18. CASE SignalAdds
  <2>1. /\ i'.pc = "set" /\ i'.sid = 0 /\ i'.gens = {} /\ i'.dumped = FALSE
        /\ i'.gen = gen + 1 /\ UNCHANGED <<state, sids, a, m>>
    BY <1>18, <1>0, SignalAddsIs DEF Aside
  <2>2. i'.gen # 0
    BY <1>0, <2>1
  <2> QED BY <1>0, <2>1, <2>2 DEF Identity, Claimed
<1>19. CASE SignalSets
  BY <1>19, <1>0, SignalSetsIs
  DEF Server, Aside, ReporterAt, Identity, Claimed
<1>20. CASE SignalGivenUp
  BY <1>20, <1>0, SignalGivenUpIs
  DEF Server, Aside, Identity, Claimed
<1>21. ASSUME NEW retry \in BOOLEAN, IncidentClaims(retry) PROVE Identity'
  <2>1. /\ i.pc = "claim" /\ i'.pc = "dump" /\ i'.inc = i.inc /\ i'.gen = i.gen
        /\ i'.dumped = i.dumped /\ i'.sid = state.sid /\ UNCHANGED <<sids, a, m>>
    BY <1>21, <1>0, IncidentClaimsIs DEF Aside
  <2>2. /\ state'.sid = state.sid /\ state'.nonce = state.nonce
        /\ state'.base = state.base /\ (state.sid = 0 => state' = state)
    BY <1>21, <1>0, IncidentClaimsIs, ClaimIs
  <2> QED BY <1>0, <2>1, <2>2 DEF Identity, Claimed
<1>22. CASE IncidentDumps
  <2>1. /\ i.pc = "dump" /\ UNCHANGED <<state, sids, a, m>>
        /\ \/ i' = NoIncident
           \/ /\ ReporterAt("ack") \/ ReporterAt("finish")
              /\ i'.gen = i.gen /\ i.gen # 0
    BY <1>22, <1>0, IncidentDumpsIs DEF Aside
  <2> QED BY <1>0, <2>1, NoIncidentHas DEF Identity, ReporterAt, Claimed
<1>23. CASE IncidentAcks
  BY <1>23, <1>0, IncidentAcksIs
  DEF Aside, ReporterAt, Identity, Claimed
<1>24. CASE IncidentFinishes
  BY <1>24, <1>0, IncidentFinishesIs, NoIncidentHas
  DEF Server, Aside, Identity, Finished, Claimed
<1>25. ASSUME NEW l \in late, LateLands(l) PROVE Identity'
  BY <1>25, <1>0, LateLandsIs
  DEF Aside, Identity
<1>27. CASE AttachReadsKey
  <2>1. inc # 0
    BY <1>0, Constants DEF Typed, Incs
  <2> QED BY <1>27, <1>0, <2>1, AttachReadsKeyIs
  DEF Claimers, Server, Identity
<1>26. CASE UNCHANGED vars
  BY <1>26, <1>0 DEF Identity, serverVars, stateVars, mainVars, monitorVars,
     history, vars
<1> QED
  BY <1>1, <1>2, <1>3, <1>4, <1>5, <1>6, <1>7, <1>8, <1>9, <1>10, <1>11, <1>12,
     <1>13, <1>14, <1>15, <1>16, <1>17, <1>18, <1>19, <1>20, <1>21, <1>22, <1>23,
     <1>24, <1>25, <1>26, <1>27
  DEF Next, Monitor, Reporter, Environment

-----------------------------------------------------------------------------
(* No generation is lost.                                                   *)

LEMMA WholeKeep ==
  ASSUME Whole, state'.sid = state.sid, state'.base = state.base,
         state'.high = state.high, state'.done = state.done,
         state'.pending = state.pending, state'.failed = state.failed,
         state'.unacked \subseteq state.unacked,
         MonitorHas' = MonitorHas, ReporterHas' = ReporterHas
  PROVE  Whole'
<1>1. Top(state') = Top(state)
  BY DEF Top
<1> QED BY <1>1 DEF Whole, WholeOf, Sound

LEMMA WholeNew ==
  ASSUME Typed, Identity, Typed', NEW nonce, NEW base, IsNew(state', nonce, base),
         UNCHANGED i, m'.sid # state'.sid
  PROVE  Whole'
<1>1. state'.sid # i.sid
  BY DEF IsNew, Identity, Typed, Incidents, States
<1>2. MonitorHas' = {} /\ ReporterHas' = {}
  BY <1>1 DEF MonitorHas, ReporterHas
<1>3. base = None \/ base \in 0..MaxGen
  BY Constants DEF IsNew, Typed, States, Bases, None
<1>4. base # None => base <= MaxGen /\ (base + 1)..base = {}
  BY <1>3, Constants
<1> QED BY <1>2, <1>4 DEF IsNew, Whole, WholeOf, Sound

LEMMA WholeStep == ASSUME IInv, [Next]_vars, Typed' PROVE Whole'
<1>0. /\ Typed /\ Identity /\ Whole /\ state \in States
      /\ m.gens \in SUBSET Gens /\ i.gens \in SUBSET Gens
      /\ m.dumped \in BOOLEAN /\ i.dumped \in BOOLEAN
      /\ m.gen \in 0..MaxGen /\ i.gen \in 0..MaxGen
  BY DEF IInv, Typed, Polls, Incidents
<1>1. CASE PeerSignals
  <2>1. state' = state /\ MonitorHas' = MonitorHas /\ ReporterHas' = ReporterHas
    BY <1>1, <1>0, PeerSignalsIs
    DEF Claimers, Identity, MonitorHas, ReporterHas, Serving, Claimed
  <2> QED BY <1>0, <2>1, WholeKeep
<1>2. CASE TorchSignals
  <2>1. state' = state /\ MonitorHas' = MonitorHas /\ ReporterHas' = ReporterHas
    BY <1>2, <1>0, TorchSignalsIs
    DEF Claimers, Server, Identity, MonitorHas, ReporterHas, Serving, Claimed
  <2> QED BY <1>0, <2>1, WholeKeep
<1>3. CASE Restart
  <2>1. state' = state /\ MonitorHas' = MonitorHas /\ ReporterHas' = ReporterHas
    BY <1>3, <1>0, RestartIs
    DEF Claimers, Identity, MonitorHas, ReporterHas, Serving, Claimed
  <2> QED BY <1>0, <2>1, WholeKeep
<1>4. CASE AttachReads
  <2>1. state' = state /\ MonitorHas' = MonitorHas /\ ReporterHas' = ReporterHas
    BY <1>4, <1>0, AttachReadsIs
    DEF Claimers, Server, Identity, MonitorHas, ReporterHas, Serving, Claimed
  <2> QED BY <1>0, <2>1, WholeKeep
<1>5. CASE AttachFails
  <2>1. state' = state /\ MonitorHas' = MonitorHas /\ ReporterHas' = ReporterHas
    BY <1>5, <1>0, AttachReadsIs
    DEF Claimers, Server, Identity, MonitorHas, ReporterHas, Serving, Claimed
  <2> QED BY <1>0, <2>1, WholeKeep
<1>6. CASE AttachApplies
  <2>1. UNCHANGED <<m, i>>
    BY <1>6, AttachAppliesHas
  <2>2. CASE UNCHANGED stateVars
    BY <1>0, <2>1, <2>2, WholeKeep DEF MonitorHas, ReporterHas, stateVars
  <2>3. CASE ~UNCHANGED stateVars
    <3>1. PICK nonce, base : IsNew(state', nonce, base)
      BY <1>6, <1>0, <2>3, AttachAppliesTo
    <3>2. m'.sid # state'.sid
      BY <1>0, <2>1, <3>1 DEF IsNew, Identity, Typed, Polls
    <3> QED BY <1>0, <2>1, <3>1, <3>2, WholeNew
  <2> QED BY <2>2, <2>3
<1>7. CASE Detach
  <2>1. UNCHANGED <<sids, a, m, i>> /\ state' \in {state, NoState}
    BY <1>7, DetachIs
  <2>2. CASE state' = state
    BY <1>0, <2>1, <2>2, WholeKeep DEF MonitorHas, ReporterHas
  <2>3. CASE state' = NoState
    BY <2>3, NoStateIs DEF Whole
  <2> QED BY <2>1, <2>2, <2>3
<1>8. CASE PollReadsKey
  <2>1. state' = state /\ MonitorHas' = MonitorHas /\ ReporterHas' = ReporterHas
    BY <1>8, <1>0, PollReadsKeyIs
    DEF Server, Elsewhere, Identity, MonitorHas, ReporterHas, Serving, Claimed
  <2> QED BY <1>0, <2>1, WholeKeep
<1>9. CASE PollReadsGen
  <2>1. state' = state /\ MonitorHas' = MonitorHas /\ ReporterHas' = ReporterHas
    BY <1>9, <1>0, PollReadsGenIs, NoPollHas
    DEF Server, Elsewhere, MonitorAt, Identity, MonitorHas, ReporterHas, Serving, Claimed
  <2> QED BY <1>0, <2>1, WholeKeep
<1>10. CASE PollOverruns
  <2>1. state' = state /\ MonitorHas' = MonitorHas /\ ReporterHas' = ReporterHas
    BY <1>10, <1>0, PollOverrunsIs, NoPollHas
    DEF Server, Elsewhere, Identity, MonitorHas, ReporterHas, Serving, Claimed
  <2> QED BY <1>0, <2>1, WholeKeep
<1>11. ASSUME NEW retry \in BOOLEAN, PollApplies(retry) PROVE Whole'
  <2>1. UNCHANGED <<a, i>> /\ m.pc = "seen" /\ m.sid # 0 /\ m.gens = {}
    BY <1>11, <1>0, PollAppliesHas DEF Identity, Serving
  <2>2. CASE m' = NoPoll /\ UNCHANGED stateVars
    <3>1. state' = state /\ MonitorHas' = MonitorHas /\ ReporterHas' = ReporterHas
      BY <2>1, <2>2, NoPollHas DEF MonitorHas, ReporterHas, stateVars
    <3> QED BY <1>0, <3>1, WholeKeep
  <2>3. CASE m' = NoPoll /\ IsNew(state', m.nonce, m.gen)
    <3>1. m'.sid # state'.sid
      BY <1>0, <2>3, NoPollHas DEF IsNew, Typed
    <3> QED BY <1>0, <2>1, <2>3, <3>1, WholeNew
  <2>4. ASSUME NEW s \in States, Applied(s, retry),
               \/ SameState(s, state) /\ sids' = sids
               \/ IsNew(s, m.nonce, 0) /\ sids' = sids + 1
        PROVE  Whole'
    <3> DEFINE C == Claimable(s, m.gen, retry)
    <3>1. /\ state' = Claim(s, m.gen, retry) /\ state'.sid = s.sid
          /\ m'.sid = s.sid /\ m'.gens = C
      <4>1. state' = Claim(s, m.gen, retry) /\ m'.sid = s.sid /\ m'.gens = C
        BY <2>4 DEF Applied
      <4>2. state'.sid = s.sid
        BY <1>11, <1>0, <4>1, ClaimKeeps
      <4> QED BY <4>1, <4>2
    <3>2. MonitorHas' = C /\ ReporterHas' = IF i.sid = s.sid THEN i.gens ELSE {}
      BY <2>1, <3>1 DEF MonitorHas, ReporterHas
    <3>3. WholeOf(s, {}, ReporterHas')
      <4>1. CASE SameState(s, state)
        <5>1. s.sid = state.sid /\ Top(s) = Top(state) /\ state.sid # 0
          BY <2>1, <2>4, <4>1 DEF SameState, Top, Applied
        <5>2. ReporterHas' = ReporterHas /\ MonitorHas = {}
          BY <2>1, <3>2, <5>1 DEF ReporterHas, MonitorHas
        <5>3. WholeOf(state, {}, ReporterHas)
          BY <1>0, <5>1, <5>2 DEF Whole
        <5> QED BY <4>1, <5>1, <5>2, <5>3 DEF SameState, WholeOf, Sound
      <4>2. CASE IsNew(s, m.nonce, 0)
        <5>1. i.sid # s.sid
          BY <1>0, <4>2 DEF IsNew, Identity, Typed, Incidents
        <5>2. ReporterHas' = {}
          BY <3>2, <5>1
        <5>3. 0 <= MaxGen /\ 1..0 = {} /\ 0 # None
          BY Constants DEF None
        <5> QED BY <4>2, <5>2, <5>3 DEF IsNew, WholeOf, Sound
      <4> QED BY <2>4, <4>1, <4>2
    <3>4. /\ C \cap ({} \cup ReporterHas') = {}
          /\ state'.pending = {} \cup ReporterHas' \cup C
          /\ Sound(state')
      BY <1>11, <1>0, <2>4, <3>1, <3>3, ClaimWhole
    <3>5. MonitorHas' = C
      BY <3>2
    <3> HIDE DEF C
    <3> QED BY <3>4, <3>5 DEF Whole, WholeOf
  <2> QED BY <1>11, <1>0, <2>2, <2>3, <2>4, PollAppliesTo
<1>12. CASE Reacks
  <2>1. /\ state'.sid = state.sid /\ state'.base = state.base
        /\ state'.high = state.high /\ state'.done = state.done
        /\ state'.pending = state.pending /\ state'.failed = state.failed
        /\ state'.unacked \subseteq state.unacked
    <3>1. LET n == [state EXCEPT !.unacked = @ \ m.unacked]
          IN /\ n.sid = state.sid /\ n.base = state.base /\ n.high = state.high
             /\ n.done = state.done /\ n.pending = state.pending
             /\ n.failed = state.failed /\ n.unacked \subseteq state.unacked
      BY <1>0 DEF States
    <3> QED BY <1>12, <1>0, <3>1, ReacksIs
  <2>2. MonitorHas' = MonitorHas /\ ReporterHas' = ReporterHas
    <3>1. \/ m' = NoPoll /\ m.gens = {}
          \/ m'.sid = m.sid /\ m'.gens = m.gens
      BY <1>12, <1>0, ReacksIs DEF MonitorAt
    <3>2. i' = i  BY <1>12, <1>0, ReacksIs DEF Elsewhere
    <3> QED BY <2>1, <3>1, <3>2, NoPollHas DEF MonitorHas, ReporterHas
  <2> QED BY <1>0, <2>1, <2>2, WholeKeep
<1>13. CASE AsksSignaller
  <2>1. state' = state /\ MonitorHas' = MonitorHas /\ ReporterHas' = ReporterHas
    BY <1>13, <1>0, AsksSignallerIs
    DEF Server, Elsewhere, MonitorAt, Identity, MonitorHas, ReporterHas, Serving, Claimed
  <2> QED BY <1>0, <2>1, WholeKeep
<1>14. CASE MonitorDumps
  <2>1. state' = state /\ MonitorHas' = MonitorHas /\ ReporterHas' = ReporterHas
    BY <1>14, <1>0, MonitorDumpsIs
    DEF Server, Elsewhere, MonitorAt, Identity, MonitorHas, ReporterHas, Serving, Claimed
  <2> QED BY <1>0, <2>1, WholeKeep
<1>15. CASE MonitorAcks
  <2>1. state' = state /\ MonitorHas' = MonitorHas /\ ReporterHas' = ReporterHas
    BY <1>15, <1>0, MonitorAcksIs
    DEF Elsewhere, MonitorAt, Identity, MonitorHas, ReporterHas, Serving, Claimed
  <2> QED BY <1>0, <2>1, WholeKeep
<1>16. CASE MonitorFinishes
  <2>1. m.pc = "finish" /\ m.sid # 0 /\ m' = NoPoll /\ i' = i
    BY <1>16, <1>0, MonitorFinishesIs DEF Elsewhere, Identity
  <2>2. CASE m.sid = state.sid
    <3>1. Finished(state, m.gens, m.dumped, state')
      BY <1>16, <1>0, <2>1, <2>2, MonitorFinishesIs
    <3>2. state'.sid = state.sid /\ WholeOf(state, m.gens, ReporterHas)
      BY <1>0, <2>1, <2>2, <3>1 DEF Finished, Whole, MonitorHas
    <3>3. MonitorHas' = {} /\ ReporterHas' = ReporterHas
      BY <2>1, <3>2, NoPollHas DEF MonitorHas, ReporterHas
    <3>4. /\ state' \in States
          /\ state'.pending = ReporterHas
          /\ Sound(state')
      <4>1. state' \in States  BY DEF Typed
      <4> QED BY <1>0, <3>1, <3>2, <4>1, FinishWhole
    <3> QED BY <3>3, <3>4 DEF Whole, WholeOf
  <2>3. CASE m.sid # state.sid
    <3>1. state' = state
      BY <1>16, <1>0, <2>3, MonitorFinishesIs
    <3>2. MonitorHas' = MonitorHas /\ ReporterHas' = ReporterHas
      BY <2>1, <2>3, <3>1, NoPollHas DEF MonitorHas, ReporterHas
    <3> QED BY <1>0, <3>1, <3>2, WholeKeep
  <2> QED BY <2>2, <2>3
<1>17. CASE DumpsForTorch
  <2>1. /\ SameState(state', state) /\ MonitorHas' = MonitorHas
        /\ ReporterHas' = ReporterHas
    BY <1>17, <1>0, DumpsForTorchIs, NoPollHas
    DEF Elsewhere, SameState, Identity, MonitorHas, ReporterHas
  <2> QED BY <1>0, <2>1, WholeKeep DEF SameState
<1>18. CASE SignalAdds
  <2>1. state' = state /\ MonitorHas' = MonitorHas /\ ReporterHas' = ReporterHas
    BY <1>18, <1>0, SignalAddsIs
    DEF Aside, Identity, MonitorHas, ReporterHas, Serving, Claimed
  <2> QED BY <1>0, <2>1, WholeKeep
<1>19. CASE SignalSets
  <2>1. state' = state /\ MonitorHas' = MonitorHas /\ ReporterHas' = ReporterHas
    BY <1>19, <1>0, SignalSetsIs
    DEF Server, Aside, ReporterAt, Identity, MonitorHas, ReporterHas, Serving, Claimed
  <2> QED BY <1>0, <2>1, WholeKeep
<1>20. CASE SignalGivenUp
  <2>1. state' = state /\ MonitorHas' = MonitorHas /\ ReporterHas' = ReporterHas
    BY <1>20, <1>0, SignalGivenUpIs
    DEF Server, Aside, Identity, MonitorHas, ReporterHas, Serving, Claimed
  <2> QED BY <1>0, <2>1, WholeKeep
<1>21. ASSUME NEW retry \in BOOLEAN, IncidentClaims(retry) PROVE Whole'
  <2>1. /\ i.pc = "claim" /\ i'.sid = state.sid /\ m' = m
        /\ IF state.sid = 0
           THEN state' = state /\ i'.gens = {i.gen}
           ELSE /\ state' = Claim(state, i.gen, retry)
                /\ i'.gens = Claimable(state, i.gen, retry)
    BY <1>21, <1>0, IncidentClaimsIs DEF Aside
  <2>2. i.gens = {} /\ ReporterHas = {}
    BY <1>0, <2>1 DEF Identity, Claimed, ReporterHas
  <2>3. CASE state.sid = 0
    BY <2>1, <2>3 DEF Whole
  <2>4. CASE state.sid # 0
    <3> DEFINE C == Claimable(state, i.gen, retry)
    <3>1. state'.sid = state.sid
      <4>1. state' = Claim(state, i.gen, retry) /\ retry \in BOOLEAN
        BY <1>21, <2>1, <2>4
      <4> HIDE DEF C
      <4> QED BY <1>0, <4>1, ClaimKeeps
    <3>2. MonitorHas' = MonitorHas /\ ReporterHas' = C
      BY <2>1, <2>4, <3>1 DEF MonitorHas, ReporterHas
    <3>3. WholeOf(state, MonitorHas, {})
      BY <1>0, <2>2, <2>4 DEF Whole
    <3>4. /\ C \cap (MonitorHas \cup {}) = {}
          /\ state'.pending = MonitorHas \cup {} \cup C
          /\ Sound(state')
      BY <1>21, <1>0, <2>1, <2>4, <3>3, ClaimWhole
    <3> HIDE DEF C
    <3> QED BY <3>2, <3>4 DEF Whole, WholeOf
  <2> QED BY <2>3, <2>4
<1>22. CASE IncidentDumps
  <2>1. state' = state /\ MonitorHas' = MonitorHas /\ ReporterHas' = ReporterHas
    BY <1>22, <1>0, IncidentDumpsIs, NoIncidentHas
    DEF Server, Aside, ReporterAt, Identity, MonitorHas, ReporterHas, Serving, Claimed
  <2> QED BY <1>0, <2>1, WholeKeep
<1>23. CASE IncidentAcks
  <2>1. state' = state /\ MonitorHas' = MonitorHas /\ ReporterHas' = ReporterHas
    BY <1>23, <1>0, IncidentAcksIs
    DEF Aside, ReporterAt, Identity, MonitorHas, ReporterHas, Serving, Claimed
  <2> QED BY <1>0, <2>1, WholeKeep
<1>24. CASE IncidentFinishes
  <2>1. i' = NoIncident /\ m' = m
    BY <1>24, <1>0, IncidentFinishesIs DEF Aside
  <2>2. CASE i.sid # 0 /\ i.sid = state.sid
    <3>1. Finished(state, i.gens, i.dumped, state')
      BY <1>24, <1>0, <2>1, <2>2, IncidentFinishesIs
    <3>2. state'.sid = state.sid /\ WholeOf(state, i.gens, MonitorHas)
      BY <1>0, <2>1, <2>2, <3>1 DEF Finished, Whole, WholeOf, ReporterHas
    <3>3. ReporterHas' = {} /\ MonitorHas' = MonitorHas
      BY <2>1, <3>2, NoIncidentHas DEF MonitorHas, ReporterHas
    <3>4. /\ state' \in States
          /\ state'.pending = MonitorHas
          /\ Sound(state')
      <4>1. state' \in States  BY DEF Typed
      <4> QED BY <1>0, <3>1, <3>2, <4>1, FinishWhole
    <3> QED BY <3>3, <3>4 DEF Whole, WholeOf
  <2>3. CASE ~(i.sid # 0 /\ i.sid = state.sid)
    <3>1. state' = state
      BY <1>24, <1>0, <2>3, IncidentFinishesIs
    <3>2. CASE state.sid = 0
      BY <3>1, <3>2 DEF Whole
    <3>3. CASE state.sid # 0
      <4>1. MonitorHas' = MonitorHas /\ ReporterHas' = ReporterHas
        BY <2>1, <2>3, <3>1, <3>3, NoIncidentHas DEF MonitorHas, ReporterHas
      <4> QED BY <1>0, <3>1, <4>1, WholeKeep
    <3> QED BY <3>2, <3>3
  <2> QED BY <2>2, <2>3
<1>25. ASSUME NEW l \in late, LateLands(l) PROVE Whole'
  <2>1. state' = state /\ MonitorHas' = MonitorHas /\ ReporterHas' = ReporterHas
    BY <1>25, <1>0, LateLandsIs
    DEF Aside, Identity, MonitorHas, ReporterHas, Serving, Claimed
  <2> QED BY <1>0, <2>1, WholeKeep
<1>27. CASE AttachReadsKey
  <2>1. state' = state /\ MonitorHas' = MonitorHas /\ ReporterHas' = ReporterHas
    BY <1>27, <1>0, AttachReadsKeyIs
    DEF Claimers, Server, Identity, MonitorHas, ReporterHas, Serving, Claimed
  <2> QED BY <1>0, <2>1, WholeKeep
<1>26. CASE UNCHANGED vars
  BY <1>26, <1>0 DEF Whole, WholeOf, MonitorHas, ReporterHas, serverVars,
     stateVars, mainVars, monitorVars, history, vars
<1> QED
  BY <1>1, <1>2, <1>3, <1>4, <1>5, <1>6, <1>7, <1>8, <1>9, <1>10, <1>11, <1>12,
     <1>13, <1>14, <1>15, <1>16, <1>17, <1>18, <1>19, <1>20, <1>21, <1>22, <1>23,
     <1>24, <1>25, <1>26, <1>27
  DEF Next, Monitor, Reporter, Environment

-----------------------------------------------------------------------------
(* What is known has been signalled.                                        *)

LEMMA CoversIs ==
  ASSUME Typed, Covers
  PROVE  covered'[inc] = gen /\ \A n \in Incs : n # inc => covered'[n] = covered[n]
  BY DEF Typed, Covers

LEMMA CoveredKeep ==
  ASSUME Typed, Signalled, inc' = inc, Covers \/ covered' = covered,
         gen' \in {gen, gen + 1}
  PROVE  /\ covered'[inc'] <= gen'
         /\ \A n \in Incs : n > inc' => covered'[n] = 0
<1>1. /\ covered[inc] <= gen /\ inc \in Incs /\ inc \in Nat /\ gen \in Nat
      /\ covered[inc] \in Nat /\ (\A n \in Incs : n > inc => covered[n] = 0)
  BY Constants DEF Typed, Signalled, Incs
<1>2. CASE Covers
  <2>1. covered'[inc'] <= gen'
    BY <1>1, <1>2, CoversIs
  <2>2. ASSUME NEW n \in Incs, n > inc' PROVE covered'[n] = 0
    <3>1. n # inc  BY <1>1, <2>2
    <3> QED BY <1>1, <1>2, <2>2, <3>1, CoversIs
  <2> QED BY <2>1, <2>2
<1>3. CASE covered' = covered
  BY <1>1, <1>3
<1> QED BY <1>2, <1>3

LEMMA SignalledStep == ASSUME IInv, [Next]_vars, Typed' PROVE Signalled'
<1>0. /\ Typed /\ Signalled /\ Servers /\ inc \in Nat /\ gen \in Nat
      /\ m.gen \in Nat /\ i.gen \in Nat /\ a.gen \in Nat
      /\ m.nonce \in Nat /\ i.inc \in Nat /\ a.nonce \in Nat
  <2>1. Typed /\ Signalled /\ Servers /\ MaxGen \in Nat
    BY Constants DEF IInv
  <2>2. inc \in Nat /\ gen \in Nat
    BY <2>1 DEF Typed, Incs
  <2>3. /\ m.gen \in 0..MaxGen /\ i.gen \in 0..MaxGen /\ a.gen \in 0..MaxGen
        /\ m.nonce \in Nat /\ i.inc \in Nat /\ a.nonce \in Nat
    BY <2>1 DEF Typed, Polls, Incidents, Attaches
  <2> QED BY <2>1, <2>2, <2>3
<1>1. CASE PeerSignals
  <2>1. inc' = inc /\ (Covers \/ covered' = covered) /\ gen' \in {gen, gen + 1}
    BY <1>1, <1>0, PeerSignalsIs DEF Claimers, history
  <2>2. covered'[inc'] <= gen' /\ \A n \in Incs : n > inc' => covered'[n] = 0
    BY <1>0, <2>1, CoveredKeep
  <2>3. /\ a'.nonce = inc' => a'.gen <= gen'
        /\ i'.inc = inc' => i'.gen <= gen'
    BY <1>1, <1>0, <2>1, PeerSignalsIs DEF Claimers, Signalled
  <2>4. /\ m'.pc = "gen" => conn' = m'.nonce
        /\ m'.pc = "seen" /\ m'.nonce = inc' => m'.gen <= gen'
    BY <1>1, <1>0, <2>1, PeerSignalsIs DEF Claimers, Signalled
  <2> QED BY <2>2, <2>3, <2>4 DEF Signalled
<1>2. CASE TorchSignals
  <2>1. inc' = inc /\ (Covers \/ covered' = covered) /\ gen' \in {gen, gen + 1}
    BY <1>2, <1>0, TorchSignalsIs DEF Claimers, Server, history
  <2>2. covered'[inc'] <= gen' /\ \A n \in Incs : n > inc' => covered'[n] = 0
    BY <1>0, <2>1, CoveredKeep
  <2>3. /\ a'.nonce = inc' => a'.gen <= gen'
        /\ i'.inc = inc' => i'.gen <= gen'
    BY <1>2, <1>0, <2>1, TorchSignalsIs DEF Claimers, Server, Signalled
  <2>4. /\ m'.pc = "gen" => conn' = m'.nonce
        /\ m'.pc = "seen" /\ m'.nonce = inc' => m'.gen <= gen'
    BY <1>2, <1>0, <2>1, TorchSignalsIs DEF Claimers, Server, Signalled
  <2> QED BY <2>2, <2>3, <2>4 DEF Signalled
<1>3. CASE Restart
  <2>1. inc' = inc + 1 /\ gen' = 0 /\ UNCHANGED <<a, m, i, conn, covered>>
    BY <1>3, RestartIs DEF Claimers
  <2>2. inc' \in Incs /\ inc' \in Nat /\ inc' > inc
    BY <1>0, <2>1 DEF Typed
  <2>3. covered'[inc'] = 0 /\ \A n \in Incs : n > inc' => covered'[n] = 0
    BY <1>0, <2>1, <2>2, Constants DEF Signalled, Incs
  <2>4. m.nonce # inc' /\ i.inc # inc' /\ a.nonce # inc'
    BY <1>0, <2>1 DEF Servers
  <2> QED BY <1>0, <2>1, <2>3, <2>4 DEF Signalled
<1>4. CASE AttachReads
  <2>1. UNCHANGED <<Server, m, i, conn, covered>>
    BY <1>4, AttachReadsIs DEF Claimers
  <2>2. covered'[inc'] <= gen' /\ \A n \in Incs : n > inc' => covered'[n] = 0
    BY <1>0, <2>1, CoveredKeep DEF Server
  <2>3. a'.nonce = inc' => a'.gen <= gen'
    <3>1. inc # 0 /\ inc' = inc /\ gen' = gen /\ gen \in Nat
      BY <1>0, <2>1, Constants DEF Typed, Incs, Server
    <3> QED BY <1>4, <1>0, <3>1, AttachReadsIs DEF Signalled
  <2> QED BY <1>0, <2>1, <2>2, <2>3 DEF Signalled, Server
<1>5. CASE AttachFails
  <2>1. UNCHANGED <<Server, m, i, conn, covered>>
    BY <1>5, AttachReadsIs DEF Claimers
  <2>2. covered'[inc'] <= gen' /\ \A n \in Incs : n > inc' => covered'[n] = 0
    BY <1>0, <2>1, CoveredKeep DEF Server
  <2>3. a'.nonce = inc' => a'.gen <= gen'
    <3>1. inc # 0 /\ inc' = inc /\ gen' = gen /\ gen \in Nat
      BY <1>0, <2>1, Constants DEF Typed, Incs, Server
    <3> QED BY <1>5, <1>0, <3>1, AttachReadsIs DEF Signalled
  <2> QED BY <1>0, <2>1, <2>2, <2>3 DEF Signalled, Server
<1>6. CASE AttachApplies
  <2>1. inc' = inc /\ (Covers \/ covered' = covered) /\ gen' \in {gen, gen + 1}
    BY <1>6, <1>0, AttachAppliesHas DEF Server, history
  <2>2. covered'[inc'] <= gen' /\ \A n \in Incs : n > inc' => covered'[n] = 0
    BY <1>0, <2>1, CoveredKeep
  <2>3. /\ a'.nonce = inc' => a'.gen <= gen'
        /\ i'.inc = inc' => i'.gen <= gen'
    <3>1. inc # 0
      BY <1>0, Constants DEF Typed, Incs
    <3> QED BY <1>6, <1>0, <2>1, <3>1, AttachAppliesHas DEF Server, Signalled
  <2>4. /\ m'.pc = "gen" => conn' = m'.nonce
        /\ m'.pc = "seen" /\ m'.nonce = inc' => m'.gen <= gen'
    BY <1>6, <1>0, <2>1, AttachAppliesHas DEF Server, Signalled
  <2> QED BY <2>2, <2>3, <2>4 DEF Signalled
<1>7. CASE Detach
  <2>1. inc' = inc /\ (Covers \/ covered' = covered) /\ gen' \in {gen, gen + 1}
    BY <1>7, <1>0, DetachIs DEF Server, history
  <2>2. covered'[inc'] <= gen' /\ \A n \in Incs : n > inc' => covered'[n] = 0
    BY <1>0, <2>1, CoveredKeep
  <2>3. /\ a'.nonce = inc' => a'.gen <= gen'
        /\ i'.inc = inc' => i'.gen <= gen'
    BY <1>7, <1>0, <2>1, DetachIs DEF Server, Signalled
  <2>4. /\ m'.pc = "gen" => conn' = m'.nonce
        /\ m'.pc = "seen" /\ m'.nonce = inc' => m'.gen <= gen'
    BY <1>7, <1>0, <2>1, DetachIs DEF Server, Signalled
  <2> QED BY <2>2, <2>3, <2>4 DEF Signalled
<1>8. CASE PollReadsKey
  <2>1. inc' = inc /\ (Covers \/ covered' = covered) /\ gen' \in {gen, gen + 1}
    BY <1>8, <1>0, PollReadsKeyIs DEF Server, Elsewhere, history
  <2>2. covered'[inc'] <= gen' /\ \A n \in Incs : n > inc' => covered'[n] = 0
    BY <1>0, <2>1, CoveredKeep
  <2>3. /\ a'.nonce = inc' => a'.gen <= gen'
        /\ i'.inc = inc' => i'.gen <= gen'
    BY <1>8, <1>0, <2>1, PollReadsKeyIs DEF Server, Elsewhere, Signalled
  <2>4. /\ m'.pc = "gen" => conn' = m'.nonce
        /\ m'.pc = "seen" /\ m'.nonce = inc' => m'.gen <= gen'
    BY <1>8, <1>0, <2>1, PollReadsKeyIs DEF Server, Elsewhere, Signalled
  <2> QED BY <2>2, <2>3, <2>4 DEF Signalled
<1>9. CASE PollReadsGen
  <2>1. inc' = inc /\ (Covers \/ covered' = covered) /\ gen' \in {gen, gen + 1}
    BY <1>9, <1>0, PollReadsGenIs, NoPollHas DEF Server, Elsewhere, MonitorAt,
       history
  <2>2. covered'[inc'] <= gen' /\ \A n \in Incs : n > inc' => covered'[n] = 0
    BY <1>0, <2>1, CoveredKeep
  <2>3. /\ a'.nonce = inc' => a'.gen <= gen'
        /\ i'.inc = inc' => i'.gen <= gen'
    BY <1>9, <1>0, <2>1, PollReadsGenIs, NoPollHas DEF Server, Elsewhere,
       MonitorAt, Signalled
  <2>4. /\ m'.pc = "gen" => conn' = m'.nonce
        /\ m'.pc = "seen" /\ m'.nonce = inc' => m'.gen <= gen'
    BY <1>9, <1>0, <2>1, PollReadsGenIs, NoPollHas DEF Server, Elsewhere,
       MonitorAt, Signalled
  <2> QED BY <2>2, <2>3, <2>4 DEF Signalled
<1>10. CASE PollOverruns
  <2>1. inc' = inc /\ (Covers \/ covered' = covered) /\ gen' \in {gen, gen + 1}
    BY <1>10, <1>0, PollOverrunsIs, NoPollHas DEF Server, Elsewhere, history
  <2>2. covered'[inc'] <= gen' /\ \A n \in Incs : n > inc' => covered'[n] = 0
    BY <1>0, <2>1, CoveredKeep
  <2>3. /\ a'.nonce = inc' => a'.gen <= gen'
        /\ i'.inc = inc' => i'.gen <= gen'
    BY <1>10, <1>0, <2>1, PollOverrunsIs, NoPollHas DEF Server, Elsewhere, Signalled
  <2>4. /\ m'.pc = "gen" => conn' = m'.nonce
        /\ m'.pc = "seen" /\ m'.nonce = inc' => m'.gen <= gen'
    BY <1>10, <1>0, <2>1, PollOverrunsIs, NoPollHas DEF Server, Elsewhere, Signalled
  <2> QED BY <2>2, <2>3, <2>4 DEF Signalled
<1>11. ASSUME NEW retry \in BOOLEAN, PollApplies(retry) PROVE Signalled'
  <2>1. inc' = inc /\ (Covers \/ covered' = covered) /\ gen' \in {gen, gen + 1}
    BY <1>11, <1>0, PollAppliesHas, PollAppliesIs, NoPollHas
       DEF Server, Applied, history
  <2>2. covered'[inc'] <= gen' /\ \A n \in Incs : n > inc' => covered'[n] = 0
    BY <1>0, <2>1, CoveredKeep
  <2>3. /\ a'.nonce = inc' => a'.gen <= gen'
        /\ i'.inc = inc' => i'.gen <= gen'
    BY <1>11, <1>0, <2>1, PollAppliesHas, PollAppliesIs, NoPollHas
       DEF Server, Applied, Signalled
  <2>4. /\ m'.pc = "gen" => conn' = m'.nonce
        /\ m'.pc = "seen" /\ m'.nonce = inc' => m'.gen <= gen'
    BY <1>11, <1>0, <2>1, PollAppliesHas, PollAppliesIs, NoPollHas
       DEF Server, Applied, Signalled
  <2> QED BY <2>2, <2>3, <2>4 DEF Signalled
<1>12. CASE Reacks
  <2>1. inc' = inc /\ (Covers \/ covered' = covered) /\ gen' \in {gen, gen + 1}
    BY <1>12, <1>0, ReacksIs, NoPollHas DEF Elsewhere, MonitorAt, history
  <2>2. covered'[inc'] <= gen' /\ \A n \in Incs : n > inc' => covered'[n] = 0
    BY <1>0, <2>1, CoveredKeep
  <2>3. /\ a'.nonce = inc' => a'.gen <= gen'
        /\ i'.inc = inc' => i'.gen <= gen'
    BY <1>12, <1>0, <2>1, ReacksIs, NoPollHas DEF Elsewhere, MonitorAt, Signalled
  <2>4. /\ m'.pc = "gen" => conn' = m'.nonce
        /\ m'.pc = "seen" /\ m'.nonce = inc' => m'.gen <= gen'
    BY <1>12, <1>0, <2>1, ReacksIs, NoPollHas DEF Elsewhere, MonitorAt, Signalled
  <2> QED BY <2>2, <2>3, <2>4 DEF Signalled
<1>13. CASE AsksSignaller
  <2>1. inc' = inc /\ (Covers \/ covered' = covered) /\ gen' \in {gen, gen + 1}
    BY <1>13, <1>0, AsksSignallerIs DEF Server, Elsewhere, MonitorAt, history
  <2>2. covered'[inc'] <= gen' /\ \A n \in Incs : n > inc' => covered'[n] = 0
    BY <1>0, <2>1, CoveredKeep
  <2>3. /\ a'.nonce = inc' => a'.gen <= gen'
        /\ i'.inc = inc' => i'.gen <= gen'
    BY <1>13, <1>0, <2>1, AsksSignallerIs DEF Server, Elsewhere, MonitorAt,
       Signalled
  <2>4. /\ m'.pc = "gen" => conn' = m'.nonce
        /\ m'.pc = "seen" /\ m'.nonce = inc' => m'.gen <= gen'
    BY <1>13, <1>0, <2>1, AsksSignallerIs DEF Server, Elsewhere, MonitorAt,
       Signalled
  <2> QED BY <2>2, <2>3, <2>4 DEF Signalled
<1>14. CASE MonitorDumps
  <2>1. inc' = inc /\ (Covers \/ covered' = covered) /\ gen' \in {gen, gen + 1}
    BY <1>14, <1>0, MonitorDumpsIs DEF Server, Elsewhere, MonitorAt, history
  <2>2. covered'[inc'] <= gen' /\ \A n \in Incs : n > inc' => covered'[n] = 0
    BY <1>0, <2>1, CoveredKeep
  <2>3. /\ a'.nonce = inc' => a'.gen <= gen'
        /\ i'.inc = inc' => i'.gen <= gen'
    BY <1>14, <1>0, <2>1, MonitorDumpsIs DEF Server, Elsewhere, MonitorAt, Signalled
  <2>4. /\ m'.pc = "gen" => conn' = m'.nonce
        /\ m'.pc = "seen" /\ m'.nonce = inc' => m'.gen <= gen'
    BY <1>14, <1>0, <2>1, MonitorDumpsIs DEF Server, Elsewhere, MonitorAt, Signalled
  <2> QED BY <2>2, <2>3, <2>4 DEF Signalled
<1>15. CASE MonitorAcks
  <2>1. inc' = inc /\ (Covers \/ covered' = covered) /\ gen' \in {gen, gen + 1}
    BY <1>15, <1>0, MonitorAcksIs DEF Elsewhere, MonitorAt, history
  <2>2. covered'[inc'] <= gen' /\ \A n \in Incs : n > inc' => covered'[n] = 0
    BY <1>0, <2>1, CoveredKeep
  <2>3. /\ a'.nonce = inc' => a'.gen <= gen'
        /\ i'.inc = inc' => i'.gen <= gen'
    BY <1>15, <1>0, <2>1, MonitorAcksIs DEF Elsewhere, MonitorAt, Signalled
  <2>4. /\ m'.pc = "gen" => conn' = m'.nonce
        /\ m'.pc = "seen" /\ m'.nonce = inc' => m'.gen <= gen'
    BY <1>15, <1>0, <2>1, MonitorAcksIs DEF Elsewhere, MonitorAt, Signalled
  <2> QED BY <2>2, <2>3, <2>4 DEF Signalled
<1>16. CASE MonitorFinishes
  <2>1. inc' = inc /\ (Covers \/ covered' = covered) /\ gen' \in {gen, gen + 1}
    BY <1>16, <1>0, MonitorFinishesIs, NoPollHas DEF Server, Elsewhere, history
  <2>2. covered'[inc'] <= gen' /\ \A n \in Incs : n > inc' => covered'[n] = 0
    BY <1>0, <2>1, CoveredKeep
  <2>3. /\ a'.nonce = inc' => a'.gen <= gen'
        /\ i'.inc = inc' => i'.gen <= gen'
    BY <1>16, <1>0, <2>1, MonitorFinishesIs, NoPollHas
       DEF Server, Elsewhere, Signalled
  <2>4. /\ m'.pc = "gen" => conn' = m'.nonce
        /\ m'.pc = "seen" /\ m'.nonce = inc' => m'.gen <= gen'
    BY <1>16, <1>0, <2>1, MonitorFinishesIs, NoPollHas
       DEF Server, Elsewhere, Signalled
  <2> QED BY <2>2, <2>3, <2>4 DEF Signalled
<1>17. CASE DumpsForTorch
  <2>1. inc' = inc /\ (Covers \/ covered' = covered) /\ gen' \in {gen, gen + 1}
    BY <1>17, <1>0, DumpsForTorchIs, NoPollHas DEF Server, Elsewhere, SameState,
       history
  <2>2. covered'[inc'] <= gen' /\ \A n \in Incs : n > inc' => covered'[n] = 0
    BY <1>0, <2>1, CoveredKeep
  <2>3. /\ a'.nonce = inc' => a'.gen <= gen'
        /\ i'.inc = inc' => i'.gen <= gen'
    BY <1>17, <1>0, <2>1, DumpsForTorchIs, NoPollHas
       DEF Server, Elsewhere, SameState, Signalled
  <2>4. /\ m'.pc = "gen" => conn' = m'.nonce
        /\ m'.pc = "seen" /\ m'.nonce = inc' => m'.gen <= gen'
    BY <1>17, <1>0, <2>1, DumpsForTorchIs, NoPollHas
       DEF Server, Elsewhere, SameState, Signalled
  <2> QED BY <2>2, <2>3, <2>4 DEF Signalled
<1>18. CASE SignalAdds
  <2>1. inc' = inc /\ (Covers \/ covered' = covered) /\ gen' \in {gen, gen + 1}
    BY <1>18, <1>0, SignalAddsIs DEF Aside, history
  <2>2. covered'[inc'] <= gen' /\ \A n \in Incs : n > inc' => covered'[n] = 0
    BY <1>0, <2>1, CoveredKeep
  <2>3. /\ a'.nonce = inc' => a'.gen <= gen'
        /\ i'.inc = inc' => i'.gen <= gen'
    BY <1>18, <1>0, <2>1, SignalAddsIs DEF Aside, Signalled
  <2>4. /\ m'.pc = "gen" => conn' = m'.nonce
        /\ m'.pc = "seen" /\ m'.nonce = inc' => m'.gen <= gen'
    BY <1>18, <1>0, <2>1, SignalAddsIs DEF Aside, Signalled
  <2> QED BY <2>2, <2>3, <2>4 DEF Signalled
<1>19. CASE SignalSets
  <2>1. inc' = inc /\ (Covers \/ covered' = covered) /\ gen' \in {gen, gen + 1}
    BY <1>19, <1>0, SignalSetsIs DEF Server, Aside, ReporterAt, history
  <2>2. covered'[inc'] <= gen' /\ \A n \in Incs : n > inc' => covered'[n] = 0
    BY <1>0, <2>1, CoveredKeep
  <2>3. /\ a'.nonce = inc' => a'.gen <= gen'
        /\ i'.inc = inc' => i'.gen <= gen'
    BY <1>19, <1>0, <2>1, SignalSetsIs DEF Server, Aside, ReporterAt, Signalled
  <2>4. /\ m'.pc = "gen" => conn' = m'.nonce
        /\ m'.pc = "seen" /\ m'.nonce = inc' => m'.gen <= gen'
    BY <1>19, <1>0, <2>1, SignalSetsIs DEF Server, Aside, ReporterAt, Signalled
  <2> QED BY <2>2, <2>3, <2>4 DEF Signalled
<1>20. CASE SignalGivenUp
  <2>1. inc' = inc /\ (Covers \/ covered' = covered) /\ gen' \in {gen, gen + 1}
    BY <1>20, <1>0, SignalGivenUpIs DEF Server, Aside, history
  <2>2. covered'[inc'] <= gen' /\ \A n \in Incs : n > inc' => covered'[n] = 0
    BY <1>0, <2>1, CoveredKeep
  <2>3. /\ a'.nonce = inc' => a'.gen <= gen'
        /\ i'.inc = inc' => i'.gen <= gen'
    BY <1>20, <1>0, <2>1, SignalGivenUpIs DEF Server, Aside, Signalled
  <2>4. /\ m'.pc = "gen" => conn' = m'.nonce
        /\ m'.pc = "seen" /\ m'.nonce = inc' => m'.gen <= gen'
    BY <1>20, <1>0, <2>1, SignalGivenUpIs DEF Server, Aside, Signalled
  <2> QED BY <2>2, <2>3, <2>4 DEF Signalled
<1>21. ASSUME NEW retry \in BOOLEAN, IncidentClaims(retry) PROVE Signalled'
  <2>1. inc' = inc /\ (Covers \/ covered' = covered) /\ gen' \in {gen, gen + 1}
    BY <1>21, <1>0, IncidentClaimsIs DEF Server, Aside, history
  <2>2. covered'[inc'] <= gen' /\ \A n \in Incs : n > inc' => covered'[n] = 0
    BY <1>0, <2>1, CoveredKeep
  <2>3. /\ a'.nonce = inc' => a'.gen <= gen'
        /\ i'.inc = inc' => i'.gen <= gen'
    BY <1>21, <1>0, <2>1, IncidentClaimsIs DEF Server, Aside, Signalled
  <2>4. /\ m'.pc = "gen" => conn' = m'.nonce
        /\ m'.pc = "seen" /\ m'.nonce = inc' => m'.gen <= gen'
    BY <1>21, <1>0, <2>1, IncidentClaimsIs DEF Server, Aside, Signalled
  <2> QED BY <2>2, <2>3, <2>4 DEF Signalled
<1>22. CASE IncidentDumps
  <2>1. inc' = inc /\ (Covers \/ covered' = covered) /\ gen' \in {gen, gen + 1}
    BY <1>22, <1>0, IncidentDumpsIs, NoIncidentHas DEF Server, Aside, ReporterAt,
       history
  <2>2. covered'[inc'] <= gen' /\ \A n \in Incs : n > inc' => covered'[n] = 0
    BY <1>0, <2>1, CoveredKeep
  <2>3. /\ a'.nonce = inc' => a'.gen <= gen'
        /\ i'.inc = inc' => i'.gen <= gen'
    BY <1>22, <1>0, <2>1, IncidentDumpsIs, NoIncidentHas
       DEF Server, Aside, ReporterAt, Signalled
  <2>4. /\ m'.pc = "gen" => conn' = m'.nonce
        /\ m'.pc = "seen" /\ m'.nonce = inc' => m'.gen <= gen'
    BY <1>22, <1>0, <2>1, IncidentDumpsIs, NoIncidentHas
       DEF Server, Aside, ReporterAt, Signalled
  <2> QED BY <2>2, <2>3, <2>4 DEF Signalled
<1>23. CASE IncidentAcks
  <2>1. inc' = inc /\ (Covers \/ covered' = covered) /\ gen' \in {gen, gen + 1}
    BY <1>23, <1>0, IncidentAcksIs DEF Aside, ReporterAt, history
  <2>2. covered'[inc'] <= gen' /\ \A n \in Incs : n > inc' => covered'[n] = 0
    BY <1>0, <2>1, CoveredKeep
  <2>3. /\ a'.nonce = inc' => a'.gen <= gen'
        /\ i'.inc = inc' => i'.gen <= gen'
    BY <1>23, <1>0, <2>1, IncidentAcksIs DEF Aside, ReporterAt, Signalled
  <2>4. /\ m'.pc = "gen" => conn' = m'.nonce
        /\ m'.pc = "seen" /\ m'.nonce = inc' => m'.gen <= gen'
    BY <1>23, <1>0, <2>1, IncidentAcksIs DEF Aside, ReporterAt, Signalled
  <2> QED BY <2>2, <2>3, <2>4 DEF Signalled
<1>24. CASE IncidentFinishes
  <2>1. inc' = inc /\ (Covers \/ covered' = covered) /\ gen' \in {gen, gen + 1}
    BY <1>24, <1>0, IncidentFinishesIs, NoIncidentHas DEF Server, Aside, history
  <2>2. covered'[inc'] <= gen' /\ \A n \in Incs : n > inc' => covered'[n] = 0
    BY <1>0, <2>1, CoveredKeep
  <2>3. /\ a'.nonce = inc' => a'.gen <= gen'
        /\ i'.inc = inc' => i'.gen <= gen'
    BY <1>24, <1>0, <2>1, IncidentFinishesIs, NoIncidentHas
       DEF Server, Aside, Signalled
  <2>4. /\ m'.pc = "gen" => conn' = m'.nonce
        /\ m'.pc = "seen" /\ m'.nonce = inc' => m'.gen <= gen'
    BY <1>24, <1>0, <2>1, IncidentFinishesIs, NoIncidentHas
       DEF Server, Aside, Signalled
  <2> QED BY <2>2, <2>3, <2>4 DEF Signalled
<1>25. ASSUME NEW l \in late, LateLands(l) PROVE Signalled'
  <2>1. inc' = inc /\ (Covers \/ covered' = covered) /\ gen' \in {gen, gen + 1}
    BY <1>25, <1>0, LateLandsIs DEF Aside, history
  <2>2. covered'[inc'] <= gen' /\ \A n \in Incs : n > inc' => covered'[n] = 0
    BY <1>0, <2>1, CoveredKeep
  <2>3. /\ a'.nonce = inc' => a'.gen <= gen'
        /\ i'.inc = inc' => i'.gen <= gen'
    BY <1>25, <1>0, <2>1, LateLandsIs DEF Aside, Signalled
  <2>4. /\ m'.pc = "gen" => conn' = m'.nonce
        /\ m'.pc = "seen" /\ m'.nonce = inc' => m'.gen <= gen'
    BY <1>25, <1>0, <2>1, LateLandsIs DEF Aside, Signalled
  <2> QED BY <2>2, <2>3, <2>4 DEF Signalled
<1>27. CASE AttachReadsKey
  <2>1. UNCHANGED <<Server, m, i, conn, covered>>
    BY <1>27, <1>0, AttachReadsKeyIs DEF Claimers
  <2>2. covered'[inc'] <= gen' /\ \A n \in Incs : n > inc' => covered'[n] = 0
    BY <1>0, <2>1, CoveredKeep DEF Server
  <2>3. a'.nonce = inc' => a'.gen <= gen'
    <3>1. inc # 0 /\ inc' = inc /\ gen' = gen /\ gen \in Nat
      BY <1>0, <2>1, Constants DEF Typed, Incs, Server
    <3> QED BY <1>27, <1>0, <3>1, AttachReadsKeyIs DEF Signalled
  <2> QED BY <1>0, <2>1, <2>2, <2>3 DEF Signalled, Server
<1>26. CASE UNCHANGED vars
  BY <1>26, <1>0 DEF Signalled, serverVars, stateVars, mainVars, monitorVars,
     history, vars
<1> QED
  BY <1>1, <1>2, <1>3, <1>4, <1>5, <1>6, <1>7, <1>8, <1>9, <1>10, <1>11, <1>12,
     <1>13, <1>14, <1>15, <1>16, <1>17, <1>18, <1>19, <1>20, <1>21, <1>22, <1>23,
     <1>24, <1>25, <1>26, <1>27
  DEF Next, Monitor, Reporter, Environment

-----------------------------------------------------------------------------
(* What is claimed has been signalled.                                      *)

\* The state as far as its claims go.
SameClaims ==
  /\ state'.sid = state.sid /\ state'.nonce = state.nonce
  /\ state'.base = None <=> state.base = None
  /\ state.base # None => Top(state') = Top(state)

LEMMA ClaimsKeep ==
  ASSUME Typed, Claims, Typed', Clean' => Clean, inc' = inc,
         gen' \in {gen, gen + 1}, SameClaims,
         (m'.nonce = m.nonce /\ m'.gens = m.gens) \/ m'.gens = {},
         (i'.inc = i.inc /\ i'.gens = i.gens /\ i'.sid = i.sid) \/ i'.gens = {}
  PROVE  Claims'
<1> SUFFICES ASSUME Clean'
             PROVE  /\ state'.base # None /\ state'.nonce = inc' => Top(state') <= gen'
                    /\ m'.nonce = inc' => UpTo(m'.gens, gen')
                    /\ i'.inc = inc' => UpTo(i'.gens, gen')
                    /\ i'.sid # 0 /\ i'.sid = state'.sid /\ i'.gens # {}
                         /\ state'.nonce = inc' => i'.inc = inc'
  BY DEF Claims
<1>1. /\ gen \in Nat /\ m.gens \subseteq Nat /\ i.gens \subseteq Nat
      /\ Top(state) \in Nat
  BY Constants, TopIs DEF Typed, Polls, Incidents, Gens, Bases
<1>2. /\ state.base # None /\ state.nonce = inc => Top(state) <= gen
      /\ m.nonce = inc => UpTo(m.gens, gen)
      /\ i.inc = inc => UpTo(i.gens, gen)
      /\ i.sid # 0 /\ i.sid = state.sid /\ i.gens # {} /\ state.nonce = inc =>
           i.inc = inc
  BY DEF Claims
<1>3. state'.base # None /\ state'.nonce = inc' => Top(state') <= gen'
  BY <1>1, <1>2 DEF SameClaims
<1>4. m'.nonce = inc' => UpTo(m'.gens, gen')
  BY <1>1, <1>2 DEF UpTo
<1>5. i'.inc = inc' => UpTo(i'.gens, gen')
  BY <1>1, <1>2 DEF UpTo
<1>6. i'.sid # 0 /\ i'.sid = state'.sid /\ i'.gens # {} /\ state'.nonce = inc' =>
        i'.inc = inc'
  BY <1>2 DEF SameClaims
<1> QED BY <1>3, <1>4, <1>5, <1>6

\* What is claimed of a whole state is new, up to the generation that asks,
\* or was claimed before.
LEMMA ClaimUpTo ==
  ASSUME NEW s \in States, NEW upto \in 0..MaxGen, NEW retry \in BOOLEAN,
         NEW n, n = Claim(s, upto, retry), Sound(s), s.base # None,
         NEW bound \in Nat, Top(s) <= bound, upto <= bound
  PROVE  Top(n) <= bound /\ UpTo(Claimable(s, upto, retry), bound)
<1>1. Top(n) <= bound
  BY ClaimIs
<1>2. /\ s.base \in Nat /\ Top(s) \in Nat /\ upto \in Nat
      /\ s.failed \subseteq (s.base + 1)..Top(s)
  BY TopIs, Constants DEF Sound, States, Bases, None
<1>3. ASSUME NEW g \in Claimable(s, upto, retry) PROVE g <= bound
  <2>1. (g \in Nat /\ g <= upto) \/ g \in s.failed
    BY <1>3, ClaimableIs
  <2> QED BY <1>2, <2>1
<1> QED BY <1>1, <1>3 DEF UpTo

LEMMA ClaimsStep == ASSUME IInv, [Next]_vars, Typed', Servers', Whole' PROVE Claims'
<1>0. /\ Typed /\ Typed' /\ Identity /\ Servers /\ Whole /\ Signalled /\ Claims
      /\ state \in States /\ sids \in Nat /\ inc \in Nat /\ gen \in Nat
      /\ m.gens \in SUBSET Gens /\ i.gens \in SUBSET Gens
      /\ m.dumped \in BOOLEAN /\ i.dumped \in BOOLEAN
      /\ m.gen \in 0..MaxGen /\ i.gen \in 0..MaxGen /\ a.gen \in 0..MaxGen
  <2>1. Typed /\ Identity /\ Servers /\ Whole /\ Signalled /\ Claims /\ MaxGen \in Nat
    BY Constants DEF IInv
  <2>2. sids \in Nat /\ inc \in Nat /\ gen \in Nat
    BY <2>1 DEF Typed, Incs
  <2> QED BY <2>1, <2>2 DEF Typed, Polls, Incidents, Attaches
<1>1. CASE PeerSignals
  <2>1. SameClaims
    BY <1>1, <1>0, PeerSignalsIs DEF Claimers, SameClaims
  <2>2. /\ inc' = inc /\ gen' \in {gen, gen + 1}
        /\ (m'.nonce = m.nonce /\ m'.gens = m.gens) \/ m'.gens = {}
        /\ (i'.inc = i.inc /\ i'.gens = i.gens /\ i'.sid = i.sid) \/ i'.gens = {}
    BY <1>1, <1>0, PeerSignalsIs DEF Claimers
  <2>3. Clean' => Clean
    BY <1>1, <1>0, PeerSignalsIs DEF Claimers, history, Covers, Clean
  <2> QED BY <1>0, <2>1, <2>2, <2>3, ClaimsKeep
<1>2. CASE TorchSignals
  <2>1. SameClaims
    BY <1>2, <1>0, TorchSignalsIs DEF Claimers, Server, SameClaims
  <2>2. /\ inc' = inc /\ gen' \in {gen, gen + 1}
        /\ (m'.nonce = m.nonce /\ m'.gens = m.gens) \/ m'.gens = {}
        /\ (i'.inc = i.inc /\ i'.gens = i.gens /\ i'.sid = i.sid) \/ i'.gens = {}
    BY <1>2, <1>0, TorchSignalsIs DEF Claimers, Server
  <2>3. Clean' => Clean
    BY <1>2, <1>0, TorchSignalsIs DEF Claimers, Server, history, Covers, Clean
  <2> QED BY <1>0, <2>1, <2>2, <2>3, ClaimsKeep
<1>3. CASE Restart
  <2>1. inc' = inc + 1 /\ UNCHANGED <<state, m, i, straddled>>
    BY <1>3, RestartIs DEF Claimers
  <2>2. state.nonce # inc' /\ m.nonce # inc' /\ i.inc # inc'
    BY <1>0, <2>1 DEF Servers, Typed, States, Polls, Incidents
  <2> QED BY <1>0, <2>1, <2>2 DEF Claims
<1>4. CASE AttachReads
  <2>1. SameClaims
    BY <1>4, <1>0, AttachReadsIs DEF Claimers, Server, SameClaims
  <2>2. /\ inc' = inc /\ gen' \in {gen, gen + 1}
        /\ (m'.nonce = m.nonce /\ m'.gens = m.gens) \/ m'.gens = {}
        /\ (i'.inc = i.inc /\ i'.gens = i.gens /\ i'.sid = i.sid) \/ i'.gens = {}
    BY <1>4, <1>0, AttachReadsIs DEF Claimers, Server
  <2>3. Clean' => Clean
    BY <1>4, <1>0, AttachReadsIs DEF Claimers, Server, history, Covers, Clean
  <2> QED BY <1>0, <2>1, <2>2, <2>3, ClaimsKeep
<1>5. CASE AttachFails
  <2>1. SameClaims
    BY <1>5, <1>0, AttachReadsIs DEF Claimers, Server, SameClaims
  <2>2. /\ inc' = inc /\ gen' \in {gen, gen + 1}
        /\ (m'.nonce = m.nonce /\ m'.gens = m.gens) \/ m'.gens = {}
        /\ (i'.inc = i.inc /\ i'.gens = i.gens /\ i'.sid = i.sid) \/ i'.gens = {}
    BY <1>5, <1>0, AttachReadsIs DEF Claimers, Server
  <2>3. Clean' => Clean
    BY <1>5, <1>0, AttachReadsIs DEF Claimers, Server, history, Covers, Clean
  <2> QED BY <1>0, <2>1, <2>2, <2>3, ClaimsKeep
<1>6. CASE AttachApplies
  <2>1. UNCHANGED <<Server, m, i, history>> /\ a.pc = "apply"
    BY <1>6, AttachAppliesHas
  <2>2. CASE UNCHANGED stateVars
    BY <1>0, <2>1, <2>2, ClaimsKeep DEF SameClaims, Clean, Server, history, stateVars
  <2>3. CASE ~UNCHANGED stateVars
    <3>1. PICK nonce, base : /\ IsNew(state', nonce, base)
                             /\ base # None /\ nonce = inc => base <= gen
      <4>1. a.ok = TRUE /\ a.nonce = inc => a.gen <= gen
        BY <1>0, <2>1 DEF Signalled
      <4>2. CASE IsNew(state', 0, None)
        BY <4>2
      <4>3. CASE a.ok = TRUE /\ IsNew(state', a.nonce, a.gen)
        BY <4>1, <4>3
      <4>4. CASE IsNew(state', a.nonce, 0)
        <5>1. 0 <= gen  BY <1>0
        <5> QED BY <4>4, <5>1
      <4> QED BY <1>6, <1>0, <2>3, <4>2, <4>3, <4>4, AttachAppliesTo
    <3>2. i.sid # state'.sid
      BY <1>0, <3>1 DEF IsNew, Identity, Typed, Incidents
    <3>3. state'.base # None /\ state'.nonce = inc => Top(state') <= gen
      BY <3>1 DEF IsNew
    <3> QED BY <1>0, <2>1, <3>2, <3>3 DEF Claims, Clean, Server, history
  <2> QED BY <2>2, <2>3
<1>7. CASE Detach
  <2>1. UNCHANGED <<Server, m, i, history>> /\ state' \in {state, NoState}
    BY <1>7, DetachIs
  <2>2. CASE state' = state
    BY <1>0, <2>1, <2>2, ClaimsKeep DEF SameClaims, Clean, Server, history
  <2>3. CASE state' = NoState
    <3>1. state'.sid = 0 /\ state'.base = None
      BY <2>3, NoStateIs
    <3> QED BY <1>0, <2>1, <3>1 DEF Claims, Clean, Server, history
  <2> QED BY <2>1, <2>2, <2>3
<1>8. CASE PollReadsKey
  <2>1. SameClaims
    BY <1>8, <1>0, PollReadsKeyIs DEF Server, Elsewhere, SameClaims
  <2>2. /\ inc' = inc /\ gen' \in {gen, gen + 1}
        /\ (m'.nonce = m.nonce /\ m'.gens = m.gens) \/ m'.gens = {}
        /\ (i'.inc = i.inc /\ i'.gens = i.gens /\ i'.sid = i.sid) \/ i'.gens = {}
    BY <1>8, <1>0, PollReadsKeyIs DEF Server, Elsewhere
  <2>3. Clean' => Clean
    BY <1>8, <1>0, PollReadsKeyIs DEF Server, Elsewhere, history, Covers, Clean
  <2> QED BY <1>0, <2>1, <2>2, <2>3, ClaimsKeep
<1>9. CASE PollReadsGen
  <2>1. SameClaims
    BY <1>9, <1>0, PollReadsGenIs DEF Server, Elsewhere, MonitorAt, SameClaims
  <2>2. /\ inc' = inc /\ gen' \in {gen, gen + 1}
        /\ (m'.nonce = m.nonce /\ m'.gens = m.gens) \/ m'.gens = {}
        /\ (i'.inc = i.inc /\ i'.gens = i.gens /\ i'.sid = i.sid) \/ i'.gens = {}
    BY <1>9, <1>0, PollReadsGenIs, NoPollHas DEF Server, Elsewhere, MonitorAt
  <2>3. Clean' => Clean
    BY <1>9, <1>0, PollReadsGenIs DEF Server, Elsewhere, MonitorAt, history, Covers, Clean
  <2> QED BY <1>0, <2>1, <2>2, <2>3, ClaimsKeep
<1>10. CASE PollOverruns
  <2>1. SameClaims
    BY <1>10, <1>0, PollOverrunsIs DEF Server, Elsewhere, SameClaims
  <2>2. /\ inc' = inc /\ gen' \in {gen, gen + 1}
        /\ (m'.nonce = m.nonce /\ m'.gens = m.gens) \/ m'.gens = {}
        /\ (i'.inc = i.inc /\ i'.gens = i.gens /\ i'.sid = i.sid) \/ i'.gens = {}
    BY <1>10, <1>0, PollOverrunsIs, NoPollHas DEF Server, Elsewhere
  <2>3. Clean' => Clean
    BY <1>10, <1>0, PollOverrunsIs DEF Server, Elsewhere, history, Covers, Clean
  <2> QED BY <1>0, <2>1, <2>2, <2>3, ClaimsKeep
<1>11. ASSUME NEW retry \in BOOLEAN, PollApplies(retry) PROVE Claims'
  <2>1. UNCHANGED <<Server, i, history>> /\ m.pc = "seen"
    BY <1>11, PollAppliesHas
  <2>0. m.nonce = inc => m.gen <= gen
    BY <1>0, <2>1 DEF Signalled
  <2>2. CASE m' = NoPoll /\ UNCHANGED stateVars
    BY <1>0, <2>1, <2>2, NoPollHas, ClaimsKeep
    DEF SameClaims, Clean, Server, history, stateVars
  <2>3. CASE m' = NoPoll /\ IsNew(state', m.nonce, m.gen)
    <3>1. i.sid # state'.sid
      BY <1>0, <2>3 DEF IsNew, Identity, Typed, Incidents
    <3>2. state'.nonce = inc => Top(state') <= gen
      BY <2>0, <2>3 DEF IsNew
    <3>3. UpTo(m'.gens, gen)
      BY <2>3, NoPollHas DEF UpTo
    <3> QED BY <1>0, <2>1, <3>1, <3>2, <3>3 DEF Claims, Clean, Server, history
  <2>4. ASSUME NEW s \in States, Applied(s, retry),
               \/ SameState(s, state) /\ sids' = sids
               \/ IsNew(s, m.nonce, 0) /\ sids' = sids + 1
        PROVE  Claims'
    <3>1. /\ state' = Claim(s, m.gen, retry) /\ m'.nonce = m.nonce
          /\ m'.gens = Claimable(s, m.gen, retry) /\ m.sid = state.sid
          /\ SameState(s, state) => m.nonce = s.nonce
      BY <2>4 DEF Applied, SameState, NewState, NoState
    <3>2. state'.sid = s.sid /\ state'.nonce = s.nonce /\ state'.base = s.base
      BY <1>11, <1>0, <3>1, ClaimKeeps
    <3>3. s.nonce = m.nonce
      BY <2>4, <3>1 DEF IsNew
    <3>4. ASSUME Clean, m.nonce = inc
          PROVE  (state'.base # None => Top(state') <= gen) /\ UpTo(m'.gens, gen)
      <4>1. /\ Sound(s) /\ s.base # None /\ Top(s) <= gen
        <5>1. CASE SameState(s, state)
          <6>1. Top(s) = Top(state) /\ Sound(s) = Sound(state)
            BY <5>1 DEF SameState, Top, Sound
          <6>2. m.sid # 0 /\ state.nonce # 0 /\ s.base = state.base
            BY <1>0, <2>1, <2>4, <5>1 DEF Identity, Applied, SameState
          <6>3. Sound(state)
            BY <1>0, <3>1, <6>2 DEF Whole, WholeOf
          <6>4. state.base # None /\ state.nonce = inc
            BY <1>0, <3>1, <3>3, <3>4, <5>1, <6>2 DEF Identity, SameState
          <6> QED BY <1>0, <3>4, <6>1, <6>2, <6>3, <6>4 DEF Claims
        <5>2. CASE IsNew(s, m.nonce, 0)
          <6>1. 0 # None /\ 1..0 = {} /\ 0 <= MaxGen
            BY Constants DEF None
          <6> QED BY <1>0, <5>2, <6>1 DEF IsNew, Sound
        <5> QED BY <2>4, <5>1, <5>2
      <4> QED BY <1>11, <1>0, <2>0, <3>1, <3>4, <4>1, ClaimUpTo
    <3>5. i.sid # 0 /\ i.sid = state'.sid => SameState(s, state)
      BY <1>0, <2>4, <3>2 DEF IsNew, Identity, Typed, Incidents
    <3> QED BY <1>0, <2>1, <3>1, <3>2, <3>3, <3>4, <3>5
            DEF Claims, Clean, Server, history, SameState
  <2> QED BY <1>11, <1>0, <2>2, <2>3, <2>4, PollAppliesTo
<1>12. CASE Reacks
  <2>1. SameClaims
    <3>1. LET n == [state EXCEPT !.unacked = @ \ m.unacked]
          IN /\ n.sid = state.sid /\ n.base = state.base /\ n.high = state.high
             /\ n.nonce = state.nonce
      BY <1>0 DEF States
    <3>2. /\ state'.sid = state.sid /\ state'.base = state.base
          /\ state'.high = state.high /\ state'.nonce = state.nonce
      BY <1>12, <1>0, <3>1, ReacksIs
    <3> QED BY <3>2 DEF SameClaims, Top
  <2>2. /\ inc' = inc /\ gen' \in {gen, gen + 1}
        /\ (m'.nonce = m.nonce /\ m'.gens = m.gens) \/ m'.gens = {}
        /\ (i'.inc = i.inc /\ i'.gens = i.gens /\ i'.sid = i.sid) \/ i'.gens = {}
    BY <1>12, <1>0, ReacksIs, NoPollHas DEF Elsewhere, MonitorAt
  <2>3. Clean' => Clean
    BY <1>12, <1>0, ReacksIs DEF Elsewhere, MonitorAt, history, Covers, Clean
  <2> QED BY <1>0, <2>1, <2>2, <2>3, ClaimsKeep
<1>13. CASE AsksSignaller
  <2>1. SameClaims
    BY <1>13, <1>0, AsksSignallerIs DEF Server, Elsewhere, MonitorAt, SameClaims
  <2>2. /\ inc' = inc /\ gen' \in {gen, gen + 1}
        /\ (m'.nonce = m.nonce /\ m'.gens = m.gens) \/ m'.gens = {}
        /\ (i'.inc = i.inc /\ i'.gens = i.gens /\ i'.sid = i.sid) \/ i'.gens = {}
    BY <1>13, <1>0, AsksSignallerIs DEF Server, Elsewhere, MonitorAt
  <2>3. Clean' => Clean
    BY <1>13, <1>0, AsksSignallerIs DEF Server, Elsewhere, MonitorAt, history,
       Covers, Clean
  <2> QED BY <1>0, <2>1, <2>2, <2>3, ClaimsKeep
<1>14. CASE MonitorDumps
  <2>1. SameClaims
    BY <1>14, <1>0, MonitorDumpsIs DEF Server, Elsewhere, MonitorAt, SameClaims
  <2>2. /\ inc' = inc /\ gen' \in {gen, gen + 1}
        /\ (m'.nonce = m.nonce /\ m'.gens = m.gens) \/ m'.gens = {}
        /\ (i'.inc = i.inc /\ i'.gens = i.gens /\ i'.sid = i.sid) \/ i'.gens = {}
    BY <1>14, <1>0, MonitorDumpsIs DEF Server, Elsewhere, MonitorAt
  <2>3. Clean' => Clean
    BY <1>14, <1>0, MonitorDumpsIs DEF Server, Elsewhere, MonitorAt, history, Covers, Clean
  <2> QED BY <1>0, <2>1, <2>2, <2>3, ClaimsKeep
<1>15. CASE MonitorAcks
  <2>1. SameClaims
    BY <1>15, <1>0, MonitorAcksIs DEF Elsewhere, MonitorAt, SameClaims
  <2>2. /\ inc' = inc /\ gen' \in {gen, gen + 1}
        /\ (m'.nonce = m.nonce /\ m'.gens = m.gens) \/ m'.gens = {}
        /\ (i'.inc = i.inc /\ i'.gens = i.gens /\ i'.sid = i.sid) \/ i'.gens = {}
    BY <1>15, <1>0, MonitorAcksIs DEF Elsewhere, MonitorAt
  <2>3. Clean' => Clean
    BY <1>15, <1>0, MonitorAcksIs DEF Elsewhere, MonitorAt, history, Covers, Clean
  <2> QED BY <1>0, <2>1, <2>2, <2>3, ClaimsKeep
<1>16. CASE MonitorFinishes
  <2>1. SameClaims
    <3>1. CASE m.sid # 0 /\ m.sid = state.sid
      <4>1. Finished(state, m.gens, m.dumped, state')
        BY <1>16, <1>0, <3>1, MonitorFinishesIs
      <4>2. WholeOf(state, m.gens, ReporterHas)
        BY <1>0, <3>1 DEF Whole, WholeOf, MonitorHas
      <4>3. state' \in States  BY <1>0 DEF Typed
      <4>4. state'.base # None => Top(state') = Top(state)
        BY <1>0, <4>1, <4>2, <4>3, FinishWhole
      <4> QED BY <4>1, <4>4 DEF Finished, SameClaims
    <3>2. CASE ~(m.sid # 0 /\ m.sid = state.sid)
      BY <1>16, <1>0, <3>2, MonitorFinishesIs DEF SameClaims
    <3> QED BY <3>1, <3>2
  <2>2. /\ inc' = inc /\ gen' \in {gen, gen + 1}
        /\ (m'.nonce = m.nonce /\ m'.gens = m.gens) \/ m'.gens = {}
        /\ (i'.inc = i.inc /\ i'.gens = i.gens /\ i'.sid = i.sid) \/ i'.gens = {}
    BY <1>16, <1>0, MonitorFinishesIs, NoPollHas DEF Server, Elsewhere
  <2>3. Clean' => Clean
    BY <1>16, <1>0, MonitorFinishesIs DEF Server, Elsewhere, history, Covers, Clean
  <2> QED BY <1>0, <2>1, <2>2, <2>3, ClaimsKeep
<1>17. CASE DumpsForTorch
  <2>1. SameClaims
    BY <1>17, <1>0, DumpsForTorchIs DEF Server, Elsewhere, SameState, SameClaims,
       Top
  <2>2. /\ inc' = inc /\ gen' \in {gen, gen + 1}
        /\ (m'.nonce = m.nonce /\ m'.gens = m.gens) \/ m'.gens = {}
        /\ (i'.inc = i.inc /\ i'.gens = i.gens /\ i'.sid = i.sid) \/ i'.gens = {}
    BY <1>17, <1>0, DumpsForTorchIs, NoPollHas DEF Server, Elsewhere, SameState
  <2>3. Clean' => Clean
    BY <1>17, <1>0, DumpsForTorchIs DEF Server, Elsewhere, SameState, history,
       Covers, Clean
  <2> QED BY <1>0, <2>1, <2>2, <2>3, ClaimsKeep
<1>18. CASE SignalAdds
  <2>1. SameClaims
    BY <1>18, <1>0, SignalAddsIs DEF Aside, SameClaims
  <2>2. /\ inc' = inc /\ gen' \in {gen, gen + 1}
        /\ (m'.nonce = m.nonce /\ m'.gens = m.gens) \/ m'.gens = {}
        /\ (i'.inc = i.inc /\ i'.gens = i.gens /\ i'.sid = i.sid) \/ i'.gens = {}
    BY <1>18, <1>0, SignalAddsIs DEF Aside
  <2>3. Clean' => Clean
    BY <1>18, <1>0, SignalAddsIs DEF Aside, history, Covers, Clean
  <2> QED BY <1>0, <2>1, <2>2, <2>3, ClaimsKeep
<1>19. CASE SignalSets
  <2>1. SameClaims
    BY <1>19, <1>0, SignalSetsIs DEF Server, Aside, ReporterAt, SameClaims
  <2>2. /\ inc' = inc /\ gen' \in {gen, gen + 1}
        /\ (m'.nonce = m.nonce /\ m'.gens = m.gens) \/ m'.gens = {}
        /\ (i'.inc = i.inc /\ i'.gens = i.gens /\ i'.sid = i.sid) \/ i'.gens = {}
    BY <1>19, <1>0, SignalSetsIs DEF Server, Aside, ReporterAt
  <2>3. Clean' => Clean
    BY <1>19, <1>0, SignalSetsIs DEF Server, Aside, ReporterAt, history, Covers, Clean
  <2> QED BY <1>0, <2>1, <2>2, <2>3, ClaimsKeep
<1>20. CASE SignalGivenUp
  <2>1. SameClaims
    BY <1>20, <1>0, SignalGivenUpIs DEF Server, Aside, SameClaims
  <2>2. /\ inc' = inc /\ gen' \in {gen, gen + 1}
        /\ (m'.nonce = m.nonce /\ m'.gens = m.gens) \/ m'.gens = {}
        /\ (i'.inc = i.inc /\ i'.gens = i.gens /\ i'.sid = i.sid) \/ i'.gens = {}
    BY <1>20, <1>0, SignalGivenUpIs DEF Server, Aside
  <2>3. Clean' => Clean
    BY <1>20, <1>0, SignalGivenUpIs DEF Server, Aside, history, Covers, Clean
  <2> QED BY <1>0, <2>1, <2>2, <2>3, ClaimsKeep
<1>21. ASSUME NEW retry \in BOOLEAN, IncidentClaims(retry) PROVE Claims'
  <2>1. /\ i.pc = "claim" /\ i'.inc = i.inc /\ i'.sid = state.sid
        /\ IF state.sid = 0
           THEN state' = state /\ i'.gens = {i.gen}
           ELSE /\ state' = Claim(state, i.gen, retry)
                /\ i'.gens = Claimable(state, i.gen, retry)
        /\ UNCHANGED <<Server, m>>
    BY <1>21, <1>0, IncidentClaimsIs DEF Aside
  <2>2. /\ inc' = inc /\ (Clean' => Clean)
        /\ Clean' => state.nonce \in {0, i.inc} \/ (state.nonce # inc /\ i.inc # inc)
    BY <1>21, <1>0, <2>1, IncidentClaimsIs DEF Clean, Server
  <2>3. i.inc = inc => i.gen <= gen
    BY <1>0 DEF Signalled
  <2>4. CASE state.sid = 0
    <3>1. i'.inc = inc => UpTo(i'.gens, gen)
      BY <2>1, <2>3, <2>4 DEF UpTo
    <3> QED BY <1>0, <2>1, <2>2, <2>4, <3>1 DEF Claims, Server
  <2>5. CASE state.sid # 0
    <3>1. state'.sid = state.sid /\ state'.nonce = state.nonce /\ state'.base = state.base
      BY <1>21, <1>0, <2>1, <2>5, ClaimKeeps
    <3>2. CASE state.base = None
      <4>1. i'.gens = {}
        BY <2>1, <2>5, <3>2 DEF Claimable
      <4>2. UpTo(i'.gens, gen)  BY <4>1 DEF UpTo
      <4> QED BY <1>0, <2>1, <2>2, <3>1, <3>2, <4>1, <4>2 DEF Claims, Server
    <3>3. CASE state.base # None
      <4>1. state.nonce # 0 /\ Sound(state)
        BY <1>0, <2>5, <3>3 DEF Identity, Whole, WholeOf
      <4>2. ASSUME Clean, state.nonce = i.inc, i.inc = inc
            PROVE  Top(state') <= gen /\ UpTo(i'.gens, gen)
        <5>1. Top(state) <= gen
          BY <1>0, <3>3, <4>2 DEF Claims
        <5> QED BY <1>21, <1>0, <2>1, <2>3, <2>5, <3>3, <4>1, <4>2, <5>1, ClaimUpTo
      <4> QED BY <1>0, <2>1, <2>2, <3>1, <4>1, <4>2 DEF Claims, Server
    <3> QED BY <3>2, <3>3
  <2> QED BY <2>4, <2>5
<1>22. CASE IncidentDumps
  <2>1. SameClaims
    BY <1>22, <1>0, IncidentDumpsIs DEF Server, Aside, ReporterAt, SameClaims
  <2>2. /\ inc' = inc /\ gen' \in {gen, gen + 1}
        /\ (m'.nonce = m.nonce /\ m'.gens = m.gens) \/ m'.gens = {}
        /\ (i'.inc = i.inc /\ i'.gens = i.gens /\ i'.sid = i.sid) \/ i'.gens = {}
    BY <1>22, <1>0, IncidentDumpsIs, NoIncidentHas DEF Server, Aside, ReporterAt
  <2>3. Clean' => Clean
    BY <1>22, <1>0, IncidentDumpsIs DEF Server, Aside, ReporterAt, history, Covers, Clean
  <2> QED BY <1>0, <2>1, <2>2, <2>3, ClaimsKeep
<1>23. CASE IncidentAcks
  <2>1. SameClaims
    BY <1>23, <1>0, IncidentAcksIs DEF Aside, ReporterAt, SameClaims
  <2>2. /\ inc' = inc /\ gen' \in {gen, gen + 1}
        /\ (m'.nonce = m.nonce /\ m'.gens = m.gens) \/ m'.gens = {}
        /\ (i'.inc = i.inc /\ i'.gens = i.gens /\ i'.sid = i.sid) \/ i'.gens = {}
    BY <1>23, <1>0, IncidentAcksIs DEF Aside, ReporterAt
  <2>3. Clean' => Clean
    BY <1>23, <1>0, IncidentAcksIs DEF Aside, ReporterAt, history, Covers, Clean
  <2> QED BY <1>0, <2>1, <2>2, <2>3, ClaimsKeep
<1>24. CASE IncidentFinishes
  <2>1. SameClaims
    <3>1. CASE i.sid # 0 /\ i.sid = state.sid
      <4>1. Finished(state, i.gens, i.dumped, state')
        BY <1>24, <1>0, <3>1, IncidentFinishesIs
      <4>2. WholeOf(state, i.gens, MonitorHas)
        BY <1>0, <3>1 DEF Whole, WholeOf, ReporterHas
      <4>3. state' \in States  BY <1>0 DEF Typed
      <4>4. state'.base # None => Top(state') = Top(state)
        BY <1>0, <4>1, <4>2, <4>3, FinishWhole
      <4> QED BY <4>1, <4>4 DEF Finished, SameClaims
    <3>2. CASE ~(i.sid # 0 /\ i.sid = state.sid)
      BY <1>24, <1>0, <3>2, IncidentFinishesIs DEF SameClaims
    <3> QED BY <3>1, <3>2
  <2>2. /\ inc' = inc /\ gen' \in {gen, gen + 1}
        /\ (m'.nonce = m.nonce /\ m'.gens = m.gens) \/ m'.gens = {}
        /\ (i'.inc = i.inc /\ i'.gens = i.gens /\ i'.sid = i.sid) \/ i'.gens = {}
    BY <1>24, <1>0, IncidentFinishesIs, NoIncidentHas DEF Server, Aside
  <2>3. Clean' => Clean
    BY <1>24, <1>0, IncidentFinishesIs DEF Server, Aside, history, Covers, Clean
  <2> QED BY <1>0, <2>1, <2>2, <2>3, ClaimsKeep
<1>25. ASSUME NEW l \in late, LateLands(l) PROVE Claims'
  <2>1. SameClaims
    BY <1>25, <1>0, LateLandsIs DEF Aside, SameClaims
  <2>2. /\ inc' = inc /\ gen' \in {gen, gen + 1}
        /\ (m'.nonce = m.nonce /\ m'.gens = m.gens) \/ m'.gens = {}
        /\ (i'.inc = i.inc /\ i'.gens = i.gens /\ i'.sid = i.sid) \/ i'.gens = {}
    BY <1>25, <1>0, LateLandsIs DEF Aside
  <2>3. Clean' => Clean
    BY <1>25, <1>0, LateLandsIs DEF Aside, history, Covers, Clean
  <2> QED BY <1>0, <2>1, <2>2, <2>3, ClaimsKeep
<1>27. CASE AttachReadsKey
  <2>1. SameClaims
    BY <1>27, <1>0, AttachReadsKeyIs DEF Claimers, Server, SameClaims
  <2>2. /\ inc' = inc /\ gen' \in {gen, gen + 1}
        /\ (m'.nonce = m.nonce /\ m'.gens = m.gens) \/ m'.gens = {}
        /\ (i'.inc = i.inc /\ i'.gens = i.gens /\ i'.sid = i.sid) \/ i'.gens = {}
    BY <1>27, <1>0, AttachReadsKeyIs DEF Claimers, Server
  <2>3. Clean' => Clean
    BY <1>27, <1>0, AttachReadsKeyIs DEF Claimers, Server, history, Covers, Clean
  <2> QED BY <1>0, <2>1, <2>2, <2>3, ClaimsKeep
<1>26. CASE UNCHANGED vars
  BY <1>26, <1>0 DEF Claims, Clean, Top, UpTo, serverVars, stateVars, mainVars,
     monitorVars, history, vars
<1> QED
  BY <1>1, <1>2, <1>3, <1>4, <1>5, <1>6, <1>7, <1>8, <1>9, <1>10, <1>11, <1>12,
     <1>13, <1>14, <1>15, <1>16, <1>17, <1>18, <1>19, <1>20, <1>21, <1>22, <1>23,
     <1>24, <1>25, <1>26, <1>27
  DEF Next, Monitor, Reporter, Environment

-----------------------------------------------------------------------------
(* An acknowledgement means a dump.                                         *)

\* What is covered stays so, on every server.
LEMMA CoveredGrows ==
  ASSUME Typed, Typed', Signalled, inc' = inc, Covers \/ covered' = covered
  PROVE  /\ \A n \in Incs : /\ covered[n] \in Nat /\ covered'[n] \in Nat
                            /\ covered[n] <= covered'[n]
         /\ \A gens \in SUBSET Gens :
              UpTo(gens, covered[inc]) => UpTo(gens, covered'[inc'])
         /\ Covers => covered'[inc'] = gen
<1>1. /\ inc \in Incs /\ gen \in Nat /\ covered[inc] <= gen
      /\ \A n \in Incs : covered[n] \in Nat /\ covered'[n] \in Nat
  BY Constants DEF Typed, Signalled
<1>2. \A n \in Incs : covered[n] <= covered'[n]
  BY <1>1, CoversIs
<1>3. ASSUME NEW gens \in SUBSET Gens, UpTo(gens, covered[inc])
      PROVE  UpTo(gens, covered'[inc'])
  <2>1. \A g \in gens : g \in Nat /\ g <= covered[inc]
    BY <1>3 DEF UpTo, Gens
  <2> QED BY <1>1, <1>2, <2>1 DEF UpTo
<1> QED BY <1>1, <1>2, <1>3, CoversIs

\* What a step acknowledges, or leaves on its way, lies behind a dump.
LEMMA AcksKeep ==
  ASSUME Typed, Typed', Signalled, AcksBehind, inc' = inc,
         Covers \/ covered' = covered,
         NEW now \in SUBSET Gens, Behind(now),
         \A k \in acks' : k \in acks \/ (k[1] = inc /\ k[2] \in now),
         \A l \in late' : l.op = "ack" /\ l.inc = inc =>
                            LateWas(l) \/ l.gens \subseteq now,
         \/ state'.unacked = {} \/ state'.nonce # inc
         \/ state'.nonce = state.nonce /\ state'.unacked \subseteq state.unacked \cup now
  PROVE  AcksBehind'
<1>0. /\ inc \in Incs /\ acks \subseteq Incs \X Gens /\ late \subseteq Leftovers
      /\ Gens \subseteq Nat /\ state.unacked \in SUBSET Gens
      /\ \A l \in Leftovers : l.gens \in SUBSET Gens
  BY DEF Typed, States, Gens, Leftovers
<1>1. /\ \A n \in Incs : /\ covered[n] \in Nat /\ covered'[n] \in Nat
                         /\ covered[n] <= covered'[n]
      /\ \A gens \in SUBSET Gens :
           UpTo(gens, covered[inc]) => UpTo(gens, covered'[inc'])
  BY CoveredGrows
<1>2. UpTo(now, covered'[inc'])
  BY <1>1 DEF Behind
<1>3. ASSUME NEW k \in acks', k[1] = inc PROVE k[2] <= covered'[inc']
  <2>1. CASE k \in acks
    <3>1. k[2] \in Nat /\ k[2] <= covered[inc]
      BY <1>0, <1>3, <2>1 DEF AcksBehind
    <3>2. covered[inc] <= covered'[inc] /\ covered[inc] \in Nat /\ covered'[inc] \in Nat
      BY <1>0, <1>1
    <3> QED BY <3>1, <3>2
  <2>2. CASE k[1] = inc /\ k[2] \in now
    BY <1>2, <2>2 DEF UpTo
  <2> QED BY <1>3, <2>1, <2>2
<1>4. ASSUME NEW l \in late', l.op = "ack", l.inc = inc
      PROVE  UpTo(l.gens, covered'[inc'])
  <2>1. CASE LateWas(l)
    <3>1. PICK k \in late : l.op = k.op /\ l.inc = k.inc /\ l.gens = k.gens
      BY <2>1 DEF LateWas
    <3>2. UpTo(k.gens, covered[inc]) /\ k.gens \in SUBSET Gens
      BY <1>0, <1>4, <3>1 DEF AcksBehind, Behind
    <3> QED BY <1>1, <3>1, <3>2
  <2>2. CASE l.gens \subseteq now
    BY <1>2, <2>2 DEF UpTo
  <2> QED BY <1>4, <2>1, <2>2
<1>5. state'.nonce = inc' => UpTo(state'.unacked, covered'[inc'])
  <2>1. CASE state'.unacked = {} \/ state'.nonce # inc
    BY <2>1 DEF UpTo
  <2>2. CASE /\ state'.nonce = state.nonce
             /\ state'.unacked \subseteq state.unacked \cup now
    <3>1. state.nonce = inc => UpTo(state.unacked, covered[inc])
      BY DEF AcksBehind, Behind
    <3>2. state.nonce = inc => UpTo(state.unacked, covered'[inc'])
      BY <1>0, <1>1, <3>1
    <3> QED BY <1>2, <2>2, <3>2 DEF UpTo
  <2> QED BY <2>1, <2>2
<1> QED BY <1>3, <1>4, <1>5 DEF AcksBehind, Behind

\* The same where a step acknowledges nothing.
LEMMA AcksStay ==
  ASSUME Typed, Typed', Signalled, AcksBehind, inc' = inc,
         Covers \/ covered' = covered, acks' = acks, LateKeeps,
         \/ state'.unacked = {}
         \/ state'.nonce = state.nonce /\ state'.unacked \subseteq state.unacked
  PROVE  AcksBehind'
<1>1. Behind({}) /\ {} \in SUBSET Gens
  BY DEF Behind, UpTo
<1>2. \A l \in late' : l.op = "ack" /\ l.inc = inc => LateWas(l) \/ l.gens \subseteq {}
  BY DEF LateKeeps
<1> HIDE DEF AcksBehind, Behind
<1> QED BY <1>1, <1>2, AcksKeep

\* The claims of the monitor as they were, not yet dumped for unless before.
LEMMA MonitorStays ==
  ASSUME Typed, Typed', Signalled, MonitorBehind, inc' = inc,
         Covers \/ covered' = covered,
         m'.unacked = {} \/ (m'.nonce = m.nonce /\ m'.unacked \subseteq m.unacked),
         \/ m'.pc \notin {"ack", "finish"}
         \/ m'.pc = "finish" /\ m'.dumped = FALSE
         \/ m'.nonce = m.nonce /\ m'.gens = m.gens /\ m.pc = "ack"
         \/ /\ m'.nonce = m.nonce /\ m'.gens = m.gens /\ m'.pc = m.pc
            /\ m'.dumped = m.dumped
  PROVE  MonitorBehind'
<1>0. m.gens \in SUBSET Gens /\ m.unacked \in SUBSET Gens
  BY DEF Typed, Polls
<1>1. \A gens \in SUBSET Gens :
        UpTo(gens, covered[inc]) => UpTo(gens, covered'[inc'])
  BY CoveredGrows
<1>2. m'.nonce = inc' => UpTo(m'.unacked, covered'[inc'])
  <2>1. CASE m'.unacked = {}
    BY <2>1 DEF UpTo
  <2>2. CASE m'.nonce = m.nonce /\ m'.unacked \subseteq m.unacked
    <3>1. m.nonce = inc => UpTo(m.unacked, covered'[inc'])
      BY <1>0, <1>1 DEF MonitorBehind, Behind
    <3> QED BY <2>2, <3>1 DEF UpTo
  <2> QED BY <2>1, <2>2
<1>3. m'.nonce = inc' /\ (m'.pc = "ack" \/ (m'.pc = "finish" /\ m'.dumped = TRUE))
        => UpTo(m'.gens, covered'[inc'])
  <2>1. m.nonce = inc /\ (m.pc = "ack" \/ (m.pc = "finish" /\ m.dumped = TRUE))
          => UpTo(m.gens, covered'[inc'])
    BY <1>0, <1>1 DEF MonitorBehind, Behind
  <2> QED BY <2>1
<1> QED BY <1>2, <1>3 DEF MonitorBehind, Behind

\* The same of the reporter.
LEMMA ReporterStays ==
  ASSUME Typed, Typed', Signalled, Identity, ReporterBehind, inc' = inc,
         Covers \/ covered' = covered,
         \/ i'.pc \notin {"ack", "finish"}
         \/ i'.pc = "finish" /\ i'.dumped = FALSE
         \/ i'.inc = i.inc /\ i'.gens = i.gens /\ i'.gen = i.gen /\ i.pc = "ack"
         \/ i' = i
  PROVE  ReporterBehind'
<1>1. \A gens \in SUBSET Gens :
        UpTo(gens, covered[inc]) => UpTo(gens, covered'[inc'])
  BY CoveredGrows
<1>2. i.pc \in {"ack", "finish"} => i.gens \cup {i.gen} \in SUBSET Gens
  BY Constants DEF Typed, Incidents, Identity, Gens
<1>3. i.inc = inc /\ (i.pc = "ack" \/ (i.pc = "finish" /\ i.dumped = TRUE))
        => UpTo(i.gens \cup {i.gen}, covered'[inc'])
  BY <1>1, <1>2 DEF ReporterBehind, Behind
<1>4. i'.inc = inc' /\ (i'.pc = "ack" \/ (i'.pc = "finish" /\ i'.dumped = TRUE))
        => UpTo(i'.gens \cup {i'.gen}, covered'[inc'])
  BY <1>3
<1> QED BY <1>4 DEF ReporterBehind, Behind

LEMMA DumpedStep ==
  ASSUME IInv, [Next]_vars, Typed', Clean'
  PROVE  (AcksBehind /\ MonitorBehind /\ ReporterBehind)'
<1>0. /\ Typed /\ Typed' /\ Identity /\ Servers /\ Whole /\ Signalled /\ Claims /\ Dumped
      /\ state \in States /\ m \in Polls /\ i \in Incidents /\ gen \in Nat
      /\ m.gens \in SUBSET Gens /\ i.gens \in SUBSET Gens /\ m.unacked \in SUBSET Gens
      /\ m.gen \in 0..MaxGen /\ Clean'
  BY Constants DEF IInv, Typed, Polls, Incidents
<1>1. CASE PeerSignals
  <2>1. /\ inc' = inc /\ (Covers \/ covered' = covered)
        /\ AcksBehind /\ MonitorBehind /\ ReporterBehind
    <3>1. Clean
      BY <1>1, <1>0, PeerSignalsIs DEF Claimers, history, Covers, Clean
    <3> QED BY <1>1, <1>0, <3>1, PeerSignalsIs DEF Claimers, history, Dumped
  <2>2. AcksBehind'
    <3>1. /\ acks' = acks /\ LateKeeps
          /\ \/ state'.unacked = {}
             \/ state'.nonce = state.nonce /\ state'.unacked \subseteq state.unacked
      BY <1>1, <1>0, PeerSignalsIs, LateSame DEF Claimers
    <3> QED BY <1>0, <2>1, <3>1, AcksStay
  <2>3. MonitorBehind'
    <3>1. /\ m'.unacked = {} \/ (m'.nonce = m.nonce /\ m'.unacked \subseteq m.unacked)
          /\ \/ m'.pc \notin {"ack", "finish"}
             \/ m'.pc = "finish" /\ m'.dumped = FALSE
             \/ m'.nonce = m.nonce /\ m'.gens = m.gens /\ m.pc = "ack"
             \/ /\ m'.nonce = m.nonce /\ m'.gens = m.gens /\ m'.pc = m.pc
                /\ m'.dumped = m.dumped
      BY <1>1, <1>0, PeerSignalsIs DEF Claimers
    <3> QED BY <1>0, <2>1, <3>1, MonitorStays
  <2>4. ReporterBehind'
    <3>1. \/ i'.pc \notin {"ack", "finish"}
          \/ i'.pc = "finish" /\ i'.dumped = FALSE
          \/ i'.inc = i.inc /\ i'.gens = i.gens /\ i'.gen = i.gen /\ i.pc = "ack"
          \/ i' = i
      BY <1>1, <1>0, PeerSignalsIs DEF Claimers
    <3> QED BY <1>0, <2>1, <3>1, ReporterStays
  <2> QED BY <2>2, <2>3, <2>4
<1>2. CASE TorchSignals
  <2>1. /\ inc' = inc /\ (Covers \/ covered' = covered)
        /\ AcksBehind /\ MonitorBehind /\ ReporterBehind
    <3>1. Clean
      BY <1>2, <1>0, TorchSignalsIs DEF Claimers, Server, history, Covers, Clean
    <3> QED BY <1>2, <1>0, <3>1, TorchSignalsIs DEF Claimers, Server, history,
               Dumped
  <2>2. AcksBehind'
    <3>1. /\ acks' = acks /\ LateKeeps
          /\ \/ state'.unacked = {}
             \/ state'.nonce = state.nonce /\ state'.unacked \subseteq state.unacked
      BY <1>2, <1>0, TorchSignalsIs, LateSame DEF Claimers, Server
    <3> QED BY <1>0, <2>1, <3>1, AcksStay
  <2>3. MonitorBehind'
    <3>1. /\ m'.unacked = {} \/ (m'.nonce = m.nonce /\ m'.unacked \subseteq m.unacked)
          /\ \/ m'.pc \notin {"ack", "finish"}
             \/ m'.pc = "finish" /\ m'.dumped = FALSE
             \/ m'.nonce = m.nonce /\ m'.gens = m.gens /\ m.pc = "ack"
             \/ /\ m'.nonce = m.nonce /\ m'.gens = m.gens /\ m'.pc = m.pc
                /\ m'.dumped = m.dumped
      BY <1>2, <1>0, TorchSignalsIs DEF Claimers, Server
    <3> QED BY <1>0, <2>1, <3>1, MonitorStays
  <2>4. ReporterBehind'
    <3>1. \/ i'.pc \notin {"ack", "finish"}
          \/ i'.pc = "finish" /\ i'.dumped = FALSE
          \/ i'.inc = i.inc /\ i'.gens = i.gens /\ i'.gen = i.gen /\ i.pc = "ack"
          \/ i' = i
      BY <1>2, <1>0, TorchSignalsIs DEF Claimers, Server
    <3> QED BY <1>0, <2>1, <3>1, ReporterStays
  <2> QED BY <2>2, <2>3, <2>4
<1>3. CASE Restart
  <2>1. inc' = inc + 1 /\ UNCHANGED <<acks, state, m, i, late, history>>
    BY <1>3, RestartIs DEF Claimers, history
  <2>2. /\ state.nonce # inc' /\ m.nonce # inc' /\ i.inc # inc'
        /\ \A l \in late : l.inc # inc'
    <3>1. /\ inc \in Nat /\ state.nonce \in Nat /\ m.nonce \in Nat /\ i.inc \in Nat
      BY <1>0 DEF Typed, States, Polls, Incidents, Incs
    <3>2. \A l \in late : l.inc \in Nat
      BY <1>0 DEF Typed, Leftovers
    <3> QED BY <1>0, <2>1, <3>1, <3>2 DEF Servers
  <2>3. \A k \in acks' : k[1] # inc'
    <3>1. inc \in Nat /\ acks \subseteq Incs \X Gens
      BY <1>0 DEF Typed, Incs
    <3> QED BY <1>0, <2>1, <3>1 DEF Servers, Incs
  <2> QED BY <2>1, <2>2, <2>3
          DEF AcksBehind, MonitorBehind, ReporterBehind, history
<1>4. CASE AttachReads
  <2>1. /\ inc' = inc /\ (Covers \/ covered' = covered)
        /\ AcksBehind /\ MonitorBehind /\ ReporterBehind
    <3>1. Clean
      BY <1>4, <1>0, AttachReadsIs DEF Claimers, Server, history, Covers, Clean
    <3> QED BY <1>4, <1>0, <3>1, AttachReadsIs DEF Claimers, Server, history, Dumped
  <2>2. AcksBehind'
    <3>1. /\ acks' = acks /\ LateKeeps
          /\ \/ state'.unacked = {}
             \/ state'.nonce = state.nonce /\ state'.unacked \subseteq state.unacked
      BY <1>4, <1>0, AttachReadsIs, LateSame DEF Claimers, Server
    <3> QED BY <1>0, <2>1, <3>1, AcksStay
  <2>3. MonitorBehind'
    <3>1. /\ m'.unacked = {} \/ (m'.nonce = m.nonce /\ m'.unacked \subseteq m.unacked)
          /\ \/ m'.pc \notin {"ack", "finish"}
             \/ m'.pc = "finish" /\ m'.dumped = FALSE
             \/ m'.nonce = m.nonce /\ m'.gens = m.gens /\ m.pc = "ack"
             \/ /\ m'.nonce = m.nonce /\ m'.gens = m.gens /\ m'.pc = m.pc
                /\ m'.dumped = m.dumped
      BY <1>4, <1>0, AttachReadsIs DEF Claimers, Server
    <3> QED BY <1>0, <2>1, <3>1, MonitorStays
  <2>4. ReporterBehind'
    <3>1. \/ i'.pc \notin {"ack", "finish"}
          \/ i'.pc = "finish" /\ i'.dumped = FALSE
          \/ i'.inc = i.inc /\ i'.gens = i.gens /\ i'.gen = i.gen /\ i.pc = "ack"
          \/ i' = i
      BY <1>4, <1>0, AttachReadsIs DEF Claimers, Server
    <3> QED BY <1>0, <2>1, <3>1, ReporterStays
  <2> QED BY <2>2, <2>3, <2>4
<1>5. CASE AttachFails
  <2>1. /\ inc' = inc /\ (Covers \/ covered' = covered)
        /\ AcksBehind /\ MonitorBehind /\ ReporterBehind
    <3>1. Clean
      BY <1>5, <1>0, AttachReadsIs DEF Claimers, Server, history, Covers, Clean
    <3> QED BY <1>5, <1>0, <3>1, AttachReadsIs DEF Claimers, Server, history, Dumped
  <2>2. AcksBehind'
    <3>1. /\ acks' = acks /\ LateKeeps
          /\ \/ state'.unacked = {}
             \/ state'.nonce = state.nonce /\ state'.unacked \subseteq state.unacked
      BY <1>5, <1>0, AttachReadsIs, LateSame DEF Claimers, Server
    <3> QED BY <1>0, <2>1, <3>1, AcksStay
  <2>3. MonitorBehind'
    <3>1. /\ m'.unacked = {} \/ (m'.nonce = m.nonce /\ m'.unacked \subseteq m.unacked)
          /\ \/ m'.pc \notin {"ack", "finish"}
             \/ m'.pc = "finish" /\ m'.dumped = FALSE
             \/ m'.nonce = m.nonce /\ m'.gens = m.gens /\ m.pc = "ack"
             \/ /\ m'.nonce = m.nonce /\ m'.gens = m.gens /\ m'.pc = m.pc
                /\ m'.dumped = m.dumped
      BY <1>5, <1>0, AttachReadsIs DEF Claimers, Server
    <3> QED BY <1>0, <2>1, <3>1, MonitorStays
  <2>4. ReporterBehind'
    <3>1. \/ i'.pc \notin {"ack", "finish"}
          \/ i'.pc = "finish" /\ i'.dumped = FALSE
          \/ i'.inc = i.inc /\ i'.gens = i.gens /\ i'.gen = i.gen /\ i.pc = "ack"
          \/ i' = i
      BY <1>5, <1>0, AttachReadsIs DEF Claimers, Server
    <3> QED BY <1>0, <2>1, <3>1, ReporterStays
  <2> QED BY <2>2, <2>3, <2>4
<1>6. CASE AttachApplies
  <2>1. /\ inc' = inc /\ (Covers \/ covered' = covered)
        /\ AcksBehind /\ MonitorBehind /\ ReporterBehind
    <3>1. Clean
      BY <1>6, <1>0, AttachAppliesHas, AttachAppliesTo
         DEF Server, stateVars, IsNew, history, Covers, Clean
    <3> QED BY <1>6, <1>0, <3>1, AttachAppliesHas, AttachAppliesTo
               DEF Server, stateVars, IsNew, history, Dumped
  <2>2. AcksBehind'
    <3>1. /\ acks' = acks /\ LateKeeps
          /\ \/ state'.unacked = {}
             \/ state'.nonce = state.nonce /\ state'.unacked \subseteq state.unacked
      BY <1>6, <1>0, AttachAppliesHas, AttachAppliesTo, LateSame
         DEF Server, stateVars, IsNew
    <3> QED BY <1>0, <2>1, <3>1, AcksStay
  <2>3. MonitorBehind'
    <3>1. /\ m'.unacked = {} \/ (m'.nonce = m.nonce /\ m'.unacked \subseteq m.unacked)
          /\ \/ m'.pc \notin {"ack", "finish"}
             \/ m'.pc = "finish" /\ m'.dumped = FALSE
             \/ m'.nonce = m.nonce /\ m'.gens = m.gens /\ m.pc = "ack"
             \/ /\ m'.nonce = m.nonce /\ m'.gens = m.gens /\ m'.pc = m.pc
                /\ m'.dumped = m.dumped
      BY <1>6, <1>0, AttachAppliesHas, AttachAppliesTo DEF Server, stateVars, IsNew
    <3> QED BY <1>0, <2>1, <3>1, MonitorStays
  <2>4. ReporterBehind'
    <3>1. \/ i'.pc \notin {"ack", "finish"}
          \/ i'.pc = "finish" /\ i'.dumped = FALSE
          \/ i'.inc = i.inc /\ i'.gens = i.gens /\ i'.gen = i.gen /\ i.pc = "ack"
          \/ i' = i
      BY <1>6, <1>0, AttachAppliesHas, AttachAppliesTo DEF Server, stateVars, IsNew
    <3> QED BY <1>0, <2>1, <3>1, ReporterStays
  <2> QED BY <2>2, <2>3, <2>4
<1>7. CASE Detach
  <2>1. /\ inc' = inc /\ (Covers \/ covered' = covered)
        /\ AcksBehind /\ MonitorBehind /\ ReporterBehind
    <3>1. Clean
      BY <1>7, <1>0, DetachIs DEF Server, history, Covers, Clean
    <3> QED BY <1>7, <1>0, <3>1, DetachIs DEF Server, history, Dumped
  <2>2. AcksBehind'
    <3>1. /\ acks' = acks /\ LateKeeps
          /\ \/ state'.unacked = {}
             \/ state'.nonce = state.nonce /\ state'.unacked \subseteq state.unacked
      BY <1>7, <1>0, DetachIs, NoStateIs, LateSame DEF Server, NoState
    <3> QED BY <1>0, <2>1, <3>1, AcksStay
  <2>3. MonitorBehind'
    <3>1. /\ m'.unacked = {} \/ (m'.nonce = m.nonce /\ m'.unacked \subseteq m.unacked)
          /\ \/ m'.pc \notin {"ack", "finish"}
             \/ m'.pc = "finish" /\ m'.dumped = FALSE
             \/ m'.nonce = m.nonce /\ m'.gens = m.gens /\ m.pc = "ack"
             \/ /\ m'.nonce = m.nonce /\ m'.gens = m.gens /\ m'.pc = m.pc
                /\ m'.dumped = m.dumped
      BY <1>7, <1>0, DetachIs DEF Server
    <3> QED BY <1>0, <2>1, <3>1, MonitorStays
  <2>4. ReporterBehind'
    <3>1. \/ i'.pc \notin {"ack", "finish"}
          \/ i'.pc = "finish" /\ i'.dumped = FALSE
          \/ i'.inc = i.inc /\ i'.gens = i.gens /\ i'.gen = i.gen /\ i.pc = "ack"
          \/ i' = i
      BY <1>7, <1>0, DetachIs DEF Server
    <3> QED BY <1>0, <2>1, <3>1, ReporterStays
  <2> QED BY <2>2, <2>3, <2>4
<1>8. CASE PollReadsKey
  <2>1. /\ inc' = inc /\ (Covers \/ covered' = covered)
        /\ AcksBehind /\ MonitorBehind /\ ReporterBehind
    <3>1. Clean
      BY <1>8, <1>0, PollReadsKeyIs DEF Server, Elsewhere, history, Covers, Clean
    <3> QED BY <1>8, <1>0, <3>1, PollReadsKeyIs DEF Server, Elsewhere, history,
               Dumped
  <2>2. AcksBehind'
    <3>1. /\ acks' = acks /\ LateKeeps
          /\ \/ state'.unacked = {}
             \/ state'.nonce = state.nonce /\ state'.unacked \subseteq state.unacked
      BY <1>8, <1>0, PollReadsKeyIs DEF Server, Elsewhere
    <3> QED BY <1>0, <2>1, <3>1, AcksStay
  <2>3. MonitorBehind'
    <3>1. /\ m'.unacked = {} \/ (m'.nonce = m.nonce /\ m'.unacked \subseteq m.unacked)
          /\ \/ m'.pc \notin {"ack", "finish"}
             \/ m'.pc = "finish" /\ m'.dumped = FALSE
             \/ m'.nonce = m.nonce /\ m'.gens = m.gens /\ m.pc = "ack"
             \/ /\ m'.nonce = m.nonce /\ m'.gens = m.gens /\ m'.pc = m.pc
                /\ m'.dumped = m.dumped
      BY <1>8, <1>0, PollReadsKeyIs DEF Server, Elsewhere
    <3> QED BY <1>0, <2>1, <3>1, MonitorStays
  <2>4. ReporterBehind'
    <3>1. \/ i'.pc \notin {"ack", "finish"}
          \/ i'.pc = "finish" /\ i'.dumped = FALSE
          \/ i'.inc = i.inc /\ i'.gens = i.gens /\ i'.gen = i.gen /\ i.pc = "ack"
          \/ i' = i
      BY <1>8, <1>0, PollReadsKeyIs DEF Server, Elsewhere
    <3> QED BY <1>0, <2>1, <3>1, ReporterStays
  <2> QED BY <2>2, <2>3, <2>4
<1>9. CASE PollReadsGen
  <2>1. /\ inc' = inc /\ (Covers \/ covered' = covered)
        /\ AcksBehind /\ MonitorBehind /\ ReporterBehind
    <3>1. Clean
      BY <1>9, <1>0, PollReadsGenIs DEF Server, Elsewhere, MonitorAt, history,
         Covers, Clean
    <3> QED BY <1>9, <1>0, <3>1, PollReadsGenIs DEF Server, Elsewhere, MonitorAt,
               history, Dumped
  <2>2. AcksBehind'
    <3>1. /\ acks' = acks /\ LateKeeps
          /\ \/ state'.unacked = {}
             \/ state'.nonce = state.nonce /\ state'.unacked \subseteq state.unacked
      BY <1>9, <1>0, PollReadsGenIs, NoPollHas DEF Server, Elsewhere, MonitorAt
    <3> QED BY <1>0, <2>1, <3>1, AcksStay
  <2>3. MonitorBehind'
    <3>1. /\ m'.unacked = {} \/ (m'.nonce = m.nonce /\ m'.unacked \subseteq m.unacked)
          /\ \/ m'.pc \notin {"ack", "finish"}
             \/ m'.pc = "finish" /\ m'.dumped = FALSE
             \/ m'.nonce = m.nonce /\ m'.gens = m.gens /\ m.pc = "ack"
             \/ /\ m'.nonce = m.nonce /\ m'.gens = m.gens /\ m'.pc = m.pc
                /\ m'.dumped = m.dumped
      BY <1>9, <1>0, PollReadsGenIs, NoPollHas DEF Server, Elsewhere, MonitorAt
    <3> QED BY <1>0, <2>1, <3>1, MonitorStays
  <2>4. ReporterBehind'
    <3>1. \/ i'.pc \notin {"ack", "finish"}
          \/ i'.pc = "finish" /\ i'.dumped = FALSE
          \/ i'.inc = i.inc /\ i'.gens = i.gens /\ i'.gen = i.gen /\ i.pc = "ack"
          \/ i' = i
      BY <1>9, <1>0, PollReadsGenIs, NoPollHas DEF Server, Elsewhere, MonitorAt
    <3> QED BY <1>0, <2>1, <3>1, ReporterStays
  <2> QED BY <2>2, <2>3, <2>4
<1>10. CASE PollOverruns
  <2>1. /\ inc' = inc /\ (Covers \/ covered' = covered)
        /\ AcksBehind /\ MonitorBehind /\ ReporterBehind
    <3>1. Clean
      BY <1>10, <1>0, PollOverrunsIs DEF Server, Elsewhere, history, Covers, Clean
    <3> QED BY <1>10, <1>0, <3>1, PollOverrunsIs DEF Server, Elsewhere, history,
               Dumped
  <2>2. AcksBehind'
    <3>1. /\ acks' = acks /\ LateKeeps
          /\ \/ state'.unacked = {}
             \/ state'.nonce = state.nonce /\ state'.unacked \subseteq state.unacked
      BY <1>10, <1>0, PollOverrunsIs, NoPollHas DEF Server, Elsewhere
    <3> QED BY <1>0, <2>1, <3>1, AcksStay
  <2>3. MonitorBehind'
    <3>1. /\ m'.unacked = {} \/ (m'.nonce = m.nonce /\ m'.unacked \subseteq m.unacked)
          /\ \/ m'.pc \notin {"ack", "finish"}
             \/ m'.pc = "finish" /\ m'.dumped = FALSE
             \/ m'.nonce = m.nonce /\ m'.gens = m.gens /\ m.pc = "ack"
             \/ /\ m'.nonce = m.nonce /\ m'.gens = m.gens /\ m'.pc = m.pc
                /\ m'.dumped = m.dumped
      BY <1>10, <1>0, PollOverrunsIs, NoPollHas DEF Server, Elsewhere
    <3> QED BY <1>0, <2>1, <3>1, MonitorStays
  <2>4. ReporterBehind'
    <3>1. \/ i'.pc \notin {"ack", "finish"}
          \/ i'.pc = "finish" /\ i'.dumped = FALSE
          \/ i'.inc = i.inc /\ i'.gens = i.gens /\ i'.gen = i.gen /\ i.pc = "ack"
          \/ i' = i
      BY <1>10, <1>0, PollOverrunsIs, NoPollHas DEF Server, Elsewhere
    <3> QED BY <1>0, <2>1, <3>1, ReporterStays
  <2> QED BY <2>2, <2>3, <2>4
<1>11. ASSUME NEW retry \in BOOLEAN, PollApplies(retry) PROVE (AcksBehind /\ MonitorBehind /\ ReporterBehind)'
  <2>1. /\ inc' = inc /\ (Covers \/ covered' = covered)
        /\ AcksBehind /\ MonitorBehind /\ ReporterBehind
    BY <1>11, <1>0, PollAppliesHas DEF Server, history, Dumped, Clean
  <2>2. AcksBehind' /\ MonitorBehind'
    <3>1. acks' = acks /\ LateKeeps /\ m.pc = "seen"
      BY <1>11, <1>0, PollAppliesHas DEF Server
    <3>2. CASE m' = NoPoll /\ UNCHANGED stateVars
      BY <1>0, <2>1, <3>1, <3>2, NoPollHas, AcksStay, MonitorStays DEF stateVars
    <3>3. CASE m' = NoPoll /\ IsNew(state', m.nonce, m.gen)
      <4>1. state'.unacked = {}  BY <3>3 DEF IsNew
      <4> QED BY <1>0, <2>1, <3>1, <3>3, <4>1, NoPollHas, AcksStay, MonitorStays
    <3>4. ASSUME NEW s \in States, Applied(s, retry),
                 SameState(s, state) \/ IsNew(s, m.nonce, 0)
          PROVE  AcksBehind' /\ MonitorBehind'
      <4>1. /\ state' = Claim(s, m.gen, retry) /\ m'.pc = "reack"
            /\ m'.nonce = m.nonce /\ m'.unacked = s.unacked
        BY <3>4 DEF Applied
      <4>2. state'.nonce = s.nonce /\ state'.unacked = s.unacked
        BY <1>11, <1>0, <4>1, ClaimKeeps
      <4>3. s.unacked = {} \/ (s.nonce = state.nonce /\ s.unacked = state.unacked)
        BY <3>4 DEF SameState, IsNew
      <4>4. AcksBehind'
        BY <1>0, <2>1, <3>1, <4>2, <4>3, AcksStay
      <4>5. m'.nonce = inc' => UpTo(m'.unacked, covered'[inc'])
        <5>1. CASE s.unacked = {}
          BY <4>1, <5>1 DEF UpTo
        <5>2. CASE s.unacked # {}
          <6>1. m.nonce = s.nonce
            BY <3>4 DEF Applied, SameState, IsNew, NewState, NoState
          <6>2. state'.nonce = inc' => UpTo(state'.unacked, covered'[inc'])
            BY <4>4 DEF AcksBehind, Behind
          <6> QED BY <4>1, <4>2, <6>1, <6>2
        <5> QED BY <5>1, <5>2
      <4>6. MonitorBehind'
        BY <4>1, <4>5 DEF MonitorBehind, Behind
      <4> QED BY <4>4, <4>6
    <3> QED BY <1>11, <1>0, <3>2, <3>3, <3>4, PollAppliesTo
  <2>4. ReporterBehind'
    <3>1. \/ i'.pc \notin {"ack", "finish"}
          \/ i'.pc = "finish" /\ i'.dumped = FALSE
          \/ i'.inc = i.inc /\ i'.gens = i.gens /\ i'.gen = i.gen /\ i.pc = "ack"
          \/ i' = i
      BY <1>11, <1>0, PollAppliesHas, PollAppliesTo, NoPollHas DEF Server, stateVars
    <3> QED BY <1>0, <2>1, <3>1, ReporterStays
  <2> QED BY <2>2, <2>4
<1>12. CASE Reacks
  <2>1. /\ inc' = inc /\ (Covers \/ covered' = covered)
        /\ AcksBehind /\ MonitorBehind /\ ReporterBehind
    <3>1. Clean
      BY <1>12, <1>0, ReacksIs DEF Elsewhere, MonitorAt, history, Covers, Clean
    <3> QED BY <1>12, <1>0, <3>1, ReacksIs DEF Elsewhere, MonitorAt, history, Dumped
  <2>2. AcksBehind'
    <3>1. LET n == [state EXCEPT !.unacked = @ \ m.unacked]
          IN n.nonce = state.nonce /\ n.unacked \subseteq state.unacked
      BY <1>0 DEF States
    <3>2. state'.nonce = state.nonce /\ state'.unacked \subseteq state.unacked
      BY <1>12, <1>0, <3>1, ReacksIs
    <3>3. CASE m.nonce # inc
      <4>1. acks' = acks /\ LateKeeps
        BY <1>12, <1>0, <2>1, <3>3, ReacksIs DEF Clean
      <4> QED BY <1>0, <2>1, <3>2, <4>1, AcksStay
    <3>4. CASE m.nonce = inc
      <4>2. Behind(m.unacked)
        BY <2>1, <3>4 DEF MonitorBehind
      <4>3. /\ \A k \in acks' : k \in acks \/ (k[1] = inc /\ k[2] \in m.unacked)
            /\ \A l \in late' : l.op = "ack" /\ l.inc = inc =>
                                  LateWas(l) \/ l.gens \subseteq m.unacked
        BY <1>12, <1>0, ReacksIs DEF Acks, LateGains
      <4> QED BY <1>0, <2>1, <3>2, <4>2, <4>3, AcksKeep
    <3> QED BY <3>3, <3>4
  <2>3. MonitorBehind'
    <3>1. /\ m'.unacked = {} \/ (m'.nonce = m.nonce /\ m'.unacked \subseteq m.unacked)
          /\ \/ m'.pc \notin {"ack", "finish"}
             \/ m'.pc = "finish" /\ m'.dumped = FALSE
             \/ m'.nonce = m.nonce /\ m'.gens = m.gens /\ m.pc = "ack"
             \/ /\ m'.nonce = m.nonce /\ m'.gens = m.gens /\ m'.pc = m.pc
                /\ m'.dumped = m.dumped
      BY <1>12, <1>0, ReacksIs, NoPollHas DEF Elsewhere, MonitorAt
    <3> QED BY <1>0, <2>1, <3>1, MonitorStays
  <2>4. ReporterBehind'
    <3>1. \/ i'.pc \notin {"ack", "finish"}
          \/ i'.pc = "finish" /\ i'.dumped = FALSE
          \/ i'.inc = i.inc /\ i'.gens = i.gens /\ i'.gen = i.gen /\ i.pc = "ack"
          \/ i' = i
      BY <1>12, <1>0, ReacksIs, NoPollHas DEF Elsewhere, MonitorAt
    <3> QED BY <1>0, <2>1, <3>1, ReporterStays
  <2> QED BY <2>2, <2>3, <2>4
<1>13. CASE AsksSignaller
  <2>1. /\ inc' = inc /\ (Covers \/ covered' = covered)
        /\ AcksBehind /\ MonitorBehind /\ ReporterBehind
    <3>1. Clean
      BY <1>13, <1>0, AsksSignallerIs DEF Server, Elsewhere, MonitorAt, history,
         Covers, Clean
    <3> QED BY <1>13, <1>0, <3>1, AsksSignallerIs DEF Server, Elsewhere,
               MonitorAt, history, Dumped
  <2>2. AcksBehind'
    <3>1. /\ acks' = acks /\ LateKeeps
          /\ \/ state'.unacked = {}
             \/ state'.nonce = state.nonce /\ state'.unacked \subseteq state.unacked
      BY <1>13, <1>0, AsksSignallerIs DEF Server, Elsewhere, MonitorAt
    <3> QED BY <1>0, <2>1, <3>1, AcksStay
  <2>3. MonitorBehind'
    <3>1. /\ m'.unacked = {} \/ (m'.nonce = m.nonce /\ m'.unacked \subseteq m.unacked)
          /\ \/ m'.pc \notin {"ack", "finish"}
             \/ m'.pc = "finish" /\ m'.dumped = FALSE
             \/ m'.nonce = m.nonce /\ m'.gens = m.gens /\ m.pc = "ack"
             \/ /\ m'.nonce = m.nonce /\ m'.gens = m.gens /\ m'.pc = m.pc
                /\ m'.dumped = m.dumped
      BY <1>13, <1>0, AsksSignallerIs DEF Server, Elsewhere, MonitorAt
    <3> QED BY <1>0, <2>1, <3>1, MonitorStays
  <2>4. ReporterBehind'
    <3>1. \/ i'.pc \notin {"ack", "finish"}
          \/ i'.pc = "finish" /\ i'.dumped = FALSE
          \/ i'.inc = i.inc /\ i'.gens = i.gens /\ i'.gen = i.gen /\ i.pc = "ack"
          \/ i' = i
      BY <1>13, <1>0, AsksSignallerIs DEF Server, Elsewhere, MonitorAt
    <3> QED BY <1>0, <2>1, <3>1, ReporterStays
  <2> QED BY <2>2, <2>3, <2>4
<1>14. CASE MonitorDumps
  <2>1. /\ inc' = inc /\ (Covers \/ covered' = covered)
        /\ AcksBehind /\ MonitorBehind /\ ReporterBehind
    <3>1. Clean
      BY <1>14, <1>0, MonitorDumpsIs DEF Server, Elsewhere, MonitorAt, history,
         Covers, Clean
    <3> QED BY <1>14, <1>0, <3>1, MonitorDumpsIs DEF Server, Elsewhere,
               MonitorAt, history, Dumped
  <2>2. AcksBehind'
    <3>1. /\ acks' = acks /\ LateKeeps
          /\ \/ state'.unacked = {}
             \/ state'.nonce = state.nonce /\ state'.unacked \subseteq state.unacked
      BY <1>14, <1>0, MonitorDumpsIs DEF Server, Elsewhere, MonitorAt
    <3> QED BY <1>0, <2>1, <3>1, AcksStay
  <2>3. MonitorBehind'
    <3>1. CASE MonitorAt("ack") /\ Covers
      <4>0. Clean
        BY <1>0, <2>1, <3>1 DEF Clean, Covers
      <4>1. m.nonce = inc => UpTo(m.gens, gen)
        BY <1>0, <4>0 DEF Claims
      <4>2. covered'[inc'] = gen
        BY <1>0, <2>1, <3>1, CoveredGrows
      <4>3. m.nonce = inc => UpTo(m.unacked, covered'[inc'])
        BY <1>0, <2>1, CoveredGrows DEF MonitorBehind, Behind
      <4>4. m'.unacked = m.unacked
        BY <1>14, <1>0, MonitorDumpsIs
      <4> QED BY <2>1, <3>1, <4>1, <4>2, <4>3, <4>4
              DEF MonitorAt, MonitorBehind, Behind
    <3>2. CASE MonitorAt("finish") /\ m'.dumped = m.dumped
      <4>1. m'.dumped = FALSE
        BY <1>14, <1>0, <3>2, MonitorDumpsIs DEF Identity
      <4> QED BY <1>0, <2>1, <3>2, <4>1, MonitorStays DEF MonitorAt
    <3> QED BY <1>14, <1>0, <3>1, <3>2, MonitorDumpsIs
  <2>4. ReporterBehind'
    <3>1. \/ i'.pc \notin {"ack", "finish"}
          \/ i'.pc = "finish" /\ i'.dumped = FALSE
          \/ i'.inc = i.inc /\ i'.gens = i.gens /\ i'.gen = i.gen /\ i.pc = "ack"
          \/ i' = i
      BY <1>14, <1>0, MonitorDumpsIs DEF Server, Elsewhere, MonitorAt
    <3> QED BY <1>0, <2>1, <3>1, ReporterStays
  <2> QED BY <2>2, <2>3, <2>4
<1>15. CASE MonitorAcks
  <2>1. /\ inc' = inc /\ (Covers \/ covered' = covered)
        /\ AcksBehind /\ MonitorBehind /\ ReporterBehind
    <3>1. Clean
      BY <1>15, <1>0, MonitorAcksIs DEF Elsewhere, MonitorAt, history, Covers, Clean
    <3> QED BY <1>15, <1>0, <3>1, MonitorAcksIs DEF Elsewhere, MonitorAt,
               history, Dumped
  <2>2. AcksBehind'
    <3>1. m.pc = "ack" /\ state' = state
      BY <1>15, <1>0, MonitorAcksIs
    <3>2. CASE m.nonce # inc
      <4>1. acks' = acks /\ LateKeeps
        BY <1>15, <1>0, <2>1, <3>2, MonitorAcksIs DEF Clean
      <4> QED BY <1>0, <2>1, <3>1, <4>1, AcksStay
    <3>3. CASE m.nonce = inc
      <4>1. Behind(m.gens)
        BY <2>1, <3>1, <3>3 DEF MonitorBehind
      <4>2. /\ \A k \in acks' : k \in acks \/ (k[1] = inc /\ k[2] \in m.gens)
            /\ \A l \in late' : l.op = "ack" /\ l.inc = inc =>
                                  LateWas(l) \/ l.gens \subseteq m.gens
        BY <1>15, <1>0, MonitorAcksIs DEF Acks, LateGains
      <4> QED BY <1>0, <2>1, <3>1, <4>1, <4>2, AcksKeep
    <3> QED BY <3>2, <3>3
  <2>3. MonitorBehind'
    <3>1. /\ m'.unacked = {} \/ (m'.nonce = m.nonce /\ m'.unacked \subseteq m.unacked)
          /\ \/ m'.pc \notin {"ack", "finish"}
             \/ m'.pc = "finish" /\ m'.dumped = FALSE
             \/ m'.nonce = m.nonce /\ m'.gens = m.gens /\ m.pc = "ack"
             \/ /\ m'.nonce = m.nonce /\ m'.gens = m.gens /\ m'.pc = m.pc
                /\ m'.dumped = m.dumped
      BY <1>15, <1>0, MonitorAcksIs DEF Elsewhere, MonitorAt
    <3> QED BY <1>0, <2>1, <3>1, MonitorStays
  <2>4. ReporterBehind'
    <3>1. \/ i'.pc \notin {"ack", "finish"}
          \/ i'.pc = "finish" /\ i'.dumped = FALSE
          \/ i'.inc = i.inc /\ i'.gens = i.gens /\ i'.gen = i.gen /\ i.pc = "ack"
          \/ i' = i
      BY <1>15, <1>0, MonitorAcksIs DEF Elsewhere, MonitorAt
    <3> QED BY <1>0, <2>1, <3>1, ReporterStays
  <2> QED BY <2>2, <2>3, <2>4
<1>16. CASE MonitorFinishes
  <2>1. /\ inc' = inc /\ (Covers \/ covered' = covered)
        /\ AcksBehind /\ MonitorBehind /\ ReporterBehind
    <3>1. Clean
      BY <1>16, <1>0, MonitorFinishesIs DEF Server, Elsewhere, history, Covers, Clean
    <3> QED BY <1>16, <1>0, <3>1, MonitorFinishesIs
               DEF Server, Elsewhere, history, Dumped
  <2>2. AcksBehind'
    <3>1. /\ m.pc = "finish" /\ acks' = acks /\ LateKeeps /\ Clean
          /\ IF m.sid # 0 /\ m.sid = state.sid
             THEN Finished(state, m.gens, m.dumped, state')
             ELSE state' = state
      BY <1>16, <1>0, MonitorFinishesIs DEF Server, history, Clean
    <3>2. CASE m.sid # 0 /\ m.sid = state.sid /\ m.gens # {} /\ m.dumped = TRUE
      <4>1. /\ state'.nonce = state.nonce
            /\ state'.unacked \subseteq state.unacked \cup m.gens
        BY <3>1, <3>2 DEF Finished
      <4>2. CASE state.nonce = inc
        <5>1. Behind(m.gens)
          BY <1>0, <2>1, <3>1, <3>2, <4>2 DEF MonitorBehind, Identity, Serving
        <5>2. /\ \A k \in acks' : k \in acks \/ (k[1] = inc /\ k[2] \in m.gens)
              /\ \A l \in late' : l.op = "ack" /\ l.inc = inc =>
                                    LateWas(l) \/ l.gens \subseteq m.gens
          BY <3>1 DEF LateKeeps
        <5> QED BY <1>0, <2>1, <4>1, <5>1, <5>2, AcksKeep
      <4>3. CASE state.nonce # inc
        <5>1. Behind({}) /\ {} \in SUBSET Gens
          BY DEF Behind, UpTo
        <5>2. /\ \A k \in acks' : k \in acks \/ (k[1] = inc /\ k[2] \in {})
              /\ \A l \in late' : l.op = "ack" /\ l.inc = inc =>
                                    LateWas(l) \/ l.gens \subseteq {}
          BY <3>1 DEF LateKeeps
        <5> QED BY <1>0, <2>1, <4>1, <4>3, <5>1, <5>2, AcksKeep
      <4> QED BY <4>2, <4>3
    <3>3. CASE ~(m.sid # 0 /\ m.sid = state.sid /\ m.gens # {} /\ m.dumped = TRUE)
      <4>1. state'.nonce = state.nonce /\ state'.unacked \subseteq state.unacked
        <5>1. CASE m.sid # 0 /\ m.sid = state.sid
          <6>1. Finished(state, m.gens, m.dumped, state')
            BY <3>1, <5>1
          <6>2. CASE m.gens = {}
            BY <6>1, <6>2 DEF Finished
          <6>3. CASE m.dumped = FALSE
            BY <6>1, <6>3 DEF Finished
          <6> QED BY <1>0, <3>3, <5>1, <6>2, <6>3 DEF Polls, Incidents
        <5>2. CASE ~(m.sid # 0 /\ m.sid = state.sid)
          BY <3>1, <5>2
        <5> QED BY <5>1, <5>2
      <4> QED BY <1>0, <2>1, <3>1, <4>1, AcksStay
    <3> QED BY <3>2, <3>3
  <2>3. MonitorBehind'
    <3>1. /\ m'.unacked = {} \/ (m'.nonce = m.nonce /\ m'.unacked \subseteq m.unacked)
          /\ \/ m'.pc \notin {"ack", "finish"}
             \/ m'.pc = "finish" /\ m'.dumped = FALSE
             \/ m'.nonce = m.nonce /\ m'.gens = m.gens /\ m.pc = "ack"
             \/ /\ m'.nonce = m.nonce /\ m'.gens = m.gens /\ m'.pc = m.pc
                /\ m'.dumped = m.dumped
      BY <1>16, <1>0, MonitorFinishesIs, NoPollHas DEF Server, Elsewhere
    <3> QED BY <1>0, <2>1, <3>1, MonitorStays
  <2>4. ReporterBehind'
    <3>1. \/ i'.pc \notin {"ack", "finish"}
          \/ i'.pc = "finish" /\ i'.dumped = FALSE
          \/ i'.inc = i.inc /\ i'.gens = i.gens /\ i'.gen = i.gen /\ i.pc = "ack"
          \/ i' = i
      BY <1>16, <1>0, MonitorFinishesIs, NoPollHas DEF Server, Elsewhere
    <3> QED BY <1>0, <2>1, <3>1, ReporterStays
  <2> QED BY <2>2, <2>3, <2>4
<1>17. CASE DumpsForTorch
  <2>1. /\ inc' = inc /\ (Covers \/ covered' = covered)
        /\ AcksBehind /\ MonitorBehind /\ ReporterBehind
    <3>1. Clean
      BY <1>17, <1>0, DumpsForTorchIs DEF Server, Elsewhere, SameState, history,
         Covers, Clean
    <3> QED BY <1>17, <1>0, <3>1, DumpsForTorchIs DEF Server, Elsewhere,
               SameState, history, Dumped
  <2>2. AcksBehind'
    <3>1. /\ acks' = acks /\ LateKeeps
          /\ \/ state'.unacked = {}
             \/ state'.nonce = state.nonce /\ state'.unacked \subseteq state.unacked
      BY <1>17, <1>0, DumpsForTorchIs, NoPollHas DEF Server, Elsewhere, SameState
    <3> QED BY <1>0, <2>1, <3>1, AcksStay
  <2>3. MonitorBehind'
    <3>1. /\ m'.unacked = {} \/ (m'.nonce = m.nonce /\ m'.unacked \subseteq m.unacked)
          /\ \/ m'.pc \notin {"ack", "finish"}
             \/ m'.pc = "finish" /\ m'.dumped = FALSE
             \/ m'.nonce = m.nonce /\ m'.gens = m.gens /\ m.pc = "ack"
             \/ /\ m'.nonce = m.nonce /\ m'.gens = m.gens /\ m'.pc = m.pc
                /\ m'.dumped = m.dumped
      BY <1>17, <1>0, DumpsForTorchIs, NoPollHas DEF Server, Elsewhere, SameState
    <3> QED BY <1>0, <2>1, <3>1, MonitorStays
  <2>4. ReporterBehind'
    <3>1. \/ i'.pc \notin {"ack", "finish"}
          \/ i'.pc = "finish" /\ i'.dumped = FALSE
          \/ i'.inc = i.inc /\ i'.gens = i.gens /\ i'.gen = i.gen /\ i.pc = "ack"
          \/ i' = i
      BY <1>17, <1>0, DumpsForTorchIs, NoPollHas DEF Server, Elsewhere, SameState
    <3> QED BY <1>0, <2>1, <3>1, ReporterStays
  <2> QED BY <2>2, <2>3, <2>4
<1>18. CASE SignalAdds
  <2>1. /\ inc' = inc /\ (Covers \/ covered' = covered)
        /\ AcksBehind /\ MonitorBehind /\ ReporterBehind
    <3>1. Clean
      BY <1>18, <1>0, SignalAddsIs DEF Aside, history, Covers, Clean
    <3> QED BY <1>18, <1>0, <3>1, SignalAddsIs DEF Aside, history, Dumped
  <2>2. AcksBehind'
    <3>1. /\ acks' = acks /\ LateKeeps
          /\ \/ state'.unacked = {}
             \/ state'.nonce = state.nonce /\ state'.unacked \subseteq state.unacked
      BY <1>18, <1>0, SignalAddsIs DEF Aside
    <3> QED BY <1>0, <2>1, <3>1, AcksStay
  <2>3. MonitorBehind'
    <3>1. /\ m'.unacked = {} \/ (m'.nonce = m.nonce /\ m'.unacked \subseteq m.unacked)
          /\ \/ m'.pc \notin {"ack", "finish"}
             \/ m'.pc = "finish" /\ m'.dumped = FALSE
             \/ m'.nonce = m.nonce /\ m'.gens = m.gens /\ m.pc = "ack"
             \/ /\ m'.nonce = m.nonce /\ m'.gens = m.gens /\ m'.pc = m.pc
                /\ m'.dumped = m.dumped
      BY <1>18, <1>0, SignalAddsIs DEF Aside
    <3> QED BY <1>0, <2>1, <3>1, MonitorStays
  <2>4. ReporterBehind'
    <3>1. \/ i'.pc \notin {"ack", "finish"}
          \/ i'.pc = "finish" /\ i'.dumped = FALSE
          \/ i'.inc = i.inc /\ i'.gens = i.gens /\ i'.gen = i.gen /\ i.pc = "ack"
          \/ i' = i
      BY <1>18, <1>0, SignalAddsIs DEF Aside
    <3> QED BY <1>0, <2>1, <3>1, ReporterStays
  <2> QED BY <2>2, <2>3, <2>4
<1>19. CASE SignalSets
  <2>1. /\ inc' = inc /\ (Covers \/ covered' = covered)
        /\ AcksBehind /\ MonitorBehind /\ ReporterBehind
    <3>1. Clean
      BY <1>19, <1>0, SignalSetsIs DEF Server, Aside, ReporterAt, history, Covers, Clean
    <3> QED BY <1>19, <1>0, <3>1, SignalSetsIs DEF Server, Aside, ReporterAt,
               history, Dumped
  <2>2. AcksBehind'
    <3>1. /\ acks' = acks /\ LateKeeps
          /\ \/ state'.unacked = {}
             \/ state'.nonce = state.nonce /\ state'.unacked \subseteq state.unacked
      BY <1>19, <1>0, SignalSetsIs DEF Server, Aside, ReporterAt
    <3> QED BY <1>0, <2>1, <3>1, AcksStay
  <2>3. MonitorBehind'
    <3>1. /\ m'.unacked = {} \/ (m'.nonce = m.nonce /\ m'.unacked \subseteq m.unacked)
          /\ \/ m'.pc \notin {"ack", "finish"}
             \/ m'.pc = "finish" /\ m'.dumped = FALSE
             \/ m'.nonce = m.nonce /\ m'.gens = m.gens /\ m.pc = "ack"
             \/ /\ m'.nonce = m.nonce /\ m'.gens = m.gens /\ m'.pc = m.pc
                /\ m'.dumped = m.dumped
      BY <1>19, <1>0, SignalSetsIs DEF Server, Aside, ReporterAt
    <3> QED BY <1>0, <2>1, <3>1, MonitorStays
  <2>4. ReporterBehind'
    <3>1. \/ i'.pc \notin {"ack", "finish"}
          \/ i'.pc = "finish" /\ i'.dumped = FALSE
          \/ i'.inc = i.inc /\ i'.gens = i.gens /\ i'.gen = i.gen /\ i.pc = "ack"
          \/ i' = i
      BY <1>19, <1>0, SignalSetsIs DEF Server, Aside, ReporterAt
    <3> QED BY <1>0, <2>1, <3>1, ReporterStays
  <2> QED BY <2>2, <2>3, <2>4
<1>20. CASE SignalGivenUp
  <2>1. /\ inc' = inc /\ (Covers \/ covered' = covered)
        /\ AcksBehind /\ MonitorBehind /\ ReporterBehind
    <3>1. Clean
      BY <1>20, <1>0, SignalGivenUpIs DEF Server, Aside, history, Covers, Clean
    <3> QED BY <1>20, <1>0, <3>1, SignalGivenUpIs DEF Server, Aside, history, Dumped
  <2>2. AcksBehind'
    <3>1. /\ acks' = acks /\ LateKeeps
          /\ \/ state'.unacked = {}
             \/ state'.nonce = state.nonce /\ state'.unacked \subseteq state.unacked
      BY <1>20, <1>0, SignalGivenUpIs DEF Server, Aside
    <3> QED BY <1>0, <2>1, <3>1, AcksStay
  <2>3. MonitorBehind'
    <3>1. /\ m'.unacked = {} \/ (m'.nonce = m.nonce /\ m'.unacked \subseteq m.unacked)
          /\ \/ m'.pc \notin {"ack", "finish"}
             \/ m'.pc = "finish" /\ m'.dumped = FALSE
             \/ m'.nonce = m.nonce /\ m'.gens = m.gens /\ m.pc = "ack"
             \/ /\ m'.nonce = m.nonce /\ m'.gens = m.gens /\ m'.pc = m.pc
                /\ m'.dumped = m.dumped
      BY <1>20, <1>0, SignalGivenUpIs DEF Server, Aside
    <3> QED BY <1>0, <2>1, <3>1, MonitorStays
  <2>4. ReporterBehind'
    <3>1. \/ i'.pc \notin {"ack", "finish"}
          \/ i'.pc = "finish" /\ i'.dumped = FALSE
          \/ i'.inc = i.inc /\ i'.gens = i.gens /\ i'.gen = i.gen /\ i.pc = "ack"
          \/ i' = i
      BY <1>20, <1>0, SignalGivenUpIs DEF Server, Aside
    <3> QED BY <1>0, <2>1, <3>1, ReporterStays
  <2> QED BY <2>2, <2>3, <2>4
<1>21. ASSUME NEW retry \in BOOLEAN, IncidentClaims(retry) PROVE (AcksBehind /\ MonitorBehind /\ ReporterBehind)'
  <2>1. /\ inc' = inc /\ (Covers \/ covered' = covered)
        /\ AcksBehind /\ MonitorBehind /\ ReporterBehind
    <3>1. Clean
      BY <1>21, <1>0, IncidentClaimsIs DEF Server, Aside, history, Covers, Clean
    <3> QED BY <1>21, <1>0, <3>1, IncidentClaimsIs DEF Server, Aside, history,
               Dumped
  <2>2. AcksBehind'
    <3>1. /\ acks' = acks /\ LateKeeps
          /\ \/ state' = state
             \/ state' = Claim(state, i.gen, retry)
      BY <1>21, <1>0, IncidentClaimsIs DEF Server
    <3>2. i.gen \in 0..MaxGen  BY <1>0 DEF Incidents
    <3>3. state'.nonce = state.nonce /\ state'.unacked = state.unacked
      BY <1>21, <1>0, <3>1, <3>2, ClaimKeeps
    <3> QED BY <1>0, <2>1, <3>1, <3>3, AcksStay
  <2>3. MonitorBehind'
    <3>1. /\ m'.unacked = {} \/ (m'.nonce = m.nonce /\ m'.unacked \subseteq m.unacked)
          /\ \/ m'.pc \notin {"ack", "finish"}
             \/ m'.pc = "finish" /\ m'.dumped = FALSE
             \/ m'.nonce = m.nonce /\ m'.gens = m.gens /\ m.pc = "ack"
             \/ /\ m'.nonce = m.nonce /\ m'.gens = m.gens /\ m'.pc = m.pc
                /\ m'.dumped = m.dumped
      BY <1>21, <1>0, IncidentClaimsIs DEF Server, Aside
    <3> QED BY <1>0, <2>1, <3>1, MonitorStays
  <2>4. ReporterBehind'
    <3>1. \/ i'.pc \notin {"ack", "finish"}
          \/ i'.pc = "finish" /\ i'.dumped = FALSE
          \/ i'.inc = i.inc /\ i'.gens = i.gens /\ i'.gen = i.gen /\ i.pc = "ack"
          \/ i' = i
      BY <1>21, <1>0, IncidentClaimsIs DEF Server, Aside
    <3> QED BY <1>0, <2>1, <3>1, ReporterStays
  <2> QED BY <2>2, <2>3, <2>4
<1>22. CASE IncidentDumps
  <2>1. /\ inc' = inc /\ (Covers \/ covered' = covered)
        /\ AcksBehind /\ MonitorBehind /\ ReporterBehind
    <3>1. Clean
      BY <1>22, <1>0, IncidentDumpsIs DEF Server, Aside, ReporterAt, history, Covers, Clean
    <3> QED BY <1>22, <1>0, <3>1, IncidentDumpsIs DEF Server, Aside, ReporterAt,
               history, Dumped
  <2>2. AcksBehind'
    <3>1. /\ acks' = acks /\ LateKeeps
          /\ \/ state'.unacked = {}
             \/ state'.nonce = state.nonce /\ state'.unacked \subseteq state.unacked
      BY <1>22, <1>0, IncidentDumpsIs, NoIncidentHas DEF Server, Aside, ReporterAt
    <3> QED BY <1>0, <2>1, <3>1, AcksStay
  <2>3. MonitorBehind'
    <3>1. /\ m'.unacked = {} \/ (m'.nonce = m.nonce /\ m'.unacked \subseteq m.unacked)
          /\ \/ m'.pc \notin {"ack", "finish"}
             \/ m'.pc = "finish" /\ m'.dumped = FALSE
             \/ m'.nonce = m.nonce /\ m'.gens = m.gens /\ m.pc = "ack"
             \/ /\ m'.nonce = m.nonce /\ m'.gens = m.gens /\ m'.pc = m.pc
                /\ m'.dumped = m.dumped
      BY <1>22, <1>0, IncidentDumpsIs, NoIncidentHas DEF Server, Aside, ReporterAt
    <3> QED BY <1>0, <2>1, <3>1, MonitorStays
  <2>4. ReporterBehind'
    <3>1. CASE i' = NoIncident
      BY <1>0, <2>1, <3>1, NoIncidentHas, ReporterStays
    <3>2. CASE ReporterAt("ack") /\ Covers /\ i'.gen = i.gen
      <4>0. Clean
        BY <1>0, <2>1, <3>2 DEF Clean, Covers
      <4>1. i.inc = inc => UpTo(i.gens, gen) /\ i.gen <= gen
        BY <1>0, <4>0 DEF Claims, Signalled
      <4>2. covered'[inc'] = gen
        BY <1>0, <2>1, <3>2, CoveredGrows
      <4> QED BY <2>1, <3>2, <4>1, <4>2 DEF ReporterAt, ReporterBehind, Behind, UpTo
    <3>3. CASE ReporterAt("finish") /\ i'.dumped = i.dumped
      <4>1. i'.dumped = FALSE
        BY <1>22, <1>0, <3>3, IncidentDumpsIs DEF Identity
      <4> QED BY <1>0, <2>1, <3>3, <4>1, ReporterStays DEF ReporterAt
    <3> QED BY <1>22, <1>0, <3>1, <3>2, <3>3, IncidentDumpsIs
  <2> QED BY <2>2, <2>3, <2>4
<1>23. CASE IncidentAcks
  <2>1. /\ inc' = inc /\ (Covers \/ covered' = covered)
        /\ AcksBehind /\ MonitorBehind /\ ReporterBehind
    <3>1. Clean
      BY <1>23, <1>0, IncidentAcksIs DEF Aside, ReporterAt, history, Covers, Clean
    <3> QED BY <1>23, <1>0, <3>1, IncidentAcksIs DEF Aside, ReporterAt, history,
               Dumped
  <2>2. AcksBehind'
    <3>1. i.pc = "ack" /\ state' = state
      BY <1>23, <1>0, IncidentAcksIs
    <3>2. CASE i.inc = inc
      <4> DEFINE mine == i.gens \cup {i.gen}
      <4>1. Behind(mine) /\ mine \in SUBSET Gens
        BY <1>0, <2>1, <3>1, <3>2, Constants DEF ReporterBehind, Identity,
           Incidents, Gens
      <4>2. /\ \A k \in acks' : k \in acks \/ (k[1] = inc /\ k[2] \in mine)
            /\ \A l \in late' : l.op = "ack" /\ l.inc = inc =>
                                  LateWas(l) \/ l.gens \subseteq mine
        BY <1>23, <1>0, IncidentAcksIs DEF Acks, LateGains, LateKeeps
      <4> HIDE DEF mine
      <4> QED BY <1>0, <2>1, <3>1, <4>1, <4>2, AcksKeep
    <3>3. CASE i.inc # inc
      <4>1. Behind({}) /\ {} \in SUBSET Gens
        BY DEF Behind, UpTo
      <4>2. /\ \A k \in acks' : k \in acks \/ (k[1] = inc /\ k[2] \in {})
            /\ \A l \in late' : l.op = "ack" /\ l.inc = inc =>
                                  LateWas(l) \/ l.gens \subseteq {}
        BY <1>23, <1>0, <3>3, IncidentAcksIs DEF LateGains
      <4> QED BY <1>0, <2>1, <3>1, <4>1, <4>2, AcksKeep
    <3> QED BY <3>2, <3>3
  <2>3. MonitorBehind'
    <3>1. /\ m'.unacked = {} \/ (m'.nonce = m.nonce /\ m'.unacked \subseteq m.unacked)
          /\ \/ m'.pc \notin {"ack", "finish"}
             \/ m'.pc = "finish" /\ m'.dumped = FALSE
             \/ m'.nonce = m.nonce /\ m'.gens = m.gens /\ m.pc = "ack"
             \/ /\ m'.nonce = m.nonce /\ m'.gens = m.gens /\ m'.pc = m.pc
                /\ m'.dumped = m.dumped
      BY <1>23, <1>0, IncidentAcksIs DEF Aside, ReporterAt
    <3> QED BY <1>0, <2>1, <3>1, MonitorStays
  <2>4. ReporterBehind'
    <3>1. \/ i'.pc \notin {"ack", "finish"}
          \/ i'.pc = "finish" /\ i'.dumped = FALSE
          \/ i'.inc = i.inc /\ i'.gens = i.gens /\ i'.gen = i.gen /\ i.pc = "ack"
          \/ i' = i
      BY <1>23, <1>0, IncidentAcksIs DEF Aside, ReporterAt
    <3> QED BY <1>0, <2>1, <3>1, ReporterStays
  <2> QED BY <2>2, <2>3, <2>4
<1>24. CASE IncidentFinishes
  <2>1. /\ inc' = inc /\ (Covers \/ covered' = covered)
        /\ AcksBehind /\ MonitorBehind /\ ReporterBehind
    <3>1. Clean
      BY <1>24, <1>0, IncidentFinishesIs DEF Server, Aside, history, Covers, Clean
    <3> QED BY <1>24, <1>0, <3>1, IncidentFinishesIs
               DEF Server, Aside, history, Dumped
  <2>2. AcksBehind'
    <3>1. /\ i.pc = "finish" /\ acks' = acks /\ LateKeeps /\ Clean
          /\ IF i.sid # 0 /\ i.sid = state.sid
             THEN Finished(state, i.gens, i.dumped, state')
             ELSE state' = state
      BY <1>24, <1>0, IncidentFinishesIs DEF Server, history, Clean
    <3>2. CASE i.sid # 0 /\ i.sid = state.sid /\ i.gens # {} /\ i.dumped = TRUE
      <4>1. /\ state'.nonce = state.nonce
            /\ state'.unacked \subseteq state.unacked \cup i.gens
        BY <3>1, <3>2 DEF Finished
      <4>2. CASE state.nonce = inc
        <5>1. Behind(i.gens)
          BY <1>0, <2>1, <3>1, <3>2, <4>2 DEF ReporterBehind, Claims, Behind, UpTo
        <5>2. /\ \A k \in acks' : k \in acks \/ (k[1] = inc /\ k[2] \in i.gens)
              /\ \A l \in late' : l.op = "ack" /\ l.inc = inc =>
                                    LateWas(l) \/ l.gens \subseteq i.gens
          BY <3>1 DEF LateKeeps
        <5> QED BY <1>0, <2>1, <4>1, <5>1, <5>2, AcksKeep
      <4>3. CASE state.nonce # inc
        <5>1. Behind({}) /\ {} \in SUBSET Gens
          BY DEF Behind, UpTo
        <5>2. /\ \A k \in acks' : k \in acks \/ (k[1] = inc /\ k[2] \in {})
              /\ \A l \in late' : l.op = "ack" /\ l.inc = inc =>
                                    LateWas(l) \/ l.gens \subseteq {}
          BY <3>1 DEF LateKeeps
        <5> QED BY <1>0, <2>1, <4>1, <4>3, <5>1, <5>2, AcksKeep
      <4> QED BY <4>2, <4>3
    <3>3. CASE ~(i.sid # 0 /\ i.sid = state.sid /\ i.gens # {} /\ i.dumped = TRUE)
      <4>1. state'.nonce = state.nonce /\ state'.unacked \subseteq state.unacked
        <5>1. CASE i.sid # 0 /\ i.sid = state.sid
          <6>1. Finished(state, i.gens, i.dumped, state')
            BY <3>1, <5>1
          <6>2. CASE i.gens = {}
            BY <6>1, <6>2 DEF Finished
          <6>3. CASE i.dumped = FALSE
            BY <6>1, <6>3 DEF Finished
          <6> QED BY <1>0, <3>3, <5>1, <6>2, <6>3 DEF Polls, Incidents
        <5>2. CASE ~(i.sid # 0 /\ i.sid = state.sid)
          BY <3>1, <5>2
        <5> QED BY <5>1, <5>2
      <4> QED BY <1>0, <2>1, <3>1, <4>1, AcksStay
    <3> QED BY <3>2, <3>3
  <2>3. MonitorBehind'
    <3>1. /\ m'.unacked = {} \/ (m'.nonce = m.nonce /\ m'.unacked \subseteq m.unacked)
          /\ \/ m'.pc \notin {"ack", "finish"}
             \/ m'.pc = "finish" /\ m'.dumped = FALSE
             \/ m'.nonce = m.nonce /\ m'.gens = m.gens /\ m.pc = "ack"
             \/ /\ m'.nonce = m.nonce /\ m'.gens = m.gens /\ m'.pc = m.pc
                /\ m'.dumped = m.dumped
      BY <1>24, <1>0, IncidentFinishesIs, NoIncidentHas DEF Server, Aside
    <3> QED BY <1>0, <2>1, <3>1, MonitorStays
  <2>4. ReporterBehind'
    <3>1. \/ i'.pc \notin {"ack", "finish"}
          \/ i'.pc = "finish" /\ i'.dumped = FALSE
          \/ i'.inc = i.inc /\ i'.gens = i.gens /\ i'.gen = i.gen /\ i.pc = "ack"
          \/ i' = i
      BY <1>24, <1>0, IncidentFinishesIs, NoIncidentHas DEF Server, Aside
    <3> QED BY <1>0, <2>1, <3>1, ReporterStays
  <2> QED BY <2>2, <2>3, <2>4
<1>25. ASSUME NEW l \in late, LateLands(l) PROVE (AcksBehind /\ MonitorBehind /\ ReporterBehind)'
  <2>1. /\ inc' = inc /\ (Covers \/ covered' = covered)
        /\ AcksBehind /\ MonitorBehind /\ ReporterBehind
    <3>1. Clean
      BY <1>25, <1>0, LateLandsIs DEF Aside, history, Covers, Clean
    <3> QED BY <1>25, <1>0, <3>1, LateLandsIs DEF Aside, history, Dumped
  <2>2. AcksBehind'
    <3>1. state' = state /\ LateKeeps
      BY <1>25, <1>0, LateLandsIs DEF Aside
    <3>2. CASE acks' = acks
      BY <1>0, <2>1, <3>1, <3>2, AcksStay
    <3>3. CASE l.op = "ack" /\ l.inc = inc /\ acks' = acks \cup Acks(l.gens)
      <4>1. Behind(l.gens) /\ l.gens \in SUBSET Gens
        BY <1>25, <1>0, <2>1, <3>3 DEF AcksBehind, Typed, Leftovers
      <4>2. /\ \A k \in acks' : k \in acks \/ (k[1] = inc /\ k[2] \in l.gens)
            /\ \A k \in late' : k.op = "ack" /\ k.inc = inc =>
                                  LateWas(k) \/ k.gens \subseteq l.gens
        BY <3>1, <3>3 DEF Acks, LateKeeps
      <4> QED BY <1>0, <2>1, <3>1, <4>1, <4>2, AcksKeep
    <3> QED BY <1>25, <1>0, <3>2, <3>3, LateLandsIs
  <2>3. MonitorBehind'
    <3>1. /\ m'.unacked = {} \/ (m'.nonce = m.nonce /\ m'.unacked \subseteq m.unacked)
          /\ \/ m'.pc \notin {"ack", "finish"}
             \/ m'.pc = "finish" /\ m'.dumped = FALSE
             \/ m'.nonce = m.nonce /\ m'.gens = m.gens /\ m.pc = "ack"
             \/ /\ m'.nonce = m.nonce /\ m'.gens = m.gens /\ m'.pc = m.pc
                /\ m'.dumped = m.dumped
      BY <1>25, <1>0, LateLandsIs DEF Aside
    <3> QED BY <1>0, <2>1, <3>1, MonitorStays
  <2>4. ReporterBehind'
    <3>1. \/ i'.pc \notin {"ack", "finish"}
          \/ i'.pc = "finish" /\ i'.dumped = FALSE
          \/ i'.inc = i.inc /\ i'.gens = i.gens /\ i'.gen = i.gen /\ i.pc = "ack"
          \/ i' = i
      BY <1>25, <1>0, LateLandsIs DEF Aside
    <3> QED BY <1>0, <2>1, <3>1, ReporterStays
  <2> QED BY <2>2, <2>3, <2>4
<1>27. CASE AttachReadsKey
  <2>1. /\ inc' = inc /\ (Covers \/ covered' = covered)
        /\ AcksBehind /\ MonitorBehind /\ ReporterBehind
    <3>1. Clean
      BY <1>27, <1>0, AttachReadsKeyIs DEF Claimers, Server, history, Covers, Clean
    <3> QED BY <1>27, <1>0, <3>1, AttachReadsKeyIs DEF Claimers, Server, history, Dumped
  <2>2. AcksBehind'
    <3>1. /\ acks' = acks /\ LateKeeps
          /\ \/ state'.unacked = {}
             \/ state'.nonce = state.nonce /\ state'.unacked \subseteq state.unacked
      BY <1>27, <1>0, AttachReadsKeyIs, LateSame DEF Claimers, Server
    <3> QED BY <1>0, <2>1, <3>1, AcksStay
  <2>3. MonitorBehind'
    <3>1. /\ m'.unacked = {} \/ (m'.nonce = m.nonce /\ m'.unacked \subseteq m.unacked)
          /\ \/ m'.pc \notin {"ack", "finish"}
             \/ m'.pc = "finish" /\ m'.dumped = FALSE
             \/ m'.nonce = m.nonce /\ m'.gens = m.gens /\ m.pc = "ack"
             \/ /\ m'.nonce = m.nonce /\ m'.gens = m.gens /\ m'.pc = m.pc
                /\ m'.dumped = m.dumped
      BY <1>27, <1>0, AttachReadsKeyIs DEF Claimers, Server
    <3> QED BY <1>0, <2>1, <3>1, MonitorStays
  <2>4. ReporterBehind'
    <3>1. \/ i'.pc \notin {"ack", "finish"}
          \/ i'.pc = "finish" /\ i'.dumped = FALSE
          \/ i'.inc = i.inc /\ i'.gens = i.gens /\ i'.gen = i.gen /\ i.pc = "ack"
          \/ i' = i
      BY <1>27, <1>0, AttachReadsKeyIs DEF Claimers, Server
    <3> QED BY <1>0, <2>1, <3>1, ReporterStays
  <2> QED BY <2>2, <2>3, <2>4
<1>26. CASE UNCHANGED vars
  BY <1>26, <1>0 DEF Clean, AcksBehind, MonitorBehind, ReporterBehind, Dumped, Behind,
     serverVars, stateVars, mainVars, monitorVars, history, vars
<1> QED
  BY <1>1, <1>2, <1>3, <1>4, <1>5, <1>6, <1>7, <1>8, <1>9, <1>10, <1>11, <1>12,
     <1>13, <1>14, <1>15, <1>16, <1>17, <1>18, <1>19, <1>20, <1>21, <1>22, <1>23,
     <1>24, <1>25, <1>26, <1>27
  DEF Next, Monitor, Reporter, Environment

\* A step acknowledges to the running server only, and what was covered before
\* stays so: with the above, on every server.
LEMMA AcksGrow ==
  ASSUME IInv, [Next]_vars
  PROVE  /\ straddled \subseteq straddled' /\ (Covers \/ covered' = covered)
         /\ acks' = acks \/ (inc' = inc /\ \A k \in acks' : k \in acks \/ k[1] = inc)
<1> DEFINE Grows ==
        /\ straddled \subseteq straddled' /\ (Covers \/ covered' = covered)
        /\ acks' = acks \/ (inc' = inc /\ \A k \in acks' : k \in acks \/ k[1] = inc)
<1>0. Typed  BY DEF IInv
<1>1. CASE PeerSignals
  BY <1>1, <1>0, PeerSignalsIs DEF Claimers
<1>2. CASE TorchSignals
  BY <1>2, <1>0, TorchSignalsIs DEF Claimers, Server
<1>3. CASE Restart
  BY <1>3, <1>0, RestartIs DEF Claimers
<1>4. CASE AttachReads
  BY <1>4, <1>0, AttachReadsIs DEF Claimers, Server
<1>5. CASE AttachFails
  BY <1>5, <1>0, AttachReadsIs DEF Claimers, Server
<1>6. CASE AttachApplies
  BY <1>6, <1>0, AttachAppliesHas DEF Server, history
<1>7. CASE Detach
  BY <1>7, <1>0, DetachIs DEF Server, history
<1>8. CASE PollReadsKey
  BY <1>8, <1>0, PollReadsKeyIs DEF Server, Elsewhere, history
<1>9. CASE PollReadsGen
  BY <1>9, <1>0, PollReadsGenIs DEF Server, Elsewhere, history
<1>10. CASE PollOverruns
  BY <1>10, <1>0, PollOverrunsIs DEF Server, Elsewhere, history
<1>11. ASSUME NEW retry \in BOOLEAN, PollApplies(retry) PROVE Grows
  BY <1>11, PollAppliesHas DEF Server, history
<1>12. CASE Reacks
  BY <1>12, <1>0, ReacksIs DEF Elsewhere, Acks
<1>13. CASE AsksSignaller
  BY <1>13, <1>0, AsksSignallerIs DEF Server, Elsewhere, history
<1>14. CASE MonitorDumps
  BY <1>14, <1>0, MonitorDumpsIs DEF Server, Elsewhere, history, Covers
<1>15. CASE MonitorAcks
  BY <1>15, <1>0, MonitorAcksIs DEF Elsewhere, Acks
<1>16. CASE MonitorFinishes
  BY <1>16, <1>0, MonitorFinishesIs DEF Server, Elsewhere, history
<1>17. CASE DumpsForTorch
  BY <1>17, <1>0, DumpsForTorchIs DEF Server, Elsewhere, history, Covers
<1>18. CASE SignalAdds
  BY <1>18, <1>0, SignalAddsIs DEF Aside, history
<1>19. CASE SignalSets
  BY <1>19, <1>0, SignalSetsIs DEF Server, Aside, history
<1>20. CASE SignalGivenUp
  BY <1>20, <1>0, SignalGivenUpIs DEF Server, Aside, history
<1>21. ASSUME NEW retry \in BOOLEAN, IncidentClaims(retry) PROVE Grows
  BY <1>21, <1>0, IncidentClaimsIs DEF Server, Aside
<1>22. CASE IncidentDumps
  BY <1>22, <1>0, IncidentDumpsIs DEF Server, Aside, history, Covers
<1>23. CASE IncidentAcks
  BY <1>23, <1>0, IncidentAcksIs DEF Aside, history, Acks
<1>24. CASE IncidentFinishes
  BY <1>24, <1>0, IncidentFinishesIs DEF Server, Aside, history
<1>25. ASSUME NEW l \in late, LateLands(l) PROVE Grows
  BY <1>25, <1>0, LateLandsIs DEF Aside, history, Acks
<1>27. CASE AttachReadsKey
  BY <1>27, <1>0, AttachReadsKeyIs DEF Claimers, Server
<1>26. CASE UNCHANGED vars
  BY <1>26 DEF serverVars, history, vars
<1> QED
  BY <1>1, <1>2, <1>3, <1>4, <1>5, <1>6, <1>7, <1>8, <1>9, <1>10, <1>11, <1>12,
     <1>13, <1>14, <1>15, <1>16, <1>17, <1>18, <1>19, <1>20, <1>21, <1>22, <1>23,
     <1>24, <1>25, <1>26, <1>27
  DEF Next, Monitor, Reporter, Environment

LEMMA AckedStep ==
  ASSUME IInv, [Next]_vars, Typed', Clean' => AcksBehind'
  PROVE  AckMeansDump'
<1> SUFFICES ASSUME NEW k \in acks', k[1] \notin straddled'
             PROVE  k[2] <= covered'[k[1]]
  BY DEF AckMeansDump
<1>1. /\ k[1] \in Incs /\ k[2] \in Nat /\ inc \in Incs /\ gen \in Nat
      /\ covered \in [Incs -> Nat] /\ covered' \in [Incs -> Nat]
      /\ covered[inc] <= gen
  BY Constants DEF IInv, Typed, Signalled, Gens
<1>2. CASE k \in acks
  <2>1. k[2] <= covered[k[1]]
    BY <1>2, AcksGrow DEF IInv, Dumped, AckMeansDump
  <2>2. covered[k[1]] <= covered'[k[1]]
    BY <1>1, AcksGrow DEF Covers
  <2>3. covered[k[1]] \in Nat /\ covered'[k[1]] \in Nat
    BY <1>1
  <2> QED BY <1>1, <2>1, <2>2, <2>3
<1>3. CASE k \notin acks
  <2>1. k[1] = inc /\ inc' = inc
    BY <1>3, AcksGrow
  <2> QED BY <2>1 DEF AcksBehind, Clean
<1> QED BY <1>2, <1>3

-----------------------------------------------------------------------------
(* The theorems.                                                            *)

LEMMA InitIs == ASSUME Init PROVE IInv
<1>1. Typed
  <2>1. inc \in Incs /\ trouble \in 0..MaxTrouble /\ gen \in 0..MaxGen
    BY DumpAssumption DEF Init, Incs
  <2>2. key \in BOOLEAN /\ straddled \in SUBSET Nat
    <3>1. key \in BOOLEAN  BY DEF Init
    <3>2. straddled \in SUBSET Nat  BY DEF Init
    <3> QED BY <3>1, <3>2
  <2> QED BY <2>1, <2>2, NoneIs, NoStateIs DEF Init, Typed
<1>2. Servers
  BY NoStateIs, NoPollHas, NoIncidentHas, Constants DEF Init, Servers, NoAttach
<1>3. Identity
  BY NoStateIs, NoPollHas, NoIncidentHas DEF Init, Identity, Serving, NoAttach
<1>4. Whole
  BY NoStateIs DEF Init, Whole
<1>5. Signalled
  <2>1. \A n \in Incs : covered[n] = 0
    BY DEF Init
  <2>2. inc \in Incs /\ 0 <= gen
    BY Constants DEF Init, Incs
  <2> QED BY <2>1, <2>2, NoPollHas, NoIncidentHas DEF Init, Signalled, NoAttach
<1>6. Claims
  BY NoStateIs, NoPollHas, NoIncidentHas DEF Init, Claims
<1>7. Dumped
  BY NoStateIs, NoPollHas, NoIncidentHas
  DEF Init, Dumped, AckMeansDump, AcksBehind, MonitorBehind, ReporterBehind
<1> QED BY <1>1, <1>2, <1>3, <1>4, <1>5, <1>6, <1>7 DEF IInv

(* The inductive invariant holds in every behaviour.                        *)
THEOREM Invariance == Spec => []IInv
<1>1. ASSUME IInv, [Next]_vars PROVE IInv'
  <2>1. Typed'  BY <1>1, TypedStep
  <2>2. Servers'  BY <1>1, ServersStep
  <2>3. Identity'  BY <1>1, IdentityStep
  <2>4. Whole'  BY <1>1, <2>1, WholeStep
  <2>5. Signalled'  BY <1>1, <2>1, SignalledStep
  <2>6. Claims'  BY <1>1, <2>1, <2>2, <2>4, ClaimsStep
  <2>7. Dumped'
    <3>1. Clean' => (AcksBehind /\ MonitorBehind /\ ReporterBehind)'
      BY <1>1, <2>1, DumpedStep
    <3>2. AckMeansDump'
      BY <1>1, <2>1, <3>1, AckedStep
    <3> QED BY <3>1, <3>2 DEF Dumped
  <2> QED BY <2>1, <2>2, <2>3, <2>4, <2>5, <2>6, <2>7 DEF IInv
<1> QED BY InitIs, <1>1, PTL DEF Spec

(* A generation is acknowledged at a server only when a dump was written    *)
(* after the generation was signalled there.  Left out are the servers      *)
(* where a poll or an incident that served another one acknowledged, having *)
(* straddled a restart (flight_recorder.py:1013): there the code            *)
(* acknowledges what it never dumped.  Any other restart exempts no server. *)
THEOREM AcknowledgedIsDumped == Spec => []AckMeansDump
<1>1. IInv => AckMeansDump
  BY DEF IInv, Dumped
<1> QED BY <1>1, Invariance, PTL

(* Every generation from the base to the highest one claimed is done,       *)
(* failed, or being served by exactly one of the two threads, through       *)
(* detaching, restarts and finishes that come for a state that is gone.     *)
THEOREM GenerationsAccounted == Spec => []NoGenerationLost
<1>1. IInv => NoGenerationLost
  BY DEF IInv, Whole, WholeOf, Sound, MonitorHas, ReporterHas, NoGenerationLost
<1> QED BY <1>1, Invariance, PTL

=============================================================================
