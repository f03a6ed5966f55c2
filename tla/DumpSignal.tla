---------------------------- MODULE DumpSignal ----------------------------
(***************************************************************************)
(* The flight recorder's dump signal (distributed/flight_recorder.py and   *)
(* the incident side in process_group.py), seen from one process: a        *)
(* monitor thread that polls the c10d store, a desync reporter whose       *)
(* watchdog fired, and a main thread that attaches and detaches groups.    *)
(* Peers signal through the same store, a ProcessGroupNCCL in the job may  *)
(* set torch's key alone, and the server may restart at its address.       *)
(*                                                                         *)
(* A call of a store worker is one step here (StoreWorker.tla shows what   *)
(* it promises): it answers, or it is given up and its operation may still *)
(* land later, or it fails because the server its client was connected to  *)
(* is gone.  Backoffs are time, so they only decide when a step is taken.  *)
(***************************************************************************)
EXTENDS Naturals, FiniteSets

CONSTANTS
  MaxGen,        \* bound: generations signalled per incarnation
  MaxTrouble,    \* bound: calls given up, dumps that cannot be written,
                 \* restarts of the server and signals of torch, together
  MaxAttach      \* bound: groups attached over the run

ASSUME DumpAssumption ==
  /\ MaxGen \in Nat \ {0}
  /\ {MaxTrouble, MaxAttach} \subseteq Nat

None == MaxGen + 1              \* Python's None where a generation may be
Gens == 1..MaxGen

VARIABLES
  inc, gen, key,     \* the server: incarnation, GEN_KEY, DUMP_KEY
  acks,              \* acknowledgements that landed: <<incarnation, gen>>
  state,             \* the _StoreState of this process's store; sid = 0: none
  sids,              \* states created so far
  groups, attached,  \* groups attached now, and ever
  a,                 \* main thread in attach(): [pc, ok, nonce, gen, key]
  m,                 \* monitor: pc and locals
  wsid, conn, stuck, \* its worker: for which state, client, blocked job
  i,                 \* reporter in _fr_incident: pc and locals
  late,              \* operations of given-up calls that may still land
  covered,           \* per incarnation: generations a written dump follows
  straddled,         \* servers acknowledged at by one that served another
  trouble

serverVars == <<inc, gen, key, acks>>
stateVars == <<state, sids>>
mainVars == <<groups, attached, a>>
monitorVars == <<m, wsid, conn, stuck>>
history == <<covered, straddled>>
vars == <<serverVars, stateVars, mainVars, monitorVars, i, late, history,
          trouble>>

Incs == 1..(MaxTrouble + 1)

NoState == [sid |-> 0, nonce |-> 0, base |-> None, first |-> None,
            high |-> None, done |-> {}, pending |-> {}, failed |-> {},
            unacked |-> {}, torch |-> "unseen"]
NewState(s, nonce, base, seen) ==
  [NoState EXCEPT !.sid = s, !.nonce = nonce, !.base = base, !.first = base,
                  !.high = base, !.torch = IF seen THEN "seen" ELSE "unseen"]

NoAttach == [pc |-> "idle", ok |-> FALSE, nonce |-> 0, gen |-> 0, key |-> FALSE]
NoPoll == [pc |-> "sleep", sid |-> 0, nonce |-> 0, key |-> FALSE, gen |-> 0,
           gens |-> {}, unacked |-> {}, torch |-> FALSE, dumped |-> FALSE,
           acked |-> FALSE]
NoIncident == [pc |-> "idle", inc |-> 0, gen |-> 0, sid |-> 0, gens |-> {},
               dumped |-> FALSE, acked |-> FALSE]

Init ==
  /\ inc = 1
  /\ gen \in {0, 1}                    \* an earlier job may have signalled
  /\ key = (gen = 1)
  /\ acks = {}
  /\ state = NoState /\ sids = 0
  /\ groups = 0 /\ attached = 0 /\ a = NoAttach
  /\ m = NoPoll /\ wsid = 0 /\ conn = 0 /\ stuck = FALSE
  /\ i = NoIncident /\ late = {}
  /\ covered = [n \in Incs |-> 0] /\ straddled = {}
  /\ trouble = 0

----------------------------------------------------------------------------
(* _StoreState.                                                            *)

Top(s) == IF s.high > s.base THEN s.high ELSE s.base

(* claim: what nobody serves yet, and what failed once its backoff is over *)
Claimable(s, upto, retry) ==
  IF s.base = None THEN {}
  ELSE ((Top(s) + 1)..upto \cup IF retry THEN s.failed ELSE {})
         \ (s.done \cup s.pending)

Bug_Claim(s, upto, retry) ==
  IF s.base = None THEN s
  ELSE [s EXCEPT !.failed = {},
                 !.high = IF upto > Top(s) THEN upto ELSE Top(s),
                 !.pending = @ \cup Claimable(s, upto, retry)]

Claim(s, upto, retry) ==
  IF s.base = None THEN s
  ELSE [s EXCEPT !.failed = IF retry THEN {} ELSE @,
                 !.high = IF upto > Top(s) THEN upto ELSE Top(s),
                 !.pending = @ \cup Claimable(s, upto, retry)]

(* The base moves over every generation done without a gap.                *)
NewBase(s, done) ==
  IF s.base = None THEN None
  ELSE CHOOSE b \in s.base..MaxGen :
         /\ (s.base + 1)..b \subseteq done
         /\ b + 1 \notin done

Bug_Finish(s, gens, dumped, acked) ==
  [s EXCEPT !.pending = @ \ gens, !.done = @ \cup gens]

Finish(s, gens, dumped, acked) ==
  IF gens = {} THEN s
  ELSE IF ~dumped
    THEN [s EXCEPT !.pending = @ \ gens, !.failed = @ \cup gens]
    ELSE LET done == s.done \cup gens
             base == NewBase(s, done)
         IN [s EXCEPT !.pending = @ \ gens,
                      !.failed = @ \ gens,
                      !.base = base,
                      !.done = IF base = None THEN done
                               ELSE {g \in done : g > base},
                      !.unacked = IF acked THEN @ ELSE @ \cup gens]

(* A finish reaches the state its claim was taken from, which is no longer *)
(* the process's when it was replaced meanwhile; a claim without a state   *)
(* has none to finish.                                                     *)
FinishOn(sid, gens, dumped, acked) ==
  state' = IF sid # 0 /\ sid = state.sid
           THEN Finish(state, gens, dumped, acked) ELSE state

----------------------------------------------------------------------------
(* Calls on the store.                                                     *)

Acks(gens) == {inc} \X gens

(* A client of the server that runs now; a restart broke older ones.       *)
Reaches(c) == c \in {0, inc}

(* A given-up operation lands when its client still reaches the server.    *)
LateLands(l) ==
  /\ late' = (late \ {l}) \cup
             IF l.op = "add" /\ l.inc = inc /\ gen < MaxGen
             THEN {[l EXCEPT !.op = "set"]} ELSE {}
  /\ \/ /\ l.inc # inc
        /\ UNCHANGED serverVars
     \/ /\ l.inc = inc
        /\ gen' = IF l.op = "add" /\ gen < MaxGen THEN gen + 1 ELSE gen
        /\ key' = (key \/ l.op = "set")
        /\ acks' = acks \cup IF l.op = "ack" THEN Acks(l.gens) ELSE {}
        /\ UNCHANGED inc
  /\ stuck' = (stuck /\ ~l.monitor)
  /\ UNCHANGED <<stateVars, mainVars, m, wsid, conn, i, history, trouble>>

Leftover(op, n, gens, mon) ==
  {[op |-> op, inc |-> n, gens |-> gens, monitor |-> mon]}

GoesWrong == trouble < MaxTrouble /\ trouble' = trouble + 1

(* dump_now: a dump follows every generation signalled before it.          *)
DumpOk ==
  /\ covered' = [covered EXCEPT ![inc] = gen]
  /\ UNCHANGED <<trouble, straddled>>
DumpFails ==
  /\ GoesWrong
  /\ UNCHANGED history

----------------------------------------------------------------------------
(* Other processes and the server.                                         *)

(* A peer takes a generation, then sets the key unless it died in between. *)
PeerSignals ==
  /\ gen < MaxGen
  /\ gen' = gen + 1
  /\ key' \in {key, TRUE}
  /\ UNCHANGED <<inc, acks, stateVars, mainVars, monitorVars, i, late, history,
                 trouble>>

TorchSignals ==
  /\ GoesWrong /\ ~key /\ key' = TRUE
  /\ UNCHANGED <<inc, gen, acks, stateVars, mainVars, monitorVars, i,
                 late, history>>

Restart ==
  /\ GoesWrong
  /\ inc' = inc + 1 /\ gen' = 0 /\ key' = FALSE
  /\ UNCHANGED <<acks, stateVars, mainVars, monitorVars, i, late,
                 history>>

----------------------------------------------------------------------------
(* attach and detach.                                                      *)

(* The baseline is read before the store is watched, the generation before *)
(* the key; or a read fails, as all do once the server restarted.          *)
AttachReads ==
  /\ a.pc = "idle" /\ attached < MaxAttach
  /\ attached' = attached + 1
  /\ a' = [NoAttach EXCEPT !.pc = "key", !.nonce = inc, !.gen = gen]
  /\ UNCHANGED <<serverVars, stateVars, groups, monitorVars, i, late, history,
                 trouble>>

AttachReadsKey ==
  /\ a.pc = "key"
  /\ a' = IF a.nonce = inc
          THEN [a EXCEPT !.pc = "apply", !.ok = TRUE, !.key = key]
          ELSE [NoAttach EXCEPT !.pc = "apply"]
  /\ UNCHANGED <<serverVars, stateVars, groups, attached, monitorVars, i, late,
                 history, trouble>>

AttachFails ==
  /\ a.pc = "idle" /\ attached < MaxAttach /\ GoesWrong
  /\ attached' = attached + 1
  /\ a' = [NoAttach EXCEPT !.pc = "apply"]
  /\ UNCHANGED <<serverVars, stateVars, groups, monitorVars, i, late, history>>

SetState(s) == state' = s /\ sids' = s.sid

(* Under the lock: a new state, a baseline for one that had none, or a     *)
(* restart seen here first.                                                *)
AttachApplies ==
  /\ a.pc = "apply"
  /\ a' = NoAttach /\ groups' = groups + 1
  /\ CASE state.sid = 0 /\ a.ok ->
            SetState(NewState(sids + 1, a.nonce, a.gen, a.key))
       [] state.sid = 0 /\ ~a.ok ->
            SetState(NewState(sids + 1, 0, None, FALSE))
       [] state.sid # 0 /\ a.ok /\ state.nonce = 0 ->
            SetState(NewState(sids + 1, a.nonce, a.gen, a.key))
       [] state.sid # 0 /\ a.ok /\ state.nonce \notin {0, a.nonce} ->
            SetState(NewState(sids + 1, a.nonce, 0, FALSE))
       [] OTHER -> UNCHANGED stateVars
  /\ UNCHANGED <<serverVars, attached, monitorVars, i, late, history,
                 trouble>>

Detach ==
  /\ groups > 0 /\ a.pc = "idle"
  /\ groups' = groups - 1
  /\ state' = IF groups = 1 THEN NoState ELSE state
  /\ UNCHANGED <<serverVars, sids, attached, a, monitorVars, i, late,
                 history, trouble>>

----------------------------------------------------------------------------
(* The monitor.                                                            *)

Fresh == wsid # state.sid         \* the state has no worker yet
Client == IF Fresh THEN 0 ELSE conn

(* run and poll: the first reads, incarnation and key.                     *)
PollReadsKey ==
  /\ m.pc = "sleep" /\ state.sid # 0 /\ (stuck => Fresh)
  /\ wsid' = state.sid
  /\ stuck' = FALSE
  /\ late' = {IF Fresh THEN [l EXCEPT !.monitor = FALSE] ELSE l : l \in late}
  /\ \/ /\ Reaches(Client)
        /\ conn' = inc
        /\ m' = [NoPoll EXCEPT !.pc = "gen", !.sid = state.sid, !.nonce = inc,
                               !.key = key]
     \/ /\ ~Reaches(Client)
        /\ conn' = 0
        /\ UNCHANGED m
  /\ UNCHANGED <<serverVars, stateVars, mainVars, i, history, trouble>>

(* The generation is read after the key.                                   *)
PollReadsGen ==
  /\ m.pc = "gen"
  /\ \/ /\ conn = inc
        /\ m' = [m EXCEPT !.pc = "seen", !.gen = gen]
        /\ UNCHANGED conn
     \/ /\ conn # inc
        /\ m' = NoPoll /\ conn' = 0
  /\ UNCHANGED <<serverVars, stateVars, mainVars, wsid, stuck, i, late,
                 history, trouble>>

(* A poll that overruns: nothing to land, but a blocked thread.            *)
PollOverruns ==
  /\ m.pc = "gen" /\ GoesWrong
  /\ m' = NoPoll /\ conn' = 0 /\ stuck' = TRUE
  /\ late' = late \cup Leftover("read", conn, {}, TRUE)
  /\ UNCHANGED <<serverVars, stateVars, mainVars, wsid, i, history>>

(* A restart seen by the poll: a state whose generations are all new.      *)
Replaced(nonce) ==
  IF nonce = state.nonce THEN state ELSE NewState(sids + 1, nonce, 0, FALSE)

(* Under the lock: what this answer asks of this process.                  *)
PollApplies(retry) ==
  LET s0 == Replaced(m.nonce)
      s == [s0 EXCEPT !.torch = IF m.gen # s0.first THEN "seen" ELSE @]
      gens == Claimable(s, m.gen, retry)
      asked == gens = {} /\ m.key /\ s.torch = "unseen"
  IN /\ m.pc = "seen"
     /\ \/ /\ state.sid # m.sid                  \* the answer is moot
           /\ m' = NoPoll /\ UNCHANGED stateVars
        \/ /\ state.sid = m.sid /\ state.nonce = 0
           /\ SetState(NewState(sids + 1, m.nonce, m.gen, m.key))
           /\ m' = NoPoll
        \/ /\ state.sid = m.sid /\ state.nonce # 0
           /\ state' = Claim(s, m.gen, retry)
           /\ sids' = IF s.sid > sids THEN s.sid ELSE sids
           /\ m' = [NoPoll EXCEPT !.pc = "reack", !.sid = s.sid,
                                  !.nonce = m.nonce, !.gens = gens,
                                  !.unacked = s.unacked, !.torch = asked]
     /\ UNCHANGED <<serverVars, mainVars, wsid, conn, stuck, i, late,
                    history, trouble>>

AfterAcks == IF m.gens # {} THEN "who" ELSE IF m.torch THEN "torch" ELSE "sleep"

(* A call of the monitor's worker that does not answer: refused behind a   *)
(* blocked job, broken by a restart, or given up now.                      *)
CallFails(op, gens) ==
  \/ /\ stuck
     /\ UNCHANGED <<conn, stuck, late, trouble>>
  \/ /\ ~stuck /\ ~Reaches(conn) /\ conn' = 0
     /\ UNCHANGED <<stuck, late, trouble>>
  \/ /\ ~stuck /\ Reaches(conn) /\ GoesWrong
     /\ conn' = 0 /\ stuck' = TRUE
     /\ late' = late \cup Leftover(op, inc, gens, TRUE)

CallAnswers == ~stuck /\ Reaches(conn) /\ conn' = inc

(* What serves server n may acknowledge on the one its client reaches now. *)
Straddles(n) ==
  straddled' = straddled \cup IF ~stuck /\ Reaches(conn) THEN {inc} \ {n} ELSE {}

(* Acknowledgements that did not get through before.                       *)
Reacks ==
  /\ m.pc = "reack"
  /\ m' = IF AfterAcks = "sleep" THEN NoPoll
          ELSE [m EXCEPT !.pc = AfterAcks, !.unacked = {}]
  /\ IF m.unacked = {} THEN UNCHANGED straddled ELSE Straddles(m.nonce)
  /\ \/ m.unacked = {} /\ UNCHANGED <<acks, state, conn, stuck, late, trouble>>
     \/ /\ m.unacked # {} /\ CallAnswers
        /\ acks' = acks \cup Acks(m.unacked)
        /\ state' = IF m.sid = state.sid
                    THEN [state EXCEPT !.unacked = @ \ m.unacked] ELSE state
        /\ UNCHANGED <<stuck, late, trouble>>
     \/ /\ m.unacked # {} /\ CallFails("ack", m.unacked)
        /\ UNCHANGED <<acks, state>>
  /\ UNCHANGED <<inc, gen, key, sids, mainVars, wsid, i, covered>>

(* Who signalled: only for the line on stderr, but a call all the same.    *)
AsksSignaller ==
  /\ m.pc = "who"
  /\ m' = [m EXCEPT !.pc = "dump"]
  /\ \/ /\ CallAnswers
        /\ UNCHANGED <<stuck, late, trouble>>
     \/ CallFails("read", {})
  /\ UNCHANGED <<serverVars, stateVars, mainVars, wsid, i, history>>

Bug_MonitorDumps ==
  /\ m.pc = "dump" /\ m' = [m EXCEPT !.pc = "ack", !.dumped = TRUE]
  /\ DumpOk \/ DumpFails
  /\ UNCHANGED <<serverVars, stateVars, mainVars, wsid, conn, stuck, i, late>>

MonitorDumps ==
  /\ m.pc = "dump"
  /\ \/ DumpOk /\ m' = [m EXCEPT !.pc = "ack", !.dumped = TRUE]
     \/ DumpFails /\ m' = [m EXCEPT !.pc = "finish"]
  /\ UNCHANGED <<serverVars, stateVars, mainVars, wsid, conn, stuck, i,
                 late>>

MonitorAcks ==
  /\ m.pc = "ack"
  /\ Straddles(m.nonce)
  /\ \/ /\ CallAnswers
        /\ acks' = acks \cup Acks(m.gens)
        /\ m' = [m EXCEPT !.pc = "finish", !.acked = TRUE]
        /\ UNCHANGED <<stuck, late, trouble>>
     \/ /\ CallFails("ack", m.gens)
        /\ m' = [m EXCEPT !.pc = "finish"]
        /\ UNCHANGED acks
  /\ UNCHANGED <<inc, gen, key, stateVars, mainVars, wsid, i, covered>>

MonitorFinishes ==
  /\ m.pc = "finish"
  /\ FinishOn(m.sid, m.gens, m.dumped, m.acked)
  /\ m' = NoPoll
  /\ UNCHANGED <<serverVars, sids, mainVars, wsid, conn, stuck, i, late,
                 history, trouble>>

(* torch's own key: no generation and no acknowledgement.                  *)
DumpsForTorch ==
  /\ m.pc = "torch" /\ m' = NoPoll
  /\ \/ /\ DumpOk
        /\ state' = IF m.sid = state.sid THEN [state EXCEPT !.torch = "seen"]
                                         ELSE state
     \/ DumpFails /\ UNCHANGED state
  /\ UNCHANGED <<serverVars, sids, mainVars, wsid, conn, stuck, i, late>>

----------------------------------------------------------------------------
(* The desync reporter: _fr_incident.                                      *)

SignalAdds ==
  /\ i.pc = "idle" /\ gen < MaxGen
  /\ gen' = gen + 1
  /\ i' = [NoIncident EXCEPT !.pc = "set", !.inc = inc, !.gen = gen + 1]
  /\ UNCHANGED <<inc, key, acks, stateVars, mainVars, monitorVars, late,
                 history, trouble>>

(* A signal that failed is generation 0: dumped for, neither claimed nor   *)
(* acknowledged.                                                           *)
SignalSets ==
  /\ i.pc = "set"
  /\ \/ i.inc = inc /\ key' = TRUE /\ i' = [i EXCEPT !.pc = "claim"]
     \/ i.inc # inc /\ UNCHANGED key /\ i' = [i EXCEPT !.pc = "dump", !.gen = 0]
  /\ UNCHANGED <<inc, gen, acks, stateVars, mainVars, monitorVars, late,
                 history, trouble>>

(* signal_dump given up before its first or before its second operation.   *)
SignalGivenUp ==
  /\ GoesWrong
  /\ \/ i.pc = "idle" /\ late' = late \cup Leftover("add", inc, {}, FALSE)
     \/ i.pc = "set" /\ late' = late \cup Leftover("set", i.inc, {}, FALSE)
  /\ i' = [NoIncident EXCEPT !.pc = "dump"]
  /\ UNCHANGED <<serverVars, stateVars, mainVars, monitorVars, history>>

IncidentClaims(retry) ==
  /\ i.pc = "claim"
  /\ straddled' = straddled \cup
       IF state.nonce \in {0, i.inc} THEN {} ELSE {state.nonce, i.inc}
  /\ i' = [i EXCEPT !.pc = "dump", !.sid = state.sid,
                    !.gens = IF state.sid = 0 THEN {i.gen}
                             ELSE Claimable(state, i.gen, retry)]
  /\ state' = IF state.sid = 0 THEN state ELSE Claim(state, i.gen, retry)
  /\ UNCHANGED <<serverVars, sids, mainVars, monitorVars, late, covered,
                 trouble>>

IncidentDumps ==
  /\ i.pc = "dump"
  /\ \/ /\ DumpOk
        /\ i' = IF i.gen = 0 THEN NoIncident
                ELSE [i EXCEPT !.pc = "ack", !.dumped = TRUE]
     \/ /\ DumpFails
        /\ i' = IF i.gen = 0 THEN NoIncident ELSE [i EXCEPT !.pc = "finish"]
  /\ UNCHANGED <<serverVars, stateVars, mainVars, monitorVars, late>>

(* Its acknowledgement covers what it claimed and its own generation.      *)
IncidentAcks ==
  LET mine == i.gens \cup {i.gen}
  IN /\ i.pc = "ack"
     /\ \/ /\ i.inc = inc
           /\ acks' = acks \cup Acks(mine)
           /\ i' = [i EXCEPT !.pc = "finish", !.acked = TRUE]
           /\ UNCHANGED <<late, trouble>>
        \/ /\ i.inc # inc
           /\ i' = [i EXCEPT !.pc = "finish"]
           /\ UNCHANGED <<acks, late, trouble>>
        \/ /\ GoesWrong
           /\ late' = late \cup Leftover("ack", i.inc, mine, FALSE)
           /\ i' = [i EXCEPT !.pc = "finish"]
           /\ UNCHANGED acks
     /\ UNCHANGED <<inc, gen, key, stateVars, mainVars, monitorVars,
                    history>>

IncidentFinishes ==
  /\ i.pc = "finish"
  /\ FinishOn(i.sid, i.gens, i.dumped, i.acked)
  /\ i' = NoIncident
  /\ UNCHANGED <<serverVars, sids, mainVars, monitorVars, late, history,
                 trouble>>

----------------------------------------------------------------------------
Monitor ==
  \/ PollReadsKey \/ PollReadsGen \/ Reacks \/ AsksSignaller \/ MonitorDumps
  \/ MonitorAcks \/ MonitorFinishes \/ DumpsForTorch
  \/ \E retry \in BOOLEAN : PollApplies(retry)

Reporter ==
  \/ SignalSets \/ IncidentDumps \/ IncidentAcks \/ IncidentFinishes
  \/ \E retry \in BOOLEAN : IncidentClaims(retry)

Environment ==
  \/ PeerSignals \/ TorchSignals \/ Restart
  \/ AttachReads \/ AttachReadsKey \/ AttachFails \/ AttachApplies \/ Detach

Next ==
  \/ Monitor \/ Reporter \/ Environment
  \/ PollOverruns \/ SignalAdds \/ SignalGivenUp
  \/ \E l \in late : LateLands(l)

Spec == Init /\ [][Next]_vars

(* Both threads run and their deadlines pass.  A dump that failed is tried *)
(* again by some poll, since its backoff is at most a minute.  A blocked   *)
(* operation of the monitor's worker returns some day.                     *)
Unblocks == \E l \in late : l.monitor /\ LateLands(l)
FairSpec ==
  /\ Spec
  /\ WF_vars(Monitor) /\ SF_vars(PollApplies(TRUE))
  /\ WF_vars(Reporter) /\ WF_vars(Unblocks)

----------------------------------------------------------------------------
(* "an acknowledgement means a file is there" (process_group.py): whoever  *)
(* waits for this rank's dump of a generation finds one that was written   *)
(* after that generation was signalled, on the server that signalled it.   *)
(* So on every server but those where a poll or an incident that was       *)
(* serving another one acknowledged, having straddled a restart: there the *)
(* code acknowledges what it never dumped (flight_recorder.py:1013).       *)
AckMeansDump ==
  \A k \in acks : k[1] \notin straddled => k[2] <= covered[k[1]]

(* _StoreState, "every generation is done, pending, failed or to serve":   *)
(* none is in two of these, none is in neither up to the highest claimed,  *)
(* and exactly one thread is serving each pending one.                     *)
NoGenerationLost ==
  LET mine == IF m.sid = state.sid THEN m.gens ELSE {}
      its == IF i.sid = state.sid THEN i.gens ELSE {}
      s == state
  IN s.sid # 0 /\ s.base # None =>
       /\ s.pending = mine \cup its /\ mine \cap its = {}
       /\ s.done \cap (s.pending \cup s.failed) = {}
       /\ s.pending \cap s.failed = {}
       /\ (s.base + 1)..Top(s) = s.done \cup s.pending \cup s.failed

(* Every generation signalled since the store was first watched is         *)
(* acknowledged some day (a dump that failed is tried again, an            *)
(* acknowledgement that was lost is sent again), while the process keeps   *)
(* watching this server.                                                   *)
AllServed ==
  state.nonce = inc =>
    \A g \in (state.first + 1)..gen : <<inc, g>> \in acks

SignalServed == []<>AllServed
=============================================================================
