--------------------------- MODULE ControlProgress ---------------------------
(***************************************************************************)
(* That the rounds of ControlRounds end, while more than two thirds of the *)
(* weight is honest and running: what the states exchange arrives, and the *)
(* timeouts of later rounds, which wait longer each round                  *)
(* (defaultControlTimeout), outlast the delays from SyncRound on.          *)
(***************************************************************************)
EXTENDS ControlRounds

CONSTANT SyncRound  \* the first round whose timeouts outlast the delays

ASSUME SyncAssumption == SyncRound \in Rounds

\* Nothing is left to deliver or to do without a timeout.
Quiet ==
  \A v \in Honest :
    /\ pending[v] = {} /\ leaving[v] = {}
    /\ ~ ENABLED Step(v)
    /\ \A m \in pool : ~ ENABLED <<Receive(v, m)>>_held
    /\ ~ ENABLED ImportDecision(v)

\* Timeouts of earlier rounds that still run.
runningBefore(r) ==
  {<<v, step>> \in Honest \X Steps :
     /\ InRound(v) /\ currentRound(v) < r /\ ~ isExpired(v, step)
     /\ \E J \in Judgments : step \in dueTimers(v, J)}

\* A timeout of a round from SyncRound on passes only when all is quiet, and the
\* shorter timeouts of the rounds that came before, which others armed at most
\* a delay later, passed too.
TimelyExpire(v, J) ==
  /\ Expire(v, J)
  /\ currentRound(v) >= SyncRound => Quiet /\ runningBefore(currentRound(v)) = {}

TimelyNext ==
  \E v \in Honest :
    \/ Step(v)
    \/ Send(v)
    \/ \E J \in Judgments : TimelyExpire(v, J)
    \/ \E m \in pool : Receive(v, m)
    \/ ImportDecision(v)

\* The driver's loop steps, adds and wakes as long as it runs, and the states
\* keep being exchanged.
Fairness ==
  \A v \in Honest :
    /\ WF_vars(Step(v))
    /\ WF_vars(Send(v))
    /\ WF_vars(\E J \in Judgments : TimelyExpire(v, J))
    /\ WF_vars(\E m \in pool : Receive(v, m))
    /\ WF_vars(ImportDecision(v))

FairSpec == Init /\ [][TimelyNext]_vars /\ Fairness

\* Every honest voter applies a decision: no round, lock, lost timer or
\* proposer that stays silent holds the group up forever.
EveryoneDecides == <>(\A v \in Honest : decision[v] # Nil)
=============================================================================
