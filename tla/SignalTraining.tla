--------------------------- MODULE SignalTraining ---------------------------
(***************************************************************************)
(* The stand-alone service of signal-rl: a simulated junction that the     *)
(* endpoints apply actions to, and the policy that is trained, saved and   *)
(* served.                                                                 *)
(*                                                                         *)
(* The endpoints are synchronous, so each request runs on a thread and can *)
(* be overtaken between any two looks at what they share; only the step of *)
(* an environment, once judged, is taken as one.  Times are in seconds;    *)
(* of the traffic only whether pedestrians wait is kept, and of a policy   *)
(* only which training made it.                                            *)
(***************************************************************************)
EXTENDS Integers, Sequences, FiniteSets

CONSTANTS StepS,        \* STEP_S, a decision's interval
          GreenS, RedS, \* default_s of the green and of the all-red phases
          LeastGreenS, MostGreenS, CapS, ClearanceS, \* thresholds of the envelope
          Clients,      \* requests served at a time
          MaxTrainings  \* bound of the model

ASSUME TrainingConstants ==
    /\ {StepS, GreenS, RedS, LeastGreenS, CapS} \subseteq Nat \ {0}
    /\ {MostGreenS, ClearanceS, MaxTrainings} \subseteq Nat
    /\ LeastGreenS <= MostGreenS
    /\ ClearanceS <= StepS
    /\ StepS <= 10
    /\ IsFiniteSet(Clients) /\ Clients # {}

Safe == INSTANCE SignalSafety WITH MinGreen <- LeastGreenS, MaxGreen <- MostGreenS,
                                   Headroom <- CapS

VARIABLES
    envs,     \* the environments made for the junction
    held,     \* the one _envs holds, or 0
    client,   \* client -> its request
    served,   \* _agent, the policy that recommends
    file,     \* trained_signal_policy.json
    trained   \* trainings so far

training == <<envs, held, client, served, file, trained>>

-----------------------------------------------------------------------------
(* The environment.                                                         *)
NsGreen == 0
AllRed1 == 1
EwGreen == 2
AllRed2 == 3
Greens  == {NsGreen, EwGreen}

Default(phase) == IF phase \in Greens THEN GreenS ELSE RedS

Fresh == {[phase |-> NsGreen, elapsed |-> 0, duration |-> GreenS, waiting |-> w] : w \in BOOLEAN}

TimeLeft(e) == IF e.duration > e.elapsed THEN e.duration - e.elapsed ELSE 0

JudgementWhileWaiting(e, action) ==             \* variant: however long is left
    Safe!Validate(e.elapsed, e.waiting, action)

Judgement(e, action) ==
    Safe!Validate(e.elapsed, e.waiting /\ TimeLeft(e) < ClearanceS, action)

NextPhaseOf(e) ==
    LET phase == (e.phase + 1) % 4
    IN  [e EXCEPT !.phase = phase, !.elapsed = 0, !.duration = Default(phase)]

Acted(e, action) ==
    CASE action = Safe!NextPhase -> NextPhaseOf(e)
      [] action = Safe!Extend5   -> [e EXCEPT !.duration = @ + 5]
      [] action = Safe!Extend10  -> [e EXCEPT !.duration = @ + 10]
      [] action = Safe!Hold      -> e

Expired(e) == e.elapsed >= e.duration

\* StepS seconds pass; a phase whose time is up ends by itself.
Simulated(e) ==
    LET later == [e EXCEPT !.elapsed = @ + StepS]
    IN  IF Expired(later) THEN NextPhaseOf(later) ELSE later

\* What step makes of the environment once the action is decided.
Stepped(e, action) == {[Simulated(Acted(e, action)) EXCEPT !.waiting = w] : w \in BOOLEAN}

-----------------------------------------------------------------------------
NoEnv == [phase |-> NsGreen, elapsed |-> 0, duration |-> 0, waiting |-> FALSE]
Idle  == [at |-> "idle", env |-> 0, said |-> "none", done |-> "none", policy |-> 0, own |-> NoEnv]
NoPolicy == 0
Torn     == -1

\* Start-up loads the policy, or trains one and saves it.
TrainingInit ==
    /\ envs = << >>
    /\ held = 0
    /\ client = [c \in Clients |-> Idle]
    /\ trained = 1
    /\ served = 1
    /\ file = 1

Busy(c) == client[c].at # "idle"

Begins(c, at) ==
    /\ ~Busy(c)
    /\ client' = [client EXCEPT ![c].at = at]

Moves(c, changed) == client' = [client EXCEPT ![c] = changed]

Data == <<served, file, trained>>

(***************************************************************************)
(* POST apply.  _env looks for the junction's environment and, when there  *)
(* is none, makes one and stores it; it returns what is stored then.       *)
(***************************************************************************)
LooksForEnv(c) ==
    /\ Begins(c, IF held = 0 THEN "make" ELSE "judge")
    /\ UNCHANGED <<envs, held, Data>>

MakesEnv(c) ==
    /\ client[c].at = "make"
    /\ \E e \in Fresh : envs' = Append(envs, e)
    /\ held' = Len(envs) + 1
    /\ Moves(c, [client[c] EXCEPT !.at = "judge"])
    /\ UNCHANGED Data

\* The endpoint judges the action, and step judges the endpoint's verdict.
Judges(c, action) ==
    /\ client[c].at = "judge"
    /\ Moves(c, [client[c] EXCEPT !.at = "step", !.env = held,
                                  !.said = Judgement(envs[held], action)])
    /\ UNCHANGED <<envs, held, Data>>

StepJudges(c) ==
    /\ client[c].at = "step"
    /\ Moves(c, [client[c] EXCEPT !.at = "act",
                                  !.done = Judgement(envs[client[c].env], client[c].said)])
    /\ UNCHANGED <<envs, held, Data>>

StepActs(c) ==
    /\ client[c].at = "act"
    /\ \E e \in Stepped(envs[client[c].env], client[c].done) :
         envs' = [envs EXCEPT ![client[c].env] = e]
    /\ Moves(c, Idle)
    /\ UNCHANGED <<held, served, file, trained>>

\* GET state answers from the environment, which it makes when there is none.
Reads(c) ==
    /\ client[c].at = "judge"
    /\ Moves(c, Idle)
    /\ UNCHANGED <<envs, held, Data>>

(***************************************************************************)
(* Episodes, of a training or of a comparison, run on environments of      *)
(* their own, which nobody else steps; each starts with a reset.           *)
(***************************************************************************)
Practising(c) == client[c].at \in {"train", "greedy", "fixed"}

FixedTime(e) == IF TimeLeft(e) < 5 THEN Safe!NextPhase ELSE Safe!Hold

\* A step of run_episode or run_fixed_time_episode; the environment judges.
Practises(c, action) ==
    /\ Practising(c)
    /\ client[c].at = "fixed" => action = FixedTime(client[c].own)
    /\ \E e \in Stepped(client[c].own, Judgement(client[c].own, action)) :
          Moves(c, [client[c] EXCEPT !.own = e])
    /\ UNCHANGED <<envs, held, Data>>

\* GET compare reads the file and fails when it cannot; the greedy episodes
\* come first, then those of the baseline.
Compares(c) ==
    /\ ~Busy(c) /\ file # Torn
    /\ \E e \in Fresh : Moves(c, [Idle EXCEPT !.at = "greedy", !.own = e])
    /\ UNCHANGED <<envs, held, Data>>

NextEpisode(c) ==
    /\ Practising(c)
    /\ \E e \in Fresh : Moves(c, [client[c] EXCEPT !.own = e, !.at = IF @ = "greedy" THEN "fixed" ELSE @])
    /\ UNCHANGED <<envs, held, Data>>

(***************************************************************************)
(* POST train: the policy is trained, written over the file, which is      *)
(* empty meanwhile, and then put in service.                               *)
(***************************************************************************)
Trains(c) ==
    /\ trained < MaxTrainings
    /\ ~Busy(c)
    /\ \E e \in Fresh : Moves(c, [Idle EXCEPT !.at = "train", !.own = e])
    /\ UNCHANGED <<envs, held, Data>>

EpisodesEnd(c) ==
    /\ client[c].at \in {"train", "fixed"}
    /\ Moves(c, [Idle EXCEPT !.at = IF client[c].at = "train" THEN "save" ELSE "idle"])
    /\ UNCHANGED <<envs, held, Data>>

OpensFile(c) ==
    /\ client[c].at = "save"
    /\ trained' = trained + 1
    /\ Moves(c, [client[c] EXCEPT !.at = "write", !.policy = trained + 1])
    /\ file' = Torn
    /\ UNCHANGED <<envs, held, served>>

WritesFile(c) ==
    /\ client[c].at = "write"
    /\ file' = client[c].policy
    /\ Moves(c, [client[c] EXCEPT !.at = "install"])
    /\ UNCHANGED <<envs, held, served, trained>>

Installs(c) ==
    /\ client[c].at = "install"
    /\ served' = client[c].policy
    /\ Moves(c, Idle)
    /\ UNCHANGED <<envs, held, file, trained>>

\* A restart forgets all but the file; without a readable one the service
\* does not start again.
Restart ==
    /\ \E c \in Clients : Busy(c)
    /\ envs' = << >>
    /\ held' = 0
    /\ client' = [c \in Clients |-> Idle]
    /\ served' = IF file = Torn THEN NoPolicy ELSE file
    /\ UNCHANGED <<file, trained>>

TrainingNext ==
    \/ served # NoPolicy /\ Restart
    \/ /\ served # NoPolicy
       /\ \E c \in Clients :
            \/ LooksForEnv(c) \/ MakesEnv(c)
            \/ \E action \in Safe!Action : Judges(c, action)
            \/ StepJudges(c) \/ StepActs(c) \/ Reads(c)
            \/ \E action \in Safe!Action : Practises(c, action)
            \/ Compares(c) \/ NextEpisode(c) \/ Trains(c) \/ EpisodesEnd(c)
            \/ OpensFile(c) \/ WritesFile(c) \/ Installs(c)

TrainingSpec == TrainingInit /\ [][TrainingNext]_training

-----------------------------------------------------------------------------
\* No phase outlasts the maximum, but for a step, and for each other request
\* under way 10 s, the longest extension.  At the maximum a switch is forced,
\* or put off for pedestrians only when the phase is about to end by itself; a
\* step judged before still adds its time, and an extension judged before lets
\* a request that put the switch off go on, too.  The one step of an episode
\* that nobody overtakes is the first of these.
PhasesEnd ==
    /\ \A i \in DOMAIN envs :
          envs[i].elapsed <= MostGreenS + StepS + ClearanceS + 10 * (Cardinality(Clients) - 1)
    /\ \A c \in Clients : client[c].own.elapsed <= MostGreenS + StepS

(***************************************************************************)
(* Claims of comments and documents.                                       *)
(***************************************************************************)
\* The response names "action_applied".
ReportedIsTaken == \A c \in Clients : client[c].at = "act" => client[c].said = client[c].done

\* "all-red inter-green (enforced by the phase programme itself)".
AllRedInBetween ==
    [][\A i \in DOMAIN envs \cap DOMAIN envs' :
          envs[i].phase = NsGreen => envs'[i].phase # EwGreen]_training

\* "Train the agent and persist the policy."
PolicyPersisted == (\A c \in Clients : ~Busy(c)) /\ served # NoPolicy => served = file

\* A service that is stopped comes back with a policy.
StartsAgain == served # NoPolicy
=============================================================================
