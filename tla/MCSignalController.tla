------------------------- MODULE MCSignalController -------------------------
(* The live controller and the stand-alone service, which share nothing:   *)
(* each is explored while the other rests.  Junctions are interchangeable, *)
(* and so are the names of phases and the service's clients.               *)
EXTENDS SignalController, SignalTraining, TLC

CONSTANTS u1, u2

JunctionSymmetry == Permutations(Junction)
PhaseSymmetry    == Permutations(Phase)
Symmetry         == JunctionSymmetry \cup PhaseSymmetry \cup Permutations(Clients)

SignalsInit == Init /\ TrainingInit

\* Nobody else sees an episode: nothing else moves during one, and it is
\* played only where no environment has been made for the junction.
EpisodesApart ==
    \A c \in Clients : Practising(c) =>
       /\ \A d \in Clients \ {c} : client'[d] = client[d]
       /\ envs # << >> => client'[c].own \in Fresh \cup {NoEnv}

\* Steps of a junction's environment never look at the policy: after the first
\* training the service has trained none again while there is one.
PoliciesApart == envs' # << >> => trained' = 1

SignalsNext ==
    \/ TrainingInit /\ Next /\ UNCHANGED training
    \/ Init /\ TrainingNext /\ EpisodesApart /\ PoliciesApart /\ UNCHANGED vars

SignalsSpec == SignalsInit /\ [][SignalsNext]_<<vars, training>>
=============================================================================
