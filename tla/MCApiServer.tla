---------------------------- MODULE MCApiServer ----------------------------
(***************************************************************************)
(* Two parts of the api-server that share nothing but Redis, checked one   *)
(* or the other: a behaviour is one of the gate or one of the commands.    *)
(***************************************************************************)
EXTENDS ApiAccess, BotCommands, TLC

VARIABLE focus

apiVars == <<accessVars, commandVars, focus>>

ApiInit ==
    /\ focus \in {"access", "commands"}
    /\ AccessInit
    /\ CommandsInit

ApiNext ==
    /\ UNCHANGED focus
    /\ \/ focus = "access" /\ AccessNext /\ UNCHANGED commandVars
       \/ focus = "commands" /\ CommandsNext /\ UNCHANGED accessVars

ApiSpec == ApiInit /\ [][ApiNext]_apiVars

CallSymmetry == Permutations(Calls)

=============================================================================
