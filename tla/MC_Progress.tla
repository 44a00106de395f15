---------------------------- MODULE MC_Progress ----------------------------
(* The programs that wait for one another or for a device and are to go on: *)
(* the terminal, the command line clients, the processes that share a       *)
(* buffer, and those under its exclusive locks.  Each behaviour runs one of *)
(* the four, on a small instance, while the variables of the others rest.   *)
EXTENDS Com, RbClients, MC_RbShm, RbExclusive

VARIABLE program

ProgressVars == <<program, com_vars, cli_vars, vars, exc_vars>>

FirstItem == CHOOSE item \in ExcItem : TRUE
ProgressInit ==
  /\ program \in {"com", "clients", "shared", "exclusive"}
  /\ ComInit /\ CliInit /\ Init /\ ExcInit
  /\ exc_dead = IF program = "exclusive" THEN {} ELSE exc_all
  /\ program # "exclusive" => \A k \in DOMAIN exc_buf : exc_buf[k] = FirstItem

ProgressNext ==
  /\ UNCHANGED program
  /\ IF program = "com" THEN ComNext ELSE UNCHANGED com_vars
  /\ IF program = "clients" THEN CliNext ELSE UNCHANGED cli_vars
  /\ IF program = "shared" THEN Next ELSE UNCHANGED vars
  /\ IF program = "exclusive" THEN ExcNext ELSE UNCHANGED exc_vars

\* Each has the fairness of its own processes.
ProgressFairness == ComFairness /\ CliFairness /\ Fairness /\ ExcFairness

ProgressSpec == ProgressInit /\ [][ProgressNext]_ProgressVars /\ ProgressFairness
=============================================================================
