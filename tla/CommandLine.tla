----------------------------- MODULE CommandLine -----------------------------
(***************************************************************************)
(* src/main.c: the command line, the configuration it leads to and the     *)
(* exit status.  A command line is the set of options getopt() reports     *)
(* ("?" is one it does not know) and the number of arguments after them;   *)
(* the texts of addresses and ports are not distinguished.                 *)
(***************************************************************************)
EXTENDS Errors

CONSTANT CommandLines   \* the command lines the program is started with

ASSUME CommandLineAssumption ==
    CommandLines \subseteq [opts : SUBSET {"i", "o", "h", "?"}, rest : Nat]

VARIABLES config,   \* config_t of main
          status    \* "none", "running" after the arguments, then the exit status

mainVars == <<config, status>>

EXIT_SUCCESS == "success"
EXIT_FAILURE == "failure"

\* config_t config = {0}
NoConfig == [b_encrypt_in |-> FALSE, b_encrypt_out |-> FALSE]

CommandLineInit == config = NoConfig /\ status = "none"

parse_args(argv) ==
    IF argv.opts \cap {"h", "?"} # {} \/ argv.rest # 4 THEN -1 ELSE 0

\* main, up to proxy_run.
ReadCommandLine ==
    /\ status = "none"
    /\ \E argv \in CommandLines :
         \/ /\ parse_args(argv) = 0
            /\ config' = [b_encrypt_in |-> "i" \in argv.opts, b_encrypt_out |-> "o" \in argv.opts]
            /\ status' = "running"
         \/ /\ parse_args(argv) # 0
            /\ status' = EXIT_FAILURE
            /\ UNCHANGED config

\* What main returns when proxy_run has returned err.
ExitStatus(err) == IF err = PROXY_ERR THEN EXIT_FAILURE ELSE EXIT_SUCCESS

\* accept_callback: b_encrypted of a side comes from the configuration.
Encrypted(side) == IF side = "client" THEN config.b_encrypt_in ELSE config.b_encrypt_out
=============================================================================
