------------------------------- MODULE MCDesk -------------------------------
(* Small instances of Desk, over the commands of cli.py. *)
EXTENDS Desk

Cli == INSTANCE Commands

(* A command that ends by itself, and one that lasts as long as a session. *)
Buttons == {"record", "audit"}

AllButtons == Cli!Allowed

CliOutcome == Cli!Outcome

(* A recording lasts until the close, longer than a run of the checker. *)
Short(a) == a # "record"
=============================================================================
