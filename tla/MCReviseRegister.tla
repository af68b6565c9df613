-------------------------- MODULE MCReviseRegister --------------------------
(* Instances of ReviseRegister for TLC: task files and guidance. *)
EXTENDS ReviseRegister

(* The template's file, one a worker has noted something in, and one whose *)
(* Registers come last.                                                    *)
TaskFiles ==
  {<<"text", "registers", "empty", "head", "empty">>,
   <<"head", "registers", "text", "text", "head", "text">>,
   <<"text", "registers", "empty">>}

(* Text that begins with a sentence; text that begins with a heading, as   *)
(* the scanner's report does, behind whatever words the parser puts before *)
(* it; text with ## further on in a line, and with an entry quoted behind. *)
ScanGuidance ==
  {<<"text">>, <<"text", "text">>, <<"text", "head">>, <<"text", "head", "text">>,
   <<"head", "text">>, <<"head", "text", "head", "revise">>, <<"inline">>,
   <<"text", "inline", "revise">>, <<"text", "head", "inline">>}

(* ... and text that quotes an entry on a line of its own, where it counts. *)
QuotingGuidance == ScanGuidance \cup {<<"text", "revise">>}
=============================================================================
