------------------------------- MODULE Naming -------------------------------
(***************************************************************************)
(* naming.rs: from the name a source gives a folder to the name shown over *)
(* IMAP, and back.  A name is a sequence of characters; a source's         *)
(* hierarchy delimiter is a character, or Unknown.                         *)
(***************************************************************************)
EXTENDS Naturals, Sequences

CONSTANTS
  Chars,
  OURS,     \* the delimiter the server shows
  Unknown

ASSUME NamingAssumption == OURS \in Chars /\ Unknown \notin Chars

Replace(s, from, to) == [i \in DOMAIN s |-> IF s[i] = from THEN to ELSE s[i]]

Translates(d) == d \notin {OURS, Unknown}

ToDisplay(source, d) ==
  IF Translates(d) THEN Replace(source, d, OURS) ELSE source

(* Mutant: only what was shown is translated, not what comes back. *)
FromDisplayVerbatim(display, d) == display

FromDisplay(display, d) ==
  IF Translates(d) THEN Replace(display, OURS, d) ELSE display

(* The source uses the delimiter for hierarchy only, and ours not at all
   unless it is its own. *)
Reversible(source, d) ==
  Translates(d) => \A i \in DOMAIN source : source[i] # OURS
=============================================================================
