---------------------------- MODULE MCImapSession ----------------------------
(* Two users with an account of the same label and a folder each. *)
EXTENDS ImapSession, TLC

CONSTANTS a, b, x, y, dot, slash, ann, bob

MCUserOf     == (dot :> ann) @@ (slash :> bob)
MCLabel      == (dot :> <<"w">>) @@ (slash :> <<"w">>)
MCAccountOf  == (x :> dot) @@ (y :> slash)
MCSource     == (x :> <<"p", ".", "q">>) @@ (y :> <<"p", "/", "q", ".", "r">>)
MCDelimiters == (dot :> {".", Unknown}) @@ (slash :> {"/"})
MCLegacy     == {[folder |-> x, uid |-> 1, msg |-> Empty]}
MCNoSuchName == <<"w", "/", "r">>
MCAsked      == {{"other"}, {"row", "header", "other"}, {"header", "text"}, {"whole"}}

MCSymmetry == Permutations(Contents)
=============================================================================
