-------------------------------- MODULE Grammar --------------------------------
(***************************************************************************)
(* What a grammar for ragel, from which a parser was generated, expects    *)
(* next.                                                                   *)
(*                                                                         *)
(* A grammar g maps in g.rules a name to its alternatives and in g.repeats *)
(* a repetition to the symbol it repeats (x_s for a repeated x).  A symbol *)
(* is such a name, a set of characters named in g.sets, an action, or one  *)
(* character.  Entering actions (>a) are written before, leaving ones (%a) *)
(* and finishing ones (@a) behind the expression they belong to.  "guard"  *)
(* is the :> or :>> before its right operand: the first character of that  *)
(* operand ends the left one.                                              *)
(*                                                                         *)
(* An option is a way to reach the next character: the actions passed, in  *)
(* order, the characters it may be, and what remains behind it.            *)
(***************************************************************************)
LOCAL INSTANCE SequencesExt

RECURSIVE Expand(_, _, _)
Expand(g, acts, rest) ==
  IF rest = <<>> THEN {}
  ELSE LET h == Head(rest) t == Tail(rest) IN
       IF h \in g.actions THEN Expand(g, Append(acts, h), t)
       ELSE IF h \in DOMAIN g.repeats
       THEN Expand(g, acts, t) \cup Expand(g, acts, <<g.repeats[h], h>> \o t)
       ELSE IF h \in DOMAIN g.rules
       THEN UNION {Expand(g, acts, alt \o t) : alt \in g.rules[h]}
       ELSE {[acts |-> acts, on |-> IF h \in DOMAIN g.sets THEN g.sets[h] ELSE {h}, rest |-> t]}

\* Finishing actions are performed with the last character of their operand.
RECURSIVE Finish(_, _)
Finish(g, option) ==
  IF option.rest # <<>> /\ Head(option.rest) \in g.finishing
  THEN Finish(g, [option EXCEPT !.acts = Append(@, Head(option.rest)), !.rest = Tail(@)])
  ELSE option

\* The options that go on when character c has been read.
GoOn(g, options, c) ==
  LET match == {o \in options : c \in o.on}
      ended == \E o \in match : "guard" \in ToSet(o.acts)
  IN  {Finish(g, o) : o \in {o \in match : ended => "guard" \notin ToSet(o.rest)}}

\* The actions the options passed.
Passed(options) == UNION {ToSet(o.acts) : o \in options} \ {"guard"}

=============================================================================
