------------------------------ MODULE Options ------------------------------
(***************************************************************************)
(* The command line of a program (CommandLineArguments).  An argument is   *)
(* [kind |-> "long", name |-> ...] for --name, [kind |-> "short", letters  *)
(* |-> <<...>>] for -abc (a single "-" has no letters), or [kind |->       *)
(* "plain", text |-> ...].                                                 *)
(***************************************************************************)
EXTENDS Integers, Sequences

CONSTANTS
  Template,      \* the parameters: [name, abbreviation, required, type, width]
  Numbers,       \* the texts that start with a number, and the number
  HugeTexts,     \* the texts whose number no int can hold
  NotSet

ASSUME TemplateAssumption ==
  Template \in Seq([name : STRING, abbreviation : STRING, required : BOOLEAN,
                    type : {"string", "int", "bool", "flag"}, width : Nat])

(* The types: "string", "int" and "bool" need an argument, "flag" does not. *)
Parameters == DOMAIN Template

RequiresArgument(p) == Template[p].type # "flag"

Named(name) ==
  LET found == {p \in Parameters : Template[p].name = name}
  IN  IF found = {} THEN 0 ELSE CHOOSE p \in found : \A q \in found : p <= q

Abbreviated(letter) ==
  LET found == {p \in Parameters : Template[p].abbreviation = letter}
  IN  IF found = {} THEN 0 ELSE CHOOSE p \in found : \A q \in found : p <= q

Yes == {"yes", "true", "enabled", "1"}
No  == {"no", "false", "disabled", "0"}

(* What set() of a storage makes of a text: a value, "error" or "abort".
   Nothing catches the exception of a number that is out of range. *)
Stored(type, text) ==
  CASE type = "flag"   -> [ok |-> TRUE, value |-> TRUE]
    [] type = "string" -> [ok |-> TRUE, value |-> text]
    [] type = "bool" /\ text \in Yes -> [ok |-> TRUE, value |-> TRUE]
    [] type = "bool" /\ text \in No  -> [ok |-> TRUE, value |-> FALSE]
    [] type = "int" /\ text \in DOMAIN Numbers ->
         [ok |-> TRUE, value |-> Numbers[text]]
    [] type = "int" /\ text \in HugeTexts -> [ok |-> FALSE, value |-> "abort"]
    [] OTHER -> [ok |-> FALSE, value |-> "error"]

-----------------------------------------------------------------------------
(***************************************************************************)
(* The state of process(): the parameter that waits for an argument, or 0; *)
(* the values that are set; and "running", or how it has ended.            *)
(***************************************************************************)
Ended(state, how) == [state EXCEPT !.outcome = how]

(* (Variant: a parameter goes on waiting for further arguments.) *)
SetArgumentAgain(state, text) ==
  LET stored == Stored(Template[state.current].type, text)
  IN  IF stored.ok THEN [state EXCEPT !.values[state.current] = stored.value]
      ELSE Ended(state, stored.value)

SetArgument(state, text) ==
  LET stored == Stored(Template[state.current].type, text)
  IN  IF stored.ok
      THEN [state EXCEPT !.values[state.current] = stored.value, !.current = 0]
      ELSE Ended(state, stored.value)

SetEmptyParameterArgument(state) ==
  IF RequiresArgument(state.current) THEN Ended(state, "error")
                                     ELSE SetArgument(state, "")

Letter(state, letter) ==
  LET flushed == IF state.outcome = "running" /\ state.current # 0
                 THEN SetEmptyParameterArgument(state) ELSE state
  IN  IF flushed.outcome # "running" THEN flushed
      ELSE IF Abbreviated(letter) = 0 THEN Ended(flushed, "error")
      ELSE [flushed EXCEPT !.current = Abbreviated(letter)]

(* A parameter that waits is forgotten, even one that needs no argument. *)
Long(state, name) ==
  IF name = "help" THEN Ended(state, "help")
  ELSE IF Named(name) = 0 THEN Ended(state, "error")
  ELSE [state EXCEPT !.current = Named(name)]

Letters(state, letters) ==
  LET upTo[i \in 0..Len(letters)] ==
        IF i = 0 THEN state ELSE Letter(upTo[i - 1], letters[i])
  IN  upTo[Len(letters)]

Argument(state, arg) ==
  IF state.outcome # "running" THEN state
  ELSE CASE arg.kind = "long"  -> Long(state, arg.name)
         [] arg.kind = "short" -> Letters(state, arg.letters)
         [] arg.kind = "plain" ->
              IF state.current = 0 \/ ~ RequiresArgument(state.current)
              THEN Ended(state, "error")
              ELSE SetArgument(state, arg.text)

Process(args) ==
  LET start == [current |-> 0, outcome |-> "running",
                values |-> [p \in Parameters |-> NotSet]]
      upTo[i \in 0..Len(args)] ==
        IF i = 0 THEN start ELSE Argument(upTo[i - 1], args[i])
      read  == upTo[Len(args)]
      last  == IF read.outcome = "running" /\ read.current # 0
               THEN SetEmptyParameterArgument(read) ELSE read
  IN  IF last.outcome # "running" THEN last
      ELSE IF \E p \in Parameters : Template[p].required /\ last.values[p] = NotSet
      THEN Ended(last, "error")
      ELSE Ended(last, "accepted")

(* What becomes of the program. *)
ProcessOrExit(args) ==
  CASE Process(args).outcome \in {"error", "help"} -> "exit"
    [] Process(args).outcome = "abort" -> "abort"
    [] OTHER -> "runs"

-----------------------------------------------------------------------------
(***************************************************************************)
(* The help screen: each name is followed by spaces up to the next tab     *)
(* stop and then by whole tabs of four.  The variable for the number of    *)
(* tabs is not initialised: it starts as any number.                       *)
(***************************************************************************)
ParamNameColumnSize(p) ==
  4 + 2 + Template[p].width + 1
    + (IF Template[p].abbreviation # "" THEN 5 ELSE 0)
    + (IF RequiresArgument(p) THEN 8 ELSE 0)

RequiredTabs(p) == (ParamNameColumnSize(p) + 3) \div 4

HelpTabs(garbage) ==
  LET tabs[n \in 0..Len(Template)] ==       \* after n parameters
        IF n = 0 THEN garbage
        ELSE IF RequiredTabs(n) > tabs[n - 1] THEN RequiredTabs(n) ELSE tabs[n - 1]
  IN  tabs[Len(Template)]

(* The tabs of fillColumn(); from a negative number its loop counts down. *)
Filler(tabs, size) == tabs - (size \div 4) - 1

(* (Variant: the name is not filled up to a tab stop.) *)
HelpColumnUnfilled(tabs, p) ==
  ParamNameColumnSize(p) + 4 * Filler(tabs, ParamNameColumnSize(p))

HelpColumn(tabs, p) ==
  LET size == ParamNameColumnSize(p)
  IN  size + (4 - (size % 4)) + 4 * Filler(tabs, size)

-----------------------------------------------------------------------------
(***************************************************************************)
(* The positions of the command line at which parameter p is given, and    *)
(* the next argument of any effect.                                        *)
(***************************************************************************)
Given(args, p) ==
  {i \in DOMAIN args :
     \/ args[i].kind = "long" /\ Named(args[i].name) = p
     \/ args[i].kind = "short" /\ \E k \in DOMAIN args[i].letters :
                                     Abbreviated(args[i].letters[k]) = p}

NextOf(args, i) ==
  LET after == {k \in (i + 1)..Len(args) :
                  ~ (args[k].kind = "short" /\ args[k].letters = <<>>)}
  IN  IF after = {} THEN 0 ELSE CHOOSE k \in after : \A l \in after : k <= l

(* A parameter that another letter of the same argument follows is set. *)
Forgotten(args, i, p) ==
  /\ NextOf(args, i) # 0 /\ args[NextOf(args, i)].kind = "long"
  /\ \/ args[i].kind = "long"
     \/ Abbreviated(args[i].letters[Len(args[i].letters)]) = p
        /\ \A k \in 1..(Len(args[i].letters) - 1) :
             Abbreviated(args[i].letters[k]) # p

(***************************************************************************)
(* A command line that is accepted means what it says: a parameter has the *)
(* value of the argument that follows it where it is given last (a flag is *)
(* on), and is not set if it is not given.  The exception: one that is     *)
(* directly followed by a --long option counts as not given, flag or not.  *)
(***************************************************************************)
OptionsMean(args) ==
  Process(args).outcome = "accepted" =>
    \A p \in Parameters :
      LET effective == {i \in Given(args, p) : ~ Forgotten(args, i, p)}
          last      == CHOOSE i \in effective : \A k \in effective : k <= i
          text      == IF RequiresArgument(p) THEN args[NextOf(args, last)].text
                                              ELSE ""
      IN  Process(args).values[p] =
            IF effective = {} THEN NotSet ELSE Stored(Template[p].type, text).value

(***************************************************************************)
(* All help texts start in one column, unless the longest name ends at a   *)
(* tab stop and the uninitialised number is not larger: then the loop that *)
(* fills its column counts down from -1.                                   *)
(***************************************************************************)
HelpLinesUp(garbage) ==
  LET tabs    == HelpTabs(garbage)
      longest == CHOOSE p \in Parameters :
                   \A q \in Parameters :
                     ParamNameColumnSize(q) <= ParamNameColumnSize(p)
      size    == ParamNameColumnSize(longest)
  IN  IF \A p \in Parameters : Filler(tabs, ParamNameColumnSize(p)) >= 0
      THEN \A p, q \in Parameters : HelpColumn(tabs, p) = HelpColumn(tabs, q)
      ELSE size % 4 = 0 /\ garbage <= size \div 4
=============================================================================
