---------------------------- MODULE ArgumentParser ----------------------------
(****************************************************************************)
(* ccl::cli::argparse: the program declares its arguments, then the parser  *)
(* matches the command line against one regular expression built from them  *)
(* and gives the groups it captured back to the arguments, by counting.     *)
(* A command line is a sequence of words; a flag stands for its short and   *)
(* its long form, and "--name=value" for the two words.                     *)
(****************************************************************************)
EXTENDS Integers, Sequences, SequencesExt

CONSTANTS
  Names,        \* the names of arguments
  Texts,        \* the words a string argument may have as its value
  Numbers,      \* the words an integer or a double may have
  Unset,        \* the value of an argument not given
  MaxArguments, \* bound on the declarations
  MaxParses     \* bound on the command lines parsed

\* A declaration [name, type, required], with type "BOOLEAN", "STRING" or "INTEGER".
\* What holds of an integer here holds of a double.

VARIABLES
  m_optional_args, m_required_args, \* the declarations, each list in its order
  values,   \* values[name]: what the argument holds, Unset while m_has_value is false
  given,    \* given[name]: the value the command lines since the last clean gave it
  plain,    \* no BOOLEAN was declared as required
  threw,    \* the last parse did not match
  parses

parserVars == <<m_optional_args, m_required_args, values, given, plain, threw, parses>>

\* Words are tuples: the flag of an option, and what setValue() gives a BOOLEAN.
Flag(name) == <<name>>
Flipped == <<"not", "the default">>
Accepts(o, word) == o.type = "INTEGER" => word \in Numbers
Declared == m_optional_args \o m_required_args

Init ==
  /\ m_optional_args = <<>> /\ m_required_args = <<>>
  /\ values = [n \in Names |-> Unset] /\ given = [n \in Names |-> Unset]
  /\ plain = TRUE /\ threw = FALSE /\ parses = 0

-----------------------------------------------------------------------------
\* addTypedArgument.  That a name is declared twice is left out: m_arg_map would
\* keep the first argument and its type.
AddArgument(o) ==
  /\ Len(Declared) < MaxArguments
  /\ \A d \in ToSet(Declared) : d.name # o.name
  /\ IF o.required
     THEN m_required_args' = Append(m_required_args, o) /\ UNCHANGED m_optional_args
     ELSE m_optional_args' = Append(m_optional_args, o) /\ UNCHANGED m_required_args
  /\ plain' = (plain /\ ~(o.required /\ o.type = "BOOLEAN"))
  /\ UNCHANGED <<values, given, threw, parses>>

\* The words the pattern of an argument (getPatternMatch) matches, and the
\* groups it then captures.
Flagged(o, words) == words[1] = Flag(o.name)

BooleanPattern(o, words) == words = <<>> \/ (Len(words) = 1 /\ Flagged(o, words))
RequiredPattern(o, words) == Len(words) = 1 /\ Accepts(o, words[1])
OptionPattern(o, words) == words = <<>> \/ (Len(words) = 2 /\ Flagged(o, words) /\ Accepts(o, words[2]))

Pattern(o, words) ==
  IF o.required THEN RequiredPattern(o, words)
  ELSE IF o.type = "BOOLEAN" THEN BooleanPattern(o, words) ELSE OptionPattern(o, words)

Captured(o, words) == IF words # <<>> THEN words ELSE IF o.type = "BOOLEAN" THEN <<Unset>> ELSE <<Unset, Unset>>

\* regex_match of combinePatterns: the words are cut into one part for each
\* argument, in their order; cut[i] is where part i ends.
Part(words, cut, i) == SubSeq(words, cut[i - 1] + 1, cut[i])
Cuts(args, words) ==
  {cut \in [0..Len(args) -> 0..Len(words)] :
     /\ cut[0] = 0 /\ cut[Len(args)] = Len(words)
     /\ \A i \in 1..Len(args) : cut[i - 1] <= cut[i] /\ Pattern(args[i], Part(words, cut, i))}

\* The regular expression lets an argument take words before it lets it take none.
TriedBefore(cut, other) == \E i \in DOMAIN cut : cut[i] > other[i] /\ \A j \in 0..i - 1 : cut[j] = other[j]
FirstTried(cuts) == CHOOSE cut \in cuts : \A other \in cuts \ {cut} : TriedBefore(cut, other)

\* The groups of the match; <<>> when there is none.
MatchAll(args, words) ==
  LET cuts == Cuts(args, words)
      Groups(cut) == FlattenSeq([i \in 1..Len(args) |-> Captured(args[i], Part(words, cut, i))])
  IN  IF cuts = {} THEN <<>> ELSE <<Groups(FirstTried(cuts))>>

\* A required BOOLEAN has "?" as its pattern: behind the space before it, that
\* is one more space, which only a line without words has to give.
Matches(line) ==
  IF \E o \in ToSet(m_required_args) : o.type = "BOOLEAN"
  THEN IF line = <<>> /\ Len(m_required_args) = 1 THEN MatchAll(m_optional_args, line) ELSE <<>>
  ELSE MatchAll(Declared, line)

\* handleMatchingGroups goes through the arguments while groups are left; acc
\* holds curridx and the values set.
GroupCountMutant(o) == IF o.type = "STRING" THEN 1 ELSE IF o.type = "BOOLEAN" \/ o.required THEN 1 ELSE 2
GroupCount(o) == IF o.type # "BOOLEAN" /\ ~o.required THEN 2 ELSE 1

NewValue(groups, curridx, o, old) ==
  IF groups[curridx] = Unset THEN old
  ELSE IF o.type = "BOOLEAN" THEN Flipped
  ELSE groups[curridx + GroupCount(o) - 1]

Assign(groups, acc, o) ==
  IF acc.curridx > Len(groups) THEN acc
  ELSE [curridx |-> acc.curridx + GroupCount(o),
        values  |-> [acc.values EXCEPT ![o.name] = NewValue(groups, acc.curridx, o, @)]]

Assigned(groups) ==
  FoldLeft(LAMBDA acc, o : Assign(groups, acc, o), [curridx |-> 1, values |-> values], Declared).values

\* What a user types who gives these values: each option before its value, in
\* the order of declaration, then the required values.
Typed(o, wanted) ==
  CASE wanted[o.name] = Unset -> <<>>
    [] wanted[o.name] # Unset /\ o.required -> <<wanted[o.name]>>
    [] wanted[o.name] # Unset /\ ~o.required /\ o.type = "BOOLEAN" -> <<Flag(o.name)>>
    [] OTHER -> <<Flag(o.name), wanted[o.name]>>
Rendered(wanted) == FlattenSeq([i \in 1..Len(Declared) |-> Typed(Declared[i], wanted)])

Sensible(wanted) ==
  \A d \in ToSet(Declared) :
    \/ wanted[d.name] = Unset /\ ~d.required
    \/ CASE d.type = "BOOLEAN" -> wanted[d.name] = Flipped
         [] d.type = "INTEGER" -> wanted[d.name] \in Numbers
         [] OTHER -> wanted[d.name] \in Texts

\* ArgumentParser::parse
Parse(wanted) ==
  LET groups == Matches(Rendered(wanted))
  IN  /\ parses < MaxParses /\ parses' = parses + 1
      /\ Sensible(wanted)
      /\ threw' = (groups = <<>>)
      /\ values' = IF groups = <<>> THEN values ELSE Assigned(groups[1])
      /\ given' = [n \in Names |-> IF wanted[n] = Unset THEN given[n] ELSE wanted[n]]
      /\ UNCHANGED <<m_optional_args, m_required_args, plain>>

\* clean, of every argument of m_arg_map.
Clean ==
  /\ values' = [n \in Names |-> Unset] /\ given' = [n \in Names |-> Unset]
  /\ UNCHANGED <<m_optional_args, m_required_args, plain, threw, parses>>

Next ==
  \/ \E n \in Names, t \in {"BOOLEAN", "STRING", "INTEGER"}, r \in BOOLEAN :
       parses = 0 /\ AddArgument([name |-> n, type |-> t, required |-> r])
  \/ \E wanted \in [Names -> {Unset, Flipped} \cup Texts \cup Numbers] : Parse(wanted)
  \/ Clean

Spec == Init /\ [][Next]_parserVars
-----------------------------------------------------------------------------
\* getValue of what addArgument declared: a command line that gives the
\* options in the order of their declaration is always accepted, and each
\* argument then holds the value that was given for it, or an earlier line
\* gave, also when a value looks like another option: as long as no BOOLEAN is
\* required.
GetsWhatWasGiven ==
  plain =>
    /\ ~threw
    /\ \A o \in ToSet(Declared) : values[o.name] = given[o.name]
=============================================================================
