-------------------------------- MODULE Args --------------------------------
(***************************************************************************)
(* The command line: parse_args of args.cpp, one action for each thing it  *)
(* does with the token it has got to. What a number means is left to the   *)
(* conversions: here a token is one of those a conversion takes, or not.   *)
(***************************************************************************)
EXTENDS Integers, SequencesExt

CONSTANTS
  CommandLines,  \* argv, without the name of the program
  Frequencies,   \* those without a dash that parse_frequency takes ("inf" is one)
  Sizes,         \* those parse_size takes
  Durations,     \* those -D takes
  Integer,       \* the tokens parse_strict_int64 takes, with their values
  UintMod        \* the width of keep_depth and burst (2^32)

Flags     == {"-u", "-L", "-l"}
WithValue == {"-k", "-D", "-i", "-t", "-E"}
Asking    == {"-h", "--help", "--version"}

\* Tokens that begin with a dash; "-Z" stands for those nobody knows.
Dashed == Flags \cup WithValue \cup Asking \cup {"-Z"}

Kinds        == {"pub", "sub", "ping", "pong"}
ModeKeywords == Kinds \cup {"sanity", "help"}
Triggers     == {"listener", "waitset"}
Executors    == {"single", "multi", "static"}

\* No keyword, option, trigger or name of a sub-argument is a number with a unit.
ASSUME ConstantsAssumption ==
  /\ CommandLines \subseteq Seq(STRING)
  /\ \A t \in DOMAIN Integer : Integer[t] \in Int
  /\ UintMod \in Nat /\ UintMod > 1
  /\ Frequencies \cap (Dashed \cup ModeKeywords \cup Triggers \cup {"size", "burst"}) = {}

VARIABLES
  toks,    \* toks
  i,       \* i, counted from 1
  mode,    \* the mode whose sub-arguments are read, if any: m
  opts,    \* the options set, in the fields of result.cfg
  modes,   \* cfg.modes
  status   \* "busy", then result.status

vars == <<toks, i, mode, opts, modes, status>>

----------------------------------------------------------------------------
(* Conversions.                                                            *)

\* A count is cast to 32 bits after it was tested, so that 2^32 becomes none.
Narrow(t) == Integer[t] % UintMod

IsCount(t) == t \in DOMAIN Integer /\ Integer[t] >= 1

\* The values each option takes, and what is stored for them.
Takes(o, v) ==
  CASE o = "-k" -> v = "all" \/ IsCount(v)
    [] o = "-D" -> v \in Durations
    [] o = "-i" -> v \in DOMAIN Integer /\ Integer[v] \in 0 .. 232
    [] o = "-t" -> TRUE
    [] o = "-E" -> v \in Executors

Stored(o, v) ==
  IF o = "-k" THEN (IF v = "all" THEN 0 ELSE Narrow(v))
  ELSE IF o = "-i" THEN Integer[v] ELSE v

\* ModeSpec as it is created; each kind uses some of the fields.
NewMode(kind) ==
  [kind |-> kind, rate |-> "unset", size |-> "unset", burst |-> 1, trigger |-> "listener"]

\* Mutation: only a mode ends the sub-arguments of the mode before it.
BoundaryWithoutOptions(t) == t \in ModeKeywords

IsSubargsBoundary(t) == t \in ModeKeywords \cup Dashed

----------------------------------------------------------------------------

\* Nothing from --ros-args on is looked at.
TokensOf(argv) ==
  LET at == SelectInSeq(argv, LAMBDA t : t = "--ros-args")
  IN  IF at = 0 THEN argv ELSE SubSeq(argv, 1, at - 1)

NoMode == NewMode("none")

NoOptions == [o \in Flags \cup WithValue |->
                IF o \in Flags THEN FALSE ELSE "unset"]

TypeOK ==
  /\ i \in 1 .. Len(toks) + 1
  /\ \A m \in {mode} \cup ToSet(modes) :
       /\ m.rate \in Frequencies \cup {"unset", "1Hz"}
       /\ m.size \in Sizes \cup {"unset"}
       /\ m.burst \in 0 .. UintMod - 1
       /\ m.trigger \in Triggers
  /\ \A m \in ToSet(modes) : m.kind \in Kinds
  /\ status \in {"busy", "ok", "help", "version", "error"}

Init ==
  /\ toks \in {TokensOf(argv) : argv \in CommandLines}
  /\ i = 1
  /\ mode = NoMode
  /\ opts = NoOptions
  /\ modes = <<>>
  /\ status = "busy"

AtTop     == status = "busy" /\ mode = NoMode /\ i <= Len(toks)
AtSubargs == status = "busy" /\ mode # NoMode /\ i <= Len(toks) /\ ~IsSubargsBoundary(toks[i])
HasValue  == i < Len(toks)

Fail == status' = "error" /\ UNCHANGED <<toks, i, mode, opts, modes>>

----------------------------------------------------------------------------
(* parse_option.                                                           *)

Ask ==
  /\ AtTop
  /\ toks[i] \in Asking \cup {"help"}
  /\ status' = IF toks[i] = "--version" THEN "version" ELSE "help"
  /\ i' = i + 1
  /\ UNCHANGED <<toks, mode, opts, modes>>

Flag ==
  /\ AtTop
  /\ toks[i] \in Flags
  /\ opts' = [opts EXCEPT ![toks[i]] = TRUE]
  /\ i' = i + 1
  /\ UNCHANGED <<toks, mode, modes, status>>

Option ==
  /\ AtTop
  /\ toks[i] \in WithValue
  /\ IF HasValue /\ Takes(toks[i], toks[i + 1])
     THEN /\ opts' = [opts EXCEPT ![toks[i]] = Stored(toks[i], toks[i + 1])]
          /\ i' = i + 2
          /\ UNCHANGED <<toks, mode, modes, status>>
     ELSE Fail

Unexpected ==
  /\ AtTop
  /\ toks[i] \notin Asking \cup Flags \cup WithValue \cup ModeKeywords
  /\ Fail

----------------------------------------------------------------------------
(* Modes and their sub-arguments.                                          *)

Sanity ==
  /\ AtTop
  /\ toks[i] = "sanity"
  /\ modes' = Append(modes, [NewMode("ping") EXCEPT !.rate = "1Hz"])
  /\ i' = i + 1
  /\ UNCHANGED <<toks, mode, opts, status>>

StartMode ==
  /\ AtTop
  /\ toks[i] \in Kinds
  /\ mode' = NewMode(toks[i])
  /\ i' = i + 1
  /\ UNCHANGED <<toks, opts, modes, status>>

\* The sub-arguments each kind knows.
Sized(kind) == kind \in {"pub", "ping"}
Rated(kind) == kind \in {"pub", "ping"}
Triggered(kind) == kind # "pub"
Bursty(kind) == kind = "pub"

Subarg(n, changed) ==
  /\ mode' = changed
  /\ i' = i + n
  /\ UNCHANGED <<toks, opts, modes, status>>

\* Mutation: what follows "size" is stored whatever it is.
SizeSubargUnchecked ==
  /\ AtSubargs
  /\ toks[i] = "size" /\ Sized(mode.kind)
  /\ IF HasValue THEN Subarg(2, [mode EXCEPT !.size = toks[i + 1]]) ELSE Fail

SizeSubarg ==
  /\ AtSubargs
  /\ toks[i] = "size" /\ Sized(mode.kind)
  /\ IF HasValue /\ toks[i + 1] \in Sizes
     THEN Subarg(2, [mode EXCEPT !.size = toks[i + 1]])
     ELSE Fail

BurstSubarg ==
  /\ AtSubargs
  /\ toks[i] = "burst" /\ Bursty(mode.kind)
  /\ IF HasValue /\ IsCount(toks[i + 1])
     THEN Subarg(2, [mode EXCEPT !.burst = Narrow(toks[i + 1])])
     ELSE Fail

TriggerSubarg ==
  /\ AtSubargs
  /\ toks[i] \in Triggers /\ Triggered(mode.kind)
  /\ Subarg(1, [mode EXCEPT !.trigger = toks[i]])

RateSubarg ==
  /\ AtSubargs
  /\ toks[i] \in Frequencies /\ Rated(mode.kind)
  /\ Subarg(1, [mode EXCEPT !.rate = toks[i]])

UnknownSubarg ==
  /\ AtSubargs
  /\ ~(toks[i] = "size" /\ Sized(mode.kind))
  /\ ~(toks[i] = "burst" /\ Bursty(mode.kind))
  /\ ~(toks[i] \in Triggers /\ Triggered(mode.kind))
  /\ ~(toks[i] \in Frequencies /\ Rated(mode.kind))
  /\ Fail

EndMode ==
  /\ status = "busy"
  /\ mode # NoMode
  /\ i <= Len(toks) => IsSubargsBoundary(toks[i])
  /\ modes' = Append(modes, mode)
  /\ mode' = NoMode
  /\ UNCHANGED <<toks, i, opts, status>>

Finish ==
  /\ status = "busy"
  /\ mode = NoMode
  /\ i > Len(toks)
  /\ status' = IF modes = <<>> THEN "error" ELSE "ok"
  /\ UNCHANGED <<toks, i, mode, opts, modes>>

Next ==
  \/ Ask
  \/ Flag
  \/ Option
  \/ Unexpected
  \/ Sanity
  \/ StartMode
  \/ SizeSubarg
  \/ BurstSubarg
  \/ TriggerSubarg
  \/ RateSubarg
  \/ UnknownSubarg
  \/ EndMode
  \/ Finish

Spec == Init /\ [][Next]_vars

----------------------------------------------------------------------------
(* The language parse_args takes. A command line s is cut into pieces: an  *)
(* option with its value, the keyword of a mode, or a sub-argument of the  *)
(* keyword before it. A reading is the set of the positions that pieces    *)
(* begin at; every set is tried, and nothing is read from left to right.   *)
(*                                                                         *)
(* The pieces are those of usage_text and of src/README.md, the language   *)
(* is not the one they describe. It is wider:                              *)
(*   - a sub-argument may come again, where the text has [..] once each    *)
(*     (args.cpp:502,506,509,512), and so may an option: the last counts;  *)
(*   - ping takes a rate in kHz and inf, where the text has [R[Hz]]        *)
(*     (args.cpp:509);                                                     *)
(*   - options stand anywhere, as src/README.md:90 says; the text has them *)
(*     before the modes (args.cpp:487). A request for help or the version  *)
(*     stands anywhere too, and what follows it is not read.               *)
(* It is narrower:                                                         *)
(*   - a mode is demanded, where the text says "zero or more"              *)
(*     (args.cpp:501);                                                     *)
(*   - there is no -1, which src/README.md:102 lists.                      *)

IsOption(s, a, n) ==
  \/ n = 1 /\ s[a] \in Flags
  \/ n = 2 /\ s[a] \in WithValue /\ Takes(s[a], s[a + 1])

IsMode(s, a, n) == n = 1 /\ s[a] \in Kinds \cup {"sanity"}

IsSubarg(kind, s, a, n) ==
  \/ Triggered(kind) /\ n = 1 /\ s[a] \in Triggers
  \/ Rated(kind)     /\ n = 1 /\ s[a] \in Frequencies
  \/ Sized(kind)     /\ n = 2 /\ s[a] = "size"  /\ s[a + 1] \in Sizes
  \/ Bursty(kind)    /\ n = 2 /\ s[a] = "burst" /\ IsCount(s[a + 1])

\* What begins a piece that is no sub-argument.
Heads == Flags \cup WithValue \cup Kinds \cup {"sanity"}

\* The pieces after a with no head in between.
Subargs(s, C, a) ==
  {b \in C : b > a /\ \A c \in C : a < c /\ c <= b => s[c] \notin Heads}

IsPiece(s, C, a, n) ==
  \/ IsOption(s, a, n)
  \/ IsMode(s, a, n)
  \/ \E k \in C : s[k] \in Kinds /\ a \in Subargs(s, C, k) /\ IsSubarg(s[k], s, a, n)

\* The readings of the first m tokens: a piece goes from a cut to the next one.
Readings(s, m) ==
  {C \in SUBSET (1 .. m) :
     /\ m > 0 => 1 \in C
     /\ \A a \in C, b \in C \cup {m + 1} :
          a < b /\ (\A c \in C : c <= a \/ b <= c) => IsPiece(s, C, a, b - a)}

\* What the last of the pieces at has after its first n tokens.
LastAt(s, at, n, default) == IF at = {} THEN default ELSE s[Max(at) + n]

ModeMeant(s, C, a) ==
  LET Given(heads) == {b \in Subargs(s, C, a) : s[b] \in heads}
  IN  IF s[a] = "sanity" THEN [NewMode("ping") EXCEPT !.rate = "1Hz"]
      ELSE [kind    |-> s[a],
            rate    |-> LastAt(s, Given(Frequencies), 0, "unset"),
            size    |-> LastAt(s, Given({"size"}), 1, "unset"),
            burst   |-> IF Given({"burst"}) = {} THEN 1
                        ELSE Narrow(LastAt(s, Given({"burst"}), 1, "unset")),
            trigger |-> LastAt(s, Given(Triggers), 0, "listener")]

ModesAt(s, C) == {a \in C : s[a] \in Kinds \cup {"sanity"}}

\* A mode stands where it comes among the modes of the command line.
MeansModes(s, C, ms) ==
  /\ Len(ms) = Cardinality(ModesAt(s, C))
  /\ \A a \in ModesAt(s, C) :
       ms[Cardinality({b \in ModesAt(s, C) : b <= a})] = ModeMeant(s, C, a)

MeansOptions(s, C, os) ==
  \A o \in Flags \cup WithValue :
    LET at == {a \in C : s[a] = o} IN
    os[o] = IF o \in Flags THEN at # {}
            ELSE IF at = {} THEN "unset" ELSE Stored(o, LastAt(s, at, 1, "unset"))

\* Where a command line asks for help or for the version instead.
Asks(s) == {k \in DOMAIN s : s[k] \in Asking \cup {"help"} /\ Readings(s, k - 1) # {}}

----------------------------------------------------------------------------
(* Properties.                                                             *)

\* The parser reads once, from left to right, never goes back and decides by one
\* token. Nothing is missed that way and nothing read wrongly: parse_args accepts
\* a command line that has a mode just when it has a reading, and what it then
\* holds is what every reading means, the last one of an option or a
\* sub-argument counting. That the language is the documented one is not said.
ReadsGrammar ==
  status # "busy" =>
    IF Asks(toks) # {}
    THEN status = IF toks[Min(Asks(toks))] = "--version" THEN "version" ELSE "help"
    ELSE LET rs == {C \in Readings(toks, Len(toks)) : ModesAt(toks, C) # {}} IN
         /\ status \in {"ok", "error"}
         /\ status = "ok" <=> rs # {}
         /\ status = "ok" => \A C \in rs : MeansModes(toks, C, modes) /\ MeansOptions(toks, C, opts)
=============================================================================
