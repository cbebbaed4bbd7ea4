------------------------------- MODULE MCArgs -------------------------------
(* Small instances of Args for TLC.                                        *)
EXTENDS Args

\* Tokens that more than one rule could take: "5" is a rate, a size, a count, a
\* duration and a domain, "inf" is a rate and a duration, "64k" only a size, "0"
\* is no count and "16" one that does not fit. "size" and "burst" are named in
\* the middle of a mode, "pub" and "-u" end one, and both may be the value of -t.
SomeTokens == {"pub", "ping", "sub", "sanity", "help", "--version", "-u", "-k",
               "-t", "-E", "-Z", "size", "burst", "waitset", "all", "5", "0", "inf",
               "64k", "16", "single", "--ros-args"}

UpTo(n) == UNION {[1 .. k -> SomeTokens] : k \in 0 .. n}

\* Longer ones, of a smaller vocabulary.
FewTokens == {"pub", "size", "burst", "5", "-D", "-L"}
Lines == UpTo(4) \cup [1 .. 6 -> FewTokens]

SomeFrequencies == {"0", "5", "16", "inf"}
SomeSizes == {"0", "5", "16", "64k"}
SomeDurations == {"0", "5", "16", "inf"}
SomeIntegers == [t \in {"0", "5", "16"} |-> CASE t = "0" -> 0 [] t = "5" -> 5 [] t = "16" -> 16]
=============================================================================
