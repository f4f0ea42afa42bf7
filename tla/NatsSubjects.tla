---------------------------- MODULE NatsSubjects ----------------------------
(***************************************************************************)
(* How nats_manager.cpp matches a subject with the pattern of a            *)
(* subscription.  A name is a sequence of characters, of which ".", "*"    *)
(* and ">" are special.                                                   *)
(***************************************************************************)
EXTENDS Naturals, Sequences

\* The character at position i, or the terminating 0.
At(s, i) == IF i <= Len(s) THEN s[i] ELSE "end"

\* while (*s && *s != '.') ++s
NextDot(s, i) ==
    IF \E k \in i .. Len(s) : s[k] = "."
    THEN CHOOSE k \in i .. Len(s) : s[k] = "." /\ \A m \in i .. k - 1 : s[m] # "."
    ELSE Len(s) + 1

\* Mutant: "*" takes the rest of the subject.
NatsWildcardMatch_Star(p, s) ==
    LET match[i \in 1 .. Len(p) + 1, j \in 1 .. Len(s) + 1] ==
          IF At(p, i) = "end" \/ At(s, j) = "end"
          THEN \/ At(p, i) = "end" /\ At(s, j) = "end"
               \/ At(p, i) = ">" /\ At(p, i + 1) = "end"
          ELSE CASE p[i] = "*"  -> match[i + 1, Len(s) + 1]
                 [] p[i] = ">"  -> TRUE
                 [] p[i] = s[j] -> match[i + 1, j + 1]
                 [] OTHER       -> FALSE
    IN p = <<">">> \/ match[1, 1]

NatsWildcardMatch(p, s) ==
    LET match[i \in 1 .. Len(p) + 1, j \in 1 .. Len(s) + 1] ==
          IF At(p, i) = "end" \/ At(s, j) = "end"
          THEN \/ At(p, i) = "end" /\ At(s, j) = "end"
               \/ At(p, i) = ">" /\ At(p, i + 1) = "end"
          ELSE CASE p[i] = "*"  -> match[i + 1, NextDot(s, j)]
                 [] p[i] = ">"  -> TRUE
                 [] p[i] = s[j] -> match[i + 1, j + 1]
                 [] OTHER       -> FALSE
    IN p = <<">">> \/ match[1, 1]

MatchSub(p, s) == p = s \/ NatsWildcardMatch(p, s)
============================================================================
