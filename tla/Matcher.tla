------------------------------ MODULE Matcher -------------------------------
(***************************************************************************)
(* How a domain answers for a recipient name (Domain::recipient() of       *)
(* src/milter/domain.cpp, src/milter/matcher.cpp, include/scaled.h): by    *)
(* the slices that the name shares with each of the valid names, n-grams   *)
(* first, words if no n-gram score reaches its threshold.  The slices of   *)
(* the name are sorted, and the runs of equal slices are looked up in the  *)
(* index of the matcher one after the other.                               *)
(*                                                                         *)
(* A character is a number, a string a sequence of characters.             *)
(***************************************************************************)
EXTENDS Integers, Sequences, FiniteSets

CONSTANTS
    Alpha,          \* the letters
    Digit,          \* the digits; any other character is a delimiter
    Zero, One,      \* two of them, '0' and '1'
    String,         \* the valid names and the names to look up
    MaxTargets,     \* valid names of the domain: a bound of the model
    NgramSize,      \* ngram_size
    NgramThreshold, \* thresholds, as fractions <<numerator, denominator>>
    WordThreshold,
    S               \* the scale of a score: 65535, the largest unsigned short

ASSUME MatcherAssumption ==
    /\ Alpha \subseteq Nat /\ Digit \subseteq Nat /\ Alpha \cap Digit = {}
    /\ {Zero, One} \subseteq Digit /\ Zero # One
    /\ String \subseteq Seq(Nat)
    /\ NgramSize \in Nat \ {0}
    /\ \A q \in {NgramThreshold, WordThreshold} : q[1] \in Nat /\ q[2] \in Nat \ {0}
    /\ S \in Nat \ {0}
    /\ MaxTargets \in Nat

VARIABLES
    recipients, \* Domain::recipients, the valid names
    query,      \* the name to look up
    matcher,    \* the matcher at work
    pc,
    slices,     \* s: the slices of query, sorted
    i, j,       \* the slice that is read, and the first one of its run
    common,     \* r: how many slices each valid name has in common with query
    answer      \* the name that recipient() returns, none if NULL

vars == <<recipients, query, matcher, pc, slices, i, j, common, answer>>

\* The sets of up to MaxTargets valid names.
ValidNames == UNION {{{f[k] : k \in 1 .. n} : f \in [1 .. n -> String]} : n \in 0 .. MaxTargets}

Init ==
    /\ recipients \in ValidNames
    /\ query \in String \ {<<>>}     \* Configuration::recipient() answers for "@domain"
    /\ matcher = "ngram"
    /\ pc = "slice"
    /\ slices = <<>>
    /\ i = 0 /\ j = 0
    /\ common = [t \in recipients |-> 0]
    /\ answer = {}

-----------------------------------------------------------------------------
(* Slices *)

\* substring::compare() < 0
Less(x, y) ==
    \E k \in 1 .. Len(y) :
        /\ \A m \in 1 .. k - 1 : m <= Len(x) /\ x[m] = y[m]
        /\ k <= Len(x) => x[k] < y[k]

\* NgramMatcher::slice: a name shorter than an n-gram is one slice.
Ngrams(str) ==
    LET n == IF Len(str) > NgramSize THEN NgramSize ELSE Len(str)
    IN [k \in 1 .. Len(str) - n + 1 |-> SubSeq(str, k, k + n - 1)]

\* The character before the k-th is no letter, or there is none.
BeginsWord(str, k) == str[k] \in Alpha /\ (k = 1 \/ str[k - 1] \notin Alpha)

\* The letters from the k-th character to the last before a delimiter or a digit.
WordFrom(str, k) ==
    LET end == CHOOSE m \in k .. Len(str) :
                   /\ \A l \in k .. m : str[l] \in Alpha
                   /\ m < Len(str) => str[m + 1] \notin Alpha
    IN SubSeq(str, k, end)

\* What stands for a digit: `one' in the index, `zero' in a query.
DigitSlice(indexing) == IF indexing THEN <<One>> ELSE <<Zero>>

\* WordMatcher::slice
Words(str, indexing) ==
    LET starts == {k \in 1 .. Len(str) : BeginsWord(str, k) \/ str[k] \in Digit}
        nth(m) == CHOOSE k \in starts : Cardinality({l \in starts : l <= k}) = m
    IN [m \in 1 .. Cardinality(starts) |->
           IF str[nth(m)] \in Digit THEN DigitSlice(indexing) ELSE WordFrom(str, nth(m))]

\* add() and match() both give a name without any slice an empty one.
Slices(which, str, indexing) ==
    LET s == IF which = "ngram" THEN Ngrams(str) ELSE Words(str, indexing)
    IN IF s = <<>> THEN << <<>> >> ELSE s

\* The count that add() has left in the index for a slice of a valid name.
Indexed(t, x) ==
    LET s == Slices(matcher, t, TRUE) IN Cardinality({k \in 1 .. Len(s) : s[k] = x})

-----------------------------------------------------------------------------
(* Matcher::match() *)

\* The k-th slice comes before the l-th, or is the same; equal slices stay in the
\* order of the name, nothing tells them apart.
Precedes(s, k, l) == Less(s[k], s[l]) \/ (s[k] = s[l] /\ k <= l)

\* std::sort()
Sorted(s) ==
    LET nth(k) == CHOOSE l \in DOMAIN s : Cardinality({m \in DOMAIN s : Precedes(s, m, l)}) = k
    IN [k \in DOMAIN s |-> s[nth(k)]]

Slice ==
    /\ pc = "slice"
    /\ slices' = Sorted(Slices(matcher, query, FALSE))
    /\ j' = 1
    /\ i' = 2
    /\ common' = [t \in recipients |-> 0]
    /\ pc' = "scan"
    /\ UNCHANGED <<recipients, query, matcher, answer>>

\* A slice that occurs n times in one name and cnt times in the other.
Shared(n, cnt) == IF n < cnt THEN n ELSE cnt

\* The run that begins at j and ends before i is looked up.
LookUpRun ==
    common' = [t \in recipients |->
        IF Indexed(t, slices[j]) > 0
          THEN common[t] + Shared(i - j, Indexed(t, slices[j]))
          ELSE common[t]]

SameRun ==
    /\ pc = "scan" /\ i <= Len(slices)
    /\ ~Less(slices[j], slices[i])
    /\ i' = i + 1
    /\ UNCHANGED <<recipients, query, matcher, pc, slices, j, common, answer>>

NextRun ==
    /\ pc = "scan" /\ i <= Len(slices)
    /\ Less(slices[j], slices[i])
    /\ LookUpRun
    /\ j' = i
    /\ i' = i + 1
    /\ UNCHANGED <<recipients, query, matcher, pc, slices, answer>>

\* Mutant of Leftover: the loop is taken to have seen every run.
LeftoverIgnored == UNCHANGED common

\* The run that the loop leaves behind.
Leftover == LookUpRun

LastRun ==
    /\ pc = "scan" /\ i > Len(slices)
    /\ Leftover
    /\ pc' = "decide"
    /\ UNCHANGED <<recipients, query, matcher, slices, i, j, answer>>

-----------------------------------------------------------------------------
(* Domain::recipient() *)

\* Mutants of Score: the factor 2 is missing; one of the lengths is missing.
ScoreOfSum(t) == (common[t] * S) \div (Len(Slices(matcher, t, TRUE)) + Len(slices))
ScoreOfName(t) == (2 * common[t] * S) \div Len(Slices(matcher, t, TRUE))

\* scaled<unsigned long, 65535> t(2 * common); t /= the number of slices
Score(t) == (2 * common[t] * S) \div (Len(Slices(matcher, t, TRUE)) + Len(slices))

\* The threshold is a double; the comparison converts it to an unsigned short. The
\* standard leaves that open for a value above 1: gcc keeps the low 16 bits.
Scaled(q) == ((q[1] * S) \div q[2]) % (S + 1)

Threshold == Scaled(IF matcher = "ngram" THEN NgramThreshold ELSE WordThreshold)

\* The results with a sufficient score; those that share nothing are no results.
Reaching == {t \in recipients : common[t] > 0 /\ Score(t) >= Threshold}

\* Mutant of Answer: any of the results.
AnswerAny(best) == {CHOOSE t \in best : TRUE}

\* One result is the answer; with several the name stays as given.
Answer(best) == IF Cardinality(best) = 1 THEN best ELSE {query}

Decide ==
    /\ pc = "decide" /\ Reaching # {}
    /\ answer' = Answer(Reaching)
    /\ pc' = "done"
    /\ UNCHANGED <<recipients, query, matcher, slices, i, j, common>>

TryWords ==
    /\ pc = "decide" /\ Reaching = {} /\ matcher = "ngram"
    /\ matcher' = "word"
    /\ pc' = "slice"
    /\ UNCHANGED <<recipients, query, slices, i, j, common, answer>>

Reject ==
    /\ pc = "decide" /\ Reaching = {} /\ matcher = "word"
    /\ pc' = "done"
    /\ UNCHANGED <<recipients, query, matcher, slices, i, j, common, answer>>

Next == Slice \/ SameRun \/ NextRun \/ LastRun \/ Decide \/ TryWords \/ Reject

Spec == Init /\ [][Next]_vars

-----------------------------------------------------------------------------
(* Properties *)

\* Every variable has its type: no score is above the scale, so that none is
\* truncated to an unsigned short.
TypeOK ==
    /\ recipients \subseteq String
    /\ query \in String
    /\ matcher \in {"ngram", "word"}
    /\ pc \in {"slice", "scan", "decide", "done"}
    /\ DOMAIN common = recipients
    /\ answer \subseteq String /\ Cardinality(answer) <= 1
    /\ pc = "decide" => \A t \in recipients : Score(t) \in 0 .. S

\* How often x occurs in s.
Times(x, s) == Cardinality({k \in 1 .. Len(s) : s[k] = x})

\* Two names share the intersection of the bags of their slices: the n-th copy of a
\* slice has its counterpart if there are n copies in the other name.
BagShared(which, str, t) ==
    LET a == Slices(which, str, FALSE)
        b == Slices(which, t, TRUE)
        distinct == {a[k] : k \in 1 .. Len(a)}
    IN Cardinality({p \in distinct \X (1 .. Len(a)) :
                       p[2] <= Times(p[1], a) /\ p[2] <= Times(p[1], b)})

\* The scan of the sorted slices counts every slice of the name once, the last
\* run and repeated slices included.
CountsSharedSlices ==
    pc = "decide" => \A t \in recipients : common[t] = BagShared(matcher, query, t)

\* undervest.8: the score is twice the matching slices by the slices of both
\* names, exactly, and something must match.
ScoreReaches(which, t, q) ==
    LET shared == BagShared(which, query, t)
        total == Len(Slices(which, query, FALSE)) + Len(Slices(which, t, TRUE))
    IN shared > 0 /\ 2 * shared * q[2] >= q[1] * total

\* The answer of the manual: by n-grams or else by words; a single name that
\* reaches the threshold, the given name if there are several, or none.
FollowsManual ==
    pc = "done" =>
        LET byNgram == {t \in recipients : ScoreReaches("ngram", t, NgramThreshold)}
            byWord == {t \in recipients : ScoreReaches("word", t, WordThreshold)}
            best == IF byNgram # {} THEN byNgram ELSE byWord
        IN answer = IF best = {} THEN {} ELSE Answer(best)

\* A valid name is accepted as it is, however close the others are.
PerfectAccepted == (pc = "done" /\ query \in recipients) => answer = {query}
=============================================================================
