------------------------------ MODULE FilePath ------------------------------
(***************************************************************************)
(* The paths of include/filepath.h: a sequence of names, and whether it is *)
(* relative.  A text is a sequence of tokens, of which "/" separates the   *)
(* names, and a name is a sequence of other tokens.                        *)
(***************************************************************************)
EXTENDS Naturals, Sequences, SequencesExt, FiniteSets

Slash == "/"
Dot == <<".">>
DotDot == <<"..">>

NoPath == [relative |-> TRUE, names |-> <<>>]

\* The names between the delimiters; a run of delimiters counts as one.
Names(text) ==
    LET IsSlash(i) == i \notin DOMAIN text \/ text[i] = Slash
        begins == {i \in DOMAIN text : ~IsSlash(i) /\ IsSlash(i - 1)}
        nth(n) == CHOOSE i \in begins : Cardinality({k \in begins : k <= i}) = n
        EndOf(i) == CHOOSE j \in i .. Len(text) :
                       IsSlash(j + 1) /\ \A k \in i .. j : ~IsSlash(k)
    IN [n \in 1 .. Cardinality(begins) |-> SubSeq(text, nth(n), EndOf(nth(n)))]

\* normalize(): "." is dropped, ".." takes the name before it along, and has no
\* effect on the root.  What is left of the first i names:
Normalized(relative, names) ==
    LET left[i \in 0 .. Len(names)] ==
            IF i = 0 THEN <<>>
            ELSE LET done == left[i - 1]
                     name == names[i]
                 IN IF name = Dot \/ (name = DotDot /\ done = <<>> /\ ~relative) THEN done
                    ELSE IF name # DotDot \/ done = <<>> \/ Last(done) = DotDot
                    THEN Append(done, name)
                    ELSE Front(done)
    IN left[Len(names)]

\* assign() to an empty path
PathOf(text) ==
    LET relative == text = <<>> \/ text[1] # Slash
    IN [relative |-> relative, names |-> Normalized(relative, Names(text))]

\* get(): the empty path is the current directory.
Text(path) ==
    LET joined == FlattenSeq([i \in DOMAIN path.names |->
                      IF i = 1 THEN path.names[i] ELSE <<Slash>> \o path.names[i]])
    IN IF ~path.relative THEN <<Slash>> \o joined
       ELSE IF joined = <<>> THEN Dot ELSE joined

IsEmpty(path) == path.names = <<>>
=============================================================================
