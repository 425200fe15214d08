--------------------------- MODULE LoadingProofs ----------------------------
(***************************************************************************)
(* Proofs about Loading, for any configuration, loader path and contents   *)
(* of the sources: the protocol between a source and its loader; that a    *)
(* load that succeeds has the names of all the sources of its domain; the  *)
(* types; that no log shows the user information of a URI; and that the    *)
(* loaders ask for what a URI says.                                        *)
(***************************************************************************)
EXTENDS Loading, FiniteSetTheorems, SequenceTheorems, OrderLemmas, TLAPS

\* A finite sequence, whatever its elements are.
Listed(s) == Len(s) \in Nat /\ DOMAIN s = 1 .. Len(s)

AllUsable(s) == \A i \in DOMAIN s : Usable(s[i])

Shape == \A n \in DOMAIN sources : Listed(sources[n]) /\ Len(sources[n]) > 0

\* The search for the loaders: domains that are neither in todo nor at have all
\* theirs, and so have the sources of the current domain before the current one.
Searched ==
    pc = "loaders" =>
        /\ DOMAIN sources # {}
        /\ \A n \in DOMAIN sources \ todo : at = NoDomain \/ at[1] # n => AllUsable(sources[n])
        /\ at # NoDomain =>
              /\ at = <<at[1], at[2]>>
              /\ at[1] \in DOMAIN sources \ todo
              /\ at[2] \in DOMAIN sources[at[1]]
              /\ \A i \in 1 .. at[2] - 1 : Usable(sources[at[1]][i])

Ready == {"refresh", "open", "bind", "read", "crashed", "published"}

\* From the first load on all sources have their loaders.
Found ==
    pc \in Ready =>
        /\ DOMAIN sources # {}
        /\ \A n \in DOMAIN sources : AllUsable(sources[n])

Busy == {"open", "bind", "read", "crashed"}

\* What a load works on.
Working ==
    /\ pc \in Busy => at = <<at[1], at[2]>> /\ at[1] \in DOMAIN sources /\ clone = sources[at[1]]
    /\ pc \notin Busy => clone = <<>>
    /\ pc \in {"open", "bind", "read"} => (handle = NoHandle <=> pc = "open")
    /\ pc \notin Busy => handle = NoHandle
    /\ "loader" \in DOMAIN handle

Pending ==
    /\ file \in ConfFiles
    /\ tried \in Nat
    /\ pc \in {"get", "refresh"} => at = NoDomain
    /\ pc \in {"loaders", "refresh"} \cup Busy => todo \subseteq DOMAIN sources

IInv == Shape /\ Searched /\ Found /\ Working /\ Pending

-----------------------------------------------------------------------------
(* Sequences *)

LEMMA ListedFunction ==
    ASSUME NEW s, NEW k \in Nat, s = [i \in 1 .. k |-> s[i]]
    PROVE Listed(s) /\ Len(s) = k
<1> DEFINE X == {s[i] : i \in 1 .. k}
<1>1. s \in [1 .. k -> X] OBVIOUS
<1>2. s \in Seq(X) BY <1>1
<1> QED BY <1>1, <1>2 DEF Listed

LEMMA ListedExcept ==
    ASSUME NEW s, Listed(s), NEW j, NEW v
    PROVE Listed([s EXCEPT ![j] = v]) /\ Len([s EXCEPT ![j] = v]) = Len(s)
<1> DEFINE t == [s EXCEPT ![j] = v]
<1>1. t = [i \in 1 .. Len(s) |-> t[i]] BY DEF Listed
<1>2. Len(s) \in Nat BY DEF Listed
<1> QED BY <1>1, <1>2, ListedFunction

LEMMA PairNotEmpty == ASSUME NEW a, NEW b PROVE <<a, b>> # <<>>
<1>1. Len(<<a, b>>) = 2 /\ Len(<<>>) = 0 OBVIOUS
<1> QED BY <1>1

LEMMA OneElement == ASSUME NEW a PROVE Len(<<a>>) = 1 /\ <<a>>[1] = a
OBVIOUS

\* Every library that is tried is one, and not the mark for none.
LEMMA CandidateIsLibrary ==
    ASSUME NEW loader, NEW k \in Nat, k < Len(Candidates(loader))
    PROVE Candidates(loader)[k + 1] # NoLibrary
<1> DEFINE dirs == Append(LoaderPath, None)
           affixes == IF loader.form = "name" THEN Affixes ELSE <<"">>
           n == Len(dirs)
           c == [i \in 1 .. n * Len(affixes) |->
                    <<affixes[((i - 1) \div n) + 1], dirs[((i - 1) % n) + 1]>>]
<1>1. CASE loader.form = "absolute"
  <2> DEFINE lib == <<"", None>>
  <2>1. Candidates(loader) = <<lib>> BY <1>1 DEF Candidates
  <2>2. lib # <<>> BY PairNotEmpty
  <2> HIDE DEF lib
  <2>3. k = 0 BY <2>1, OneElement
  <2> QED BY <2>1, <2>2, <2>3, OneElement DEF NoLibrary
<1>2. CASE loader.form # "absolute"
  <2>1. Candidates(loader) = c BY <1>2 DEF Candidates
  <2>2. n \in Nat
    <3>1. LoaderPath \in Seq(STRING) BY LoadingAssumption DEF LoadingAssumption
    <3> DEFINE S == STRING \cup {None}
    <3>2. LoaderPath \in Seq(S) BY <3>1, SeqMonotonic
    <3>3. dirs \in Seq(S) BY <3>2, AppendProperties
    <3> QED BY <3>3, LenProperties
  <2>3. Len(affixes) \in {1, 4}
    <3>1. CASE loader.form = "name" BY <3>1 DEF Affixes
    <3>2. CASE loader.form # "name" BY <3>2
    <3> QED BY <3>1, <3>2
  <2> HIDE DEF n, affixes, dirs
  <2>4. n * Len(affixes) \in Nat
    <3>1. CASE Len(affixes) = 1 BY <2>2, <3>1
    <3>2. CASE Len(affixes) = 4 BY <2>2, <3>2
    <3> QED BY <2>3, <3>1, <3>2
  <2>5. Len(c) = n * Len(affixes)
    <3>1. c = [i \in 1 .. n * Len(affixes) |-> c[i]] OBVIOUS
    <3> QED BY <2>4, <3>1, ListedFunction
  <2>6. k + 1 \in 1 .. n * Len(affixes) BY <2>1, <2>4, <2>5
  <2>7. c[k + 1] = <<affixes[(((k + 1) - 1) \div n) + 1], dirs[(((k + 1) - 1) % n) + 1]>>
    BY <2>6
  <2> QED BY <2>1, <2>7, PairNotEmpty DEF NoLibrary
<1> QED BY <1>1, <1>2

LEMMA SectionsListed ==
    ASSUME file \in ConfFiles
    PROVE Sections \in Seq(DomainSection)
<1>1. file.domains \in Seq(DomainSection) BY LoadingAssumption DEF LoadingAssumption
<1>2. DefaultDomain \in DomainSection
  BY LoadingAssumption DEF LoadingAssumption, DefaultDomain, DomainSection
<1> QED BY <1>1, <1>2 DEF Sections

LEMMA SourcesListed ==
    ASSUME NEW section \in DomainSection
    PROVE /\ Listed(SourcesOf(section))
          /\ SourcesOf(section) # <<>> => Len(SourcesOf(section)) > 0
<1> DEFINE given == IF section.sources = <<>>
                    THEN <<DefaultSource("passwd"), DefaultSource("aliases")>>
                    ELSE section.sources
           enabled == {i \in DOMAIN given : given[i].enabled}
           s == [k \in 1 .. Cardinality(enabled) |-> NewSource(given[Nth(enabled, k)])]
<1>1. SourcesOf(section) = s BY DEF SourcesOf, Nth
<1>2. Len(given) \in Nat /\ DOMAIN given = 1 .. Len(given)
  <2>1. CASE section.sources = <<>> BY <2>1
  <2>2. CASE section.sources # <<>>
    <3>1. section.sources \in Seq(SourceSection) BY DEF DomainSection
    <3> QED BY <2>2, <3>1, LenProperties
  <2> QED BY <2>1, <2>2
<1>3. IsFiniteSet(enabled)
  <2>1. enabled \subseteq 1 .. Len(given) BY <1>2
  <2>2. IsFiniteSet(1 .. Len(given)) BY <1>2, FS_Interval
  <2> QED BY <2>1, <2>2, FS_Subset
<1>4. Cardinality(enabled) \in Nat BY <1>3, FS_CardinalityType
<1> HIDE DEF enabled
<1>5. s = [k \in 1 .. Cardinality(enabled) |-> s[k]] OBVIOUS
<1>6. Listed(s) BY <1>4, <1>5, ListedFunction
<1>7. s # <<>> => Len(s) > 0
  <2> DEFINE X == {s[k] : k \in 1 .. Cardinality(enabled)}
  <2>1. s \in [1 .. Cardinality(enabled) -> X] OBVIOUS
  <2>2. s \in Seq(X) BY <1>4, <2>1
  <2> HIDE DEF s, X
  <2>3. Len(s) \in Nat BY <1>6 DEF Listed
  <2> QED BY <2>2, <2>3, EmptySeq
<1> QED BY <1>1, <1>6, <1>7

-----------------------------------------------------------------------------
(* The invariant *)

LEMMA InitInv == Init => IInv
<1> SUFFICES ASSUME Init PROVE IInv OBVIOUS
<1> USE DEF Init
<1>1. Shape BY DEF Shape
<1>2. Searched /\ Found BY DEF Searched, Found, Ready
<1>3. Working BY DEF Working, Busy, NoHandle
<1>4. Pending BY DEF Pending, Busy
<1> QED BY <1>1, <1>2, <1>3, <1>4 DEF IInv

\* A step that leaves alone what the invariant is about.
Quiet ==
    /\ UNCHANGED <<file, pc, sources, todo, at, tried, clone>>
    /\ handle' = NoHandle <=> handle = NoHandle
    /\ "loader" \in DOMAIN handle'

LEMMA QuietKeeps == ASSUME IInv, Quiet PROVE IInv'
<1> USE DEF IInv, Quiet
<1>1. Shape' BY DEF Shape, Listed
<1>2. Searched' BY DEF Searched, AllUsable, Usable
<1>3. Found' BY DEF Found, Ready, AllUsable, Usable
<1>4. Working' BY DEF Working
<1>5. Pending' BY DEF Pending, Busy
<1> QED BY <1>1, <1>2, <1>3, <1>4, <1>5

\* A step after which nothing is being loaded any more.
LEMMA FailureKeeps ==
    ASSUME IInv, pc \notin Busy, pc' = "failed", sources' \in {sources, <<>>},
           tried' \in {tried, 0}, UNCHANGED <<file, clone, handle>>
    PROVE IInv'
<1> USE DEF IInv
<1>1. Shape' BY DEF Shape, Listed
<1>2. Searched' /\ Found' BY DEF Searched, Found, Ready
<1>3. Working' BY DEF Working, Busy
<1>4. Pending' BY DEF Pending, Busy
<1> QED BY <1>1, <1>2, <1>3, <1>4

LEMMA GetKeeps == ASSUME IInv, Get PROVE IInv'
<1> USE DEF IInv, Get
<1> DEFINE T == {Sections[i].title : i \in Configured}
<1>1. Sections \in Seq(DomainSection) BY SectionsListed DEF Pending
<1>2. ASSUME NEW n \in T
      PROVE Listed(SourcesOf(SectionOf(n))) /\ Len(SourcesOf(SectionOf(n))) > 0
  <2>1. PICK i \in Configured : SectionOf(n) = Sections[i]
    <3>1. \E i \in Configured : Sections[i].title = n BY <1>2
    <3> QED BY <3>1 DEF SectionOf
  <2>2. i \in DOMAIN Sections /\ SourcesOf(Sections[i]) # <<>> BY DEF Configured
  <2>3. Sections[i] \in DomainSection BY <1>1, <2>2
  <2> QED BY <2>1, <2>2, <2>3, SourcesListed
<1>3. sources' = [n \in T |-> SourcesOf(SectionOf(n))] /\ DOMAIN sources' = T OBVIOUS
<1>4. T # {} OBVIOUS
<1> HIDE DEF T
<1>5. Shape' BY <1>2, <1>3 DEF Shape, Listed
<1>6. Searched' BY <1>3, <1>4 DEF Searched, Pending
<1>7. Found' BY DEF Found, Ready
<1>8. Working' BY DEF Working, Busy
<1>9. Pending' BY DEF Pending, Busy
<1> QED BY <1>5, <1>6, <1>7, <1>8, <1>9

LEMMA FirstOfDomainKeeps == ASSUME IInv, NEW n \in todo, FirstOfDomain(n) PROVE IInv'
<1> USE DEF IInv, FirstOfDomain
<1>1. Shape' BY DEF Shape, Listed
<1>2. n \in DOMAIN sources BY DEF Pending, Busy
<1>3. 1 \in DOMAIN sources[n] BY <1>2 DEF Shape, Listed
<1>4. Searched'
  <2>1. at' = <<n, 1>> /\ at'[1] = n /\ at'[2] = 1 OBVIOUS
  <2>2. \A m \in DOMAIN sources \ todo' : n # m => AllUsable(sources[m])
    BY DEF Searched
  <2>3. sources' = sources /\ DOMAIN sources # {} BY DEF Searched
  <2>4. at' # NoDomain BY <2>1, PairNotEmpty DEF NoDomain
  <2>5. \A m \in DOMAIN sources' \ todo' :
            at' = NoDomain \/ at'[1] # m => AllUsable(sources'[m])
    BY <2>1, <2>2, <2>3, <2>4
  <2>6. at'[1] \in DOMAIN sources' \ todo' /\ at'[2] \in DOMAIN sources'[at'[1]]
    BY <1>2, <1>3, <2>1, <2>3
  <2>7. \A i \in 1 .. at'[2] - 1 : Usable(sources'[at'[1]][i]) BY <2>1
  <2> QED BY <2>1, <2>3, <2>5, <2>6, <2>7 DEF Searched, AllUsable, Usable
<1>5. Found' BY DEF Found, Ready
<1>6. Working' BY DEF Working, Busy
<1>7. Pending' BY DEF Pending, Busy
<1> QED BY <1>1, <1>4, <1>5, <1>6, <1>7

\* A library that is kept makes the source usable.
LEMMA KeptUsable ==
    ASSUME NEW s, NEW lib, lib # NoLibrary, NEW found, Kept(found)
    PROVE Usable(Tried(s, lib, found))
BY DEF Usable, Tried, Kept

LEMMA TryLibraryKeeps == ASSUME IInv, TryLibrary PROVE IInv'
<1> USE DEF IInv
<1> DEFINE d == at[1]
           i == at[2]
           lib == Candidates(Source.loader)[tried + 1]
           t(found) == Tried(sources[d][i], lib, found)
<1>1. /\ pc = "loaders" /\ at # NoDomain /\ pc' = pc
      /\ UNCHANGED <<file, todo, clone, handle>>
  BY DEF TryLibrary
<1>2. PICK found \in 0 .. 3 :
        /\ sources' = [sources EXCEPT ![d][i] = t(found)]
        /\ tried' = IF Kept(found) THEN 0 ELSE tried + 1
        /\ at' = IF Kept(found) THEN NextSource ELSE at
  BY DEF TryLibrary
<1>3. lib # NoLibrary BY CandidateIsLibrary DEF TryLibrary, Pending
<1>4. /\ DOMAIN sources # {}
      /\ at = <<d, i>> /\ d \in DOMAIN sources \ todo /\ i \in DOMAIN sources[d]
      /\ \A j \in 1 .. i - 1 : Usable(sources[d][j])
      /\ \A n \in DOMAIN sources \ todo : d # n => AllUsable(sources[n])
  BY <1>1 DEF Searched
<1>5. Listed(sources[d]) /\ i \in 1 .. Len(sources[d]) BY <1>4 DEF Shape, Listed
<1> DEFINE s == [sources[d] EXCEPT ![i] = t(found)]
<1>6. Listed(s) /\ Len(s) = Len(sources[d]) BY <1>5, ListedExcept
<1>7. DOMAIN sources' = DOMAIN sources /\ sources'[d] = s
  BY <1>2, <1>4
<1>8. \A n \in DOMAIN sources : n # d => sources'[n] = sources[n] BY <1>2
<1>9. s[i] = t(found) /\ \A j \in 1 .. Len(s) : j # i => s[j] = sources[d][j]
  BY <1>5, <1>6 DEF Listed
<1>10. Kept(found) => Usable(s[i]) BY <1>3, <1>9, KeptUsable
<1> HIDE DEF s, t, lib
<1>11. Shape'
  <2> SUFFICES ASSUME NEW n \in DOMAIN sources
               PROVE Listed(sources'[n]) /\ Len(sources'[n]) > 0
    BY <1>7 DEF Shape, Listed
  <2>1. CASE n = d BY <2>1, <1>5, <1>6, <1>7 DEF Shape
  <2>2. CASE n # d BY <2>2, <1>8 DEF Shape
  <2> QED BY <2>1, <2>2
<1>12. \A n \in DOMAIN sources' \ todo' : n # d => AllUsable(sources'[n])
  BY <1>1, <1>4, <1>7, <1>8
<1>13. \A j \in 1 .. i - 1 : Usable(sources'[d][j])
  BY <1>4, <1>5, <1>6, <1>7, <1>9
<1>14. Searched'
  <2>1. CASE ~Kept(found)
    <3>1. at' = <<d, i>> BY <1>2, <1>4, <2>1
    <3>2. at'[1] = d /\ at'[2] = i /\ at' # NoDomain BY <3>1, PairNotEmpty DEF NoDomain
    <3>3. d \in DOMAIN sources' \ todo' /\ i \in DOMAIN sources'[d]
      BY <1>1, <1>4, <1>5, <1>6, <1>7 DEF Listed
    <3> HIDE DEF d, i
    <3> QED BY <1>4, <1>7, <1>12, <1>13, <3>1, <3>2, <3>3
            DEF Searched, AllUsable, Usable
  <2>2. CASE Kept(found) /\ i < Len(sources[d])
    <3>1. at' = <<d, i + 1>> BY <1>2, <2>2 DEF NextSource
    <3>2. at'[1] = d /\ at'[2] = i + 1 /\ at' # NoDomain
      BY <3>1, PairNotEmpty DEF NoDomain
    <3>3. d \in DOMAIN sources' \ todo' /\ i + 1 \in DOMAIN sources'[d]
      BY <1>1, <1>4, <1>5, <1>6, <1>7, <2>2 DEF Listed
    <3>4. \A j \in 1 .. (i + 1) - 1 : Usable(sources'[d][j])
      BY <1>5, <1>7, <1>10, <1>13, <2>2
    <3> HIDE DEF d, i
    <3> QED BY <1>4, <1>7, <1>12, <3>1, <3>2, <3>3, <3>4
            DEF Searched, AllUsable, Usable
  <2>3. CASE Kept(found) /\ ~(i < Len(sources[d]))
    <3>1. at' = NoDomain BY <1>2, <2>3 DEF NextSource
    <3>2. i = Len(sources[d]) BY <1>5, <2>3 DEF Listed
    <3>3. \A j \in 1 .. Len(s) : Usable(s[j])
      BY <1>5, <1>6, <1>7, <1>10, <1>13, <2>3, <3>2
    <3>4. AllUsable(sources'[d]) BY <1>6, <1>7, <3>3 DEF AllUsable, Listed
    <3>5. \A n \in DOMAIN sources' \ todo' : AllUsable(sources'[n])
      BY <1>12, <3>4
    <3> QED BY <1>4, <1>7, <3>1, <3>5 DEF Searched, AllUsable, Usable
  <2> QED BY <2>1, <2>2, <2>3
<1>15. Found' BY <1>1 DEF Found, Ready
<1>16. Working' BY <1>1 DEF Working, Busy
<1>17. Pending' BY <1>1, <1>2, <1>7 DEF Pending, Busy
<1> QED BY <1>11, <1>14, <1>15, <1>16, <1>17

LEMMA LoadersLoadedKeeps == ASSUME IInv, LoadersLoaded PROVE IInv'
<1> USE DEF IInv, LoadersLoaded, confVars
<1>1. Shape' BY DEF Shape, Listed
<1>2. Searched' BY DEF Searched
<1>3. Found' BY DEF Found, Searched, AllUsable, Usable
<1>4. Working' BY DEF Working, Busy
<1>5. Pending' BY DEF Pending, Busy
<1> QED BY <1>1, <1>2, <1>3, <1>4, <1>5

LEMMA CloneKeeps == ASSUME IInv, NEW n \in todo, Clone(n) PROVE IInv'
<1> USE DEF IInv, Clone, confVars
<1>1. Shape' BY DEF Shape, Listed
<1>2. Searched' BY DEF Searched
<1>3. Found' BY DEF Found, Ready, AllUsable, Usable
<1>4. Working'
  <2>1. n \in DOMAIN sources BY DEF Pending, Busy
  <2>2. at' = <<n, 1>> /\ at'[1] = n /\ at'[2] = 1 OBVIOUS
  <2> QED BY <2>1, <2>2 DEF Working, Busy
<1>5. Pending' BY DEF Pending, Busy
<1> QED BY <1>1, <1>2, <1>3, <1>4, <1>5

LEMMA CloneFailsKeeps == ASSUME IInv, NEW n \in todo, CloneFails(n) PROVE IInv'
<1> USE DEF IInv, CloneFails, confVars
<1>1. Shape' BY DEF Shape, Listed
<1>2. Searched' BY DEF Searched
<1>3. Found' BY DEF Found, Ready, AllUsable, Usable
<1>4. Working' BY DEF Working, Busy
<1>5. Pending' BY DEF Pending, Busy
<1> QED BY <1>1, <1>2, <1>3, <1>4, <1>5

\* The end of a source, after success or failure.
LEMMA SourceEndsKeeps ==
    ASSUME IInv, pc \in {"open", "bind", "read"}, NEW failed, SourceEnds(failed)
    PROVE IInv'
<1> USE DEF IInv, SourceEnds, Released, confVars
<1>1. pc' \in {"open", "refresh"} BY DEF After
<1>2. Shape' BY DEF Shape, Listed
<1>3. Searched' BY <1>1 DEF Searched
<1>4. Found' BY <1>1 DEF Found, Ready, AllUsable, Usable
<1>5. Working'
  <2>1. at = <<at[1], at[2]>> /\ at[1] \in DOMAIN sources /\ clone = sources[at[1]]
    BY DEF Working, Busy
  <2>2. CASE pc' = "open"
    <3>1. at' = <<at[1], at[2] + 1>> /\ clone' = clone BY <2>2
    <3>2. at'[1] = at[1] /\ at'[2] = at[2] + 1 BY <3>1
    <3> QED BY <2>1, <2>2, <3>1, <3>2 DEF Working, Busy, NoHandle
  <2>3. CASE pc' = "refresh" BY <2>3 DEF Working, Busy, NoHandle
  <2> QED BY <1>1, <2>2, <2>3
<1>6. Pending' BY <1>1 DEF Pending, Busy
<1> QED BY <1>2, <1>3, <1>4, <1>5, <1>6

\* openSource() has returned, or the process ends.
LEMMA OpeningKeeps ==
    ASSUME IInv, pc \in {"open", "bind"}, pc' \in {"bind", "read", "crashed"},
           UNCHANGED <<file, sources, todo, at, tried, clone>>,
           pc' # "crashed" => handle' # NoHandle, "loader" \in DOMAIN handle'
    PROVE IInv'
<1> USE DEF IInv
<1>1. Shape' BY DEF Shape, Listed
<1>2. Searched' BY DEF Searched
<1>3. Found' BY DEF Found, Ready, AllUsable, Usable
<1>4. Working' BY DEF Working, Busy
<1>5. Pending' BY DEF Pending, Busy
<1> QED BY <1>1, <1>2, <1>3, <1>4, <1>5

LEMMA OpensKeep == ASSUME IInv, Opens PROVE IInv'
<1>1. "loader" \in DOMAIN handle BY DEF IInv, Working
<1>2. CASE OpenFile
  <2>1. handle' # NoHandle /\ "loader" \in DOMAIN handle'
    BY <1>2 DEF OpenFile, NoHandle, None
  <2> QED BY <1>2, <2>1, OpeningKeeps DEF OpenFile, confVars
<1>3. CASE OpenDirectory
  <2>1. handle' # NoHandle /\ "loader" \in DOMAIN handle'
    BY <1>3 DEF OpenDirectory, NoHandle, None
  <2> QED BY <1>3, <2>1, OpeningKeeps DEF OpenDirectory, confVars
<1>4. CASE NoAttributes BY <1>1, <1>4, OpeningKeeps DEF NoAttributes, confVars
<1>5. CASE CannotOpen BY <1>5, SourceEndsKeeps DEF CannotOpen
<1>6. CASE Bind
  <2>1. handle' # NoHandle BY <1>6 DEF Bind, IInv, Working
  <2> QED BY <1>1, <1>6, <2>1, OpeningKeeps DEF Bind, confVars
<1>7. CASE NoFilter BY <1>1, <1>7, OpeningKeeps DEF NoFilter, confVars
<1> QED BY <1>2, <1>3, <1>4, <1>5, <1>6, <1>7 DEF Opens

\* Another part of the answer, or of the file, is at hand.
LEMMA MoreKeeps ==
    ASSUME IInv, pc = "read", handle.loader \in {"sendmail", "ldap"},
           UNCHANGED <<file, pc, sources, todo, at, tried, clone>>,
           "loader" \in DOMAIN handle', handle'.loader = handle.loader
    PROVE IInv'
<1>1. handle' # NoHandle BY DEF NoHandle, None
<1>2. handle # NoHandle BY DEF NoHandle, None
<1> QED BY <1>1, <1>2, QuietKeeps DEF Quiet

LEMMA ReadsKeep == ASSUME IInv, Reads PROVE IInv'
<1>1. "loader" \in DOMAIN handle BY DEF IInv, Working
<1>2. CASE ReadLine BY <1>1, <1>2, MoreKeeps DEF ReadLine, confVars
<1>3. CASE EndOfFile BY <1>3, SourceEndsKeeps DEF EndOfFile
<1>4. CASE TakeValue BY <1>1, <1>4, MoreKeeps DEF TakeValue, Reading, confVars
<1>5. CASE EmptyValue BY <1>5, SourceEndsKeeps DEF EmptyValue, Reading
<1>6. CASE NextAttribute BY <1>1, <1>6, MoreKeeps DEF NextAttribute, Reading, confVars
<1>7. CASE NextEntry BY <1>1, <1>7, MoreKeeps DEF NextEntry, Waiting, Reading, confVars
<1>8. CASE SearchResult BY <1>8, SourceEndsKeeps DEF SearchResult, Waiting, Reading
<1> QED BY <1>2, <1>3, <1>4, <1>5, <1>6, <1>7, <1>8 DEF Reads

LEMMA PublishKeeps == ASSUME IInv, Publish PROVE IInv'
<1> USE DEF IInv, Publish, confVars
<1>1. Shape' BY DEF Shape, Listed
<1>2. Searched' BY DEF Searched
<1>3. Found' BY DEF Found, Ready, AllUsable, Usable
<1>4. Working' BY DEF Working, Busy
<1>5. Pending' BY DEF Pending, Busy
<1> QED BY <1>1, <1>2, <1>3, <1>4, <1>5

LEMMA StepsKeep == ASSUME IInv, Steps PROVE IInv'
<1>1. CASE GetFails BY <1>1, FailureKeeps DEF GetFails, confVars, Busy
<1>2. CASE Get BY <1>2, GetKeeps
<1>3. CASE \E n \in todo : FirstOfDomain(n) \/ Clone(n) \/ CloneFails(n)
  <2>1. PICK n \in todo : FirstOfDomain(n) \/ Clone(n) \/ CloneFails(n) BY <1>3
  <2> QED BY <2>1, FirstOfDomainKeeps, CloneKeeps, CloneFailsKeeps
<1>4. CASE TryLibrary BY <1>4, TryLibraryKeeps
<1>5. CASE NotFound BY <1>5, FailureKeeps DEF NotFound, Busy
<1>6. CASE LoadersLoaded BY <1>6, LoadersLoadedKeeps
<1>7. CASE Opens BY <1>7, OpensKeep
<1>8. CASE Reads BY <1>8, ReadsKeep
<1>9. CASE Publish BY <1>9, PublishKeeps
<1> QED BY <1>1, <1>2, <1>3, <1>4, <1>5, <1>6, <1>7, <1>8, <1>9 DEF Steps

\* The invariant is inductive.
LEMMA Invariance == Spec => []IInv
<1>1. Init => IInv BY InitInv
<1>2. IInv /\ [Next]_vars => IInv'
  <2> SUFFICES ASSUME IInv, [Next]_vars PROVE IInv' OBVIOUS
  <2>1. CASE Steps BY <2>1, StepsKeep
  <2>2. CASE SourceFails BY <2>2, SourceEndsKeeps DEF SourceFails
  <2>3. "loader" \in DOMAIN handle BY DEF IInv, Working
  <2>4. CASE FallsSilent BY <2>3, <2>4, QuietKeeps DEF FallsSilent, Quiet, confVars
  <2>5. CASE UNCHANGED vars BY <2>3, <2>5, QuietKeeps DEF vars, Quiet
  <2> QED BY <2>1, <2>2, <2>4, <2>5 DEF Next
<1> QED BY <1>1, <1>2, PTL DEF Spec

-----------------------------------------------------------------------------
(* What follows *)

LEMMA ProtocolFollows == ASSUME IInv PROVE LoaderProtocol
<1> USE DEF IInv
<1>1. pc \in {"open", "bind", "read"} => \A i \in DOMAIN clone : Usable(clone[i])
  BY DEF Found, Working, Ready, Busy, AllUsable
<1>2. handle = NoHandle => pc \notin {"bind", "read"} BY DEF Working
<1>3. handle # NoHandle => pc \in {"bind", "read", "crashed"} BY DEF Working, Busy
<1>4. \A n \in DOMAIN sources : sources[n] # <<>>
  <2> SUFFICES ASSUME NEW n \in DOMAIN sources, sources[n] = <<>> PROVE FALSE OBVIOUS
  <2>1. Len(<<>>) = 0 OBVIOUS
  <2> QED BY <2>1 DEF Shape
<1>5. clone # <<>> <=> pc \in {"open", "bind", "read", "crashed"}
  BY <1>4 DEF Working, Busy
<1>6. pc = "published" =>
        /\ DOMAIN sources # {}
        /\ \A n \in DOMAIN sources : \A i \in DOMAIN sources[n] : Usable(sources[n][i])
  BY DEF Found, Ready, AllUsable
<1> QED BY <1>1, <1>2, <1>3, <1>4, <1>5, <1>6 DEF LoaderProtocol

\* For every configuration, loader path and contents of the sources: no function
\* of a loader is called that is missing or belongs to a closed library, what
\* openSource() opens is closed once, whatever fails, and only a configuration
\* whose domains have their loaders is published (Source::load_data(),
\* Source::load_loader(), Configuration::get()).
THEOREM LoaderProtocolKept == Spec => []LoaderProtocol
<1>1. IInv => LoaderProtocol BY ProtocolFollows
<1> QED BY <1>1, Invariance, PTL

-----------------------------------------------------------------------------
(* Completeness of a load *)

Store == [readable : BOOLEAN, lines : Seq(Value), entries : Seq(Seq(Seq(Value)))]

\* All(s) and MayMiss(s), as functions of the contents st and of what the code
\* makes of the URIs, md.
ValuesOf(entries) == UNION {ToSet(a) : a \in UNION {ToSet(e) : e \in ToSet(entries)}}

Offered(st, program) == IF program = "sendmail" THEN ToSet(st.lines) ELSE ValuesOf(st.entries)

Wanted(program, v) ==
    /\ IF program = "sendmail" THEN v.kind # "odd" ELSE v.kind \in {"plain", "smtp"}
    /\ v.at # "foreign"

NamesOf(st, s) ==
    {v.name : v \in {w \in Offered(st, s.loader.program) : Wanted(s.loader.program, w)}}

Early(st, md, s) ==
    IF s.loader.program = "sendmail" THEN ~st.readable \/ md[s.uri].sendmail.name = Dot
    ELSE \E v \in ValuesOf(st.entries) : v.kind = "empty"

Has(st, md, s, names) == Early(st, md, s) \/ NamesOf(st, s) \subseteq names

\* What a handle has still to deliver.
Outstanding(h) ==
    IF h.loader = "sendmail" THEN ToSet(h.left)
    ELSE ToSet(h.values) \cup (UNION {ToSet(a) : a \in ToSet(h.attributes)}) \cup ValuesOf(h.left)

OfSendmail(h) ==
    /\ h.loader = "sendmail"
    /\ h = [loader |-> "sendmail", name |-> h.name, left |-> h.left]
    /\ h.left \in Seq(Value)

OfLdap(h) ==
    /\ h.loader = "ldap"
    /\ h = [loader |-> "ldap", target |-> h.target, left |-> h.left,
            attributes |-> h.attributes, values |-> h.values]
    /\ h.left \in Seq(Seq(Seq(Value)))
    /\ h.attributes \in Seq(Seq(Value))
    /\ h.values \in Seq(Value)

Fresh ==
    /\ store \in Store
    /\ DOMAIN data = DOMAIN sources
    /\ pc \in {"get", "loaders"} => \A n \in DOMAIN data : data[n].result # "loaded"

\* The domains that were loaded.
Full ==
    \A n \in DOMAIN data : data[n].result = "loaded" =>
        /\ data[n].names \subseteq UNION {NamesOf(store, s) : s \in ToSet(sources[n])}
        /\ \A s \in ToSet(sources[n]) : Has(store, made, s, data[n].names)

\* The domain that is being loaded: the sources before the current one are done.
SoFar ==
    pc \in Busy =>
        /\ at[2] \in DOMAIN clone
        /\ \A i \in 1 .. at[2] - 1 : Has(store, made, clone[i], read)
        /\ read \subseteq UNION {NamesOf(store, s) : s \in ToSet(clone)}

\* The current source: what it offers was read or is still to come.
Current ==
    pc \in {"bind", "read"} =>
        /\ OfSendmail(handle) \/ OfLdap(handle)
        /\ handle.loader = clone[at[2]].loader.program
        /\ Outstanding(handle) \subseteq Offered(store, handle.loader)
        /\ \/ Early(store, made, clone[at[2]])
           \/ \A v \in Offered(store, handle.loader) :
                  Wanted(handle.loader, v) => v.name \in read \/ v \in Outstanding(handle)

CInv == Fresh /\ Full /\ SoFar /\ Current

-----------------------------------------------------------------------------

LEMMA HeadAndTail ==
    ASSUME NEW S, NEW s \in Seq(S), s # <<>>
    PROVE Head(s) \in S /\ Tail(s) \in Seq(S) /\ ToSet(s) = {Head(s)} \cup ToSet(Tail(s))
<1>1. Len(s) \in Nat \ {0} /\ DOMAIN s = 1 .. Len(s) BY EmptySeq, LenProperties
<1>2. Head(s) = s[1] /\ Head(s) \in S BY <1>1, HeadTailProperties
<1>3. Tail(s) \in Seq(S) /\ Len(Tail(s)) = Len(s) - 1
      /\ \A i \in 1 .. Len(Tail(s)) : Tail(s)[i] = s[i + 1]
  BY <1>1, HeadTailProperties
<1>4. DOMAIN Tail(s) = 1 .. Len(s) - 1 BY <1>3, LenProperties
<1>5. \A i \in 1 .. Len(s) : s[i] = Head(s) \/ \E j \in 1 .. Len(s) - 1 : s[i] = Tail(s)[j]
  <2> SUFFICES ASSUME NEW i \in 1 .. Len(s), i # 1
               PROVE \E j \in 1 .. Len(s) - 1 : s[i] = Tail(s)[j]
    BY <1>2
  <2>1. i - 1 \in 1 .. Len(s) - 1 /\ (i - 1) + 1 = i BY <1>1
  <2>2. Tail(s)[i - 1] = s[i] BY <1>3, <2>1
  <2> QED BY <2>1, <2>2
<1>6. \A j \in 1 .. Len(s) - 1 : \E i \in 1 .. Len(s) : Tail(s)[j] = s[i]
  BY <1>1, <1>3
<1>7. 1 \in 1 .. Len(s) BY <1>1
<1>8. ToSet(s) \subseteq {Head(s)} \cup ToSet(Tail(s)) BY <1>1, <1>4, <1>5 DEF ToSet
<1>9. {Head(s)} \cup ToSet(Tail(s)) \subseteq ToSet(s)
  BY <1>1, <1>2, <1>4, <1>6, <1>7 DEF ToSet
<1> QED BY <1>2, <1>3, <1>8, <1>9

LEMMA NothingLeft == ToSet(<<>>) = {}
BY DEF ToSet

\* The definitions of this module say what those of Loading do.
LEMMA SameNames == \A s : All(s) = NamesOf(store, s)
<1> SUFFICES ASSUME NEW s PROVE All(s) = NamesOf(store, s) OBVIOUS
<1>1. CASE s.loader.program = "sendmail"
  BY <1>1 DEF All, NamesOf, Offered, Wanted
<1>2. CASE s.loader.program # "sendmail"
  BY <1>2 DEF All, NamesOf, Offered, Wanted, ValuesOf
<1> QED BY <1>1, <1>2

LEMMA SameExceptions == \A s : MayMiss(s) <=> Early(store, made, s)
<1> SUFFICES ASSUME NEW s PROVE MayMiss(s) <=> Early(store, made, s) OBVIOUS
<1>1. (\E e \in ToSet(store.entries) : \E a \in ToSet(e) : \E v \in ToSet(a) : v.kind = "empty")
      <=> \E v \in ValuesOf(store.entries) : v.kind = "empty"
  BY DEF ValuesOf
<1> QED BY <1>1 DEF MayMiss, Early

LEMMA CompleteFollows == ASSUME CInv PROVE Complete
BY SameNames, SameExceptions DEF CInv, Full, Has, Complete

-----------------------------------------------------------------------------
(* The invariant of a load *)

LEMMA CInit == Init => CInv
<1> SUFFICES ASSUME Init PROVE CInv OBVIOUS
<1> USE DEF Init
<1>1. Fresh BY LoadingAssumption DEF LoadingAssumption, Fresh, Store
<1>2. Full BY DEF Full
<1>3. SoFar /\ Current BY DEF SoFar, Current, Busy
<1> QED BY <1>1, <1>2, <1>3 DEF CInv

\* No domain is touched, and no load goes on.
LEMMA IdleKeeps ==
    ASSUME CInv, UNCHANGED <<store, made, sources, data>>, pc' \notin Busy,
           pc' \in {"get", "loaders"} => pc = pc'
    PROVE CInv'
<1> USE DEF CInv
<1>1. Fresh' BY DEF Fresh
<1>2. Full' BY DEF Full
<1>3. SoFar' /\ Current' BY DEF SoFar, Current, Busy
<1> QED BY <1>1, <1>2, <1>3

LEMMA CGetKeeps == ASSUME CInv, Get PROVE CInv'
<1> USE DEF CInv, Get
<1>1. DOMAIN data' = DOMAIN sources' /\ \A n \in DOMAIN data' : data'[n].result = "new"
  OBVIOUS
<1>2. Fresh' BY <1>1 DEF Fresh
<1>3. Full' BY <1>1 DEF Full
<1>4. SoFar' /\ Current' BY DEF SoFar, Current, Busy
<1> QED BY <1>2, <1>3, <1>4

\* Before the first load nothing is loaded, whatever becomes of the sources.
LEMMA SearchKeeps ==
    ASSUME CInv, pc = "loaders", pc' = "loaders", UNCHANGED <<store, made, data>>,
           DOMAIN sources' = DOMAIN sources
    PROVE CInv'
<1> USE DEF CInv
<1>1. Fresh' BY DEF Fresh
<1>2. Full' BY DEF Full, Fresh
<1>3. SoFar' /\ Current' BY DEF SoFar, Current, Busy
<1> QED BY <1>1, <1>2, <1>3

LEMMA CNotFoundKeeps == ASSUME CInv, NotFound PROVE CInv'
<1> USE DEF CInv, NotFound
<1>1. Fresh' BY DEF Fresh
<1>2. Full' BY DEF Full
<1>3. SoFar' /\ Current' BY DEF SoFar, Current, Busy
<1> QED BY <1>1, <1>2, <1>3

LEMMA CCloneKeeps == ASSUME IInv, CInv, NEW n \in todo, Clone(n) PROVE CInv'
<1> USE DEF CInv, Clone, confVars
<1>1. Fresh' BY DEF Fresh
<1>2. Full' BY DEF Full
<1>3. SoFar'
  <2>1. at' = <<n, 1>> /\ at'[2] = 1 OBVIOUS
  <2>2. n \in DOMAIN sources BY DEF IInv, Pending
  <2>3. 1 \in DOMAIN clone' BY <2>2 DEF IInv, Shape, Listed
  <2> QED BY <2>1, <2>3 DEF SoFar
<1>4. Current' BY DEF Current
<1> QED BY <1>1, <1>2, <1>3, <1>4

\* A failure: the domain keeps no names.
LEMMA FailedKeeps ==
    ASSUME IInv, CInv, pc \in {"open", "bind", "read"}, SourceEnds(TRUE)
    PROVE CInv'
<1> USE DEF CInv, SourceEnds, confVars
<1>1. pc' = "refresh" BY DEF After
<1>2. at[1] \in DOMAIN data BY DEF IInv, Working, Busy, Fresh
<1>3. data' = [data EXCEPT ![at[1]] = [result |-> "failed", names |-> {}]] BY <1>1
<1>4. Fresh' BY <1>1, <1>3 DEF Fresh
<1>5. Full'
  <2>1. data'[at[1]].result = "failed" /\ DOMAIN data' = DOMAIN data
    <3> DEFINE entry == [result |-> "failed", names |-> {}]
    <3>1. entry.result = "failed" OBVIOUS
    <3> HIDE DEF entry
    <3> QED BY <1>2, <1>3, <3>1 DEF entry
  <2>2. \A n \in DOMAIN data : n # at[1] => data'[n] = data[n] BY <1>3
  <2>3. store' = store /\ made' = made /\ sources' = sources OBVIOUS
  <2>4. ASSUME NEW n \in DOMAIN data', data'[n].result = "loaded"
        PROVE n \in DOMAIN data /\ data'[n] = data[n]
    BY <2>1, <2>2, <2>4
  <2>5. Full OBVIOUS
  <2> HIDE DEF CInv, SourceEnds
  <2> QED BY <2>3, <2>4, <2>5 DEF Full
<1>6. SoFar' /\ Current' BY <1>1 DEF SoFar, Current, Busy
<1> QED BY <1>4, <1>5, <1>6

\* The end of a source that has given all it has.
LEMMA DoneKeeps ==
    ASSUME IInv, CInv, pc = "read", SourceEnds(FALSE),
           Has(store, made, clone[at[2]], read)
    PROVE CInv'
<1> USE DEF CInv, SourceEnds, confVars
<1>1. /\ at[1] \in DOMAIN sources /\ clone = sources[at[1]]
      /\ Listed(clone)
  BY DEF IInv, Working, Busy, Shape
<1>2. at[2] \in 1 .. Len(clone) /\ Len(clone) \in Nat BY <1>1 DEF SoFar, Busy, Listed
<1>3. /\ \A i \in 1 .. at[2] : Has(store, made, clone[i], read)
      /\ read \subseteq UNION {NamesOf(store, s) : s \in ToSet(clone)}
  <2>1. \A i \in 1 .. at[2] : i \in 1 .. at[2] - 1 \/ i = at[2] BY <1>2
  <2> QED BY <2>1 DEF SoFar, Busy
<1>4. UNCHANGED <<store, made, sources>> OBVIOUS
<1>5. CASE at[2] < Len(clone)
  <2>1. pc' = "open" /\ UNCHANGED <<clone, read, data>> /\ at' = <<at[1], at[2] + 1>>
    BY <1>5 DEF After
  <2>2. at'[2] = at[2] + 1 /\ (at[2] + 1) - 1 = at[2]
    <3> DEFINE a == at[1]
               b == at[2] + 1
    <3>1. <<a, b>>[2] = b OBVIOUS
    <3>2. at' = <<a, b>> BY <2>1
    <3>3. b - 1 = at[2] BY <1>2
    <3> HIDE DEF a, b
    <3>4. at'[2] = b BY <3>1, <3>2
    <3> QED BY <3>3, <3>4 DEF b
  <2>3. at[2] + 1 \in DOMAIN clone BY <1>1, <1>2, <1>5 DEF Listed
  <2>4. Fresh' BY <1>4, <2>1 DEF Fresh
  <2>5. Full' BY <1>4, <2>1 DEF Full
  <2>6. SoFar' BY <1>3, <1>4, <2>1, <2>2, <2>3 DEF SoFar
  <2>7. Current' BY <2>1 DEF Current
  <2> QED BY <2>4, <2>5, <2>6, <2>7
<1>6. CASE ~(at[2] < Len(clone))
  <2>1. pc' = "refresh" BY <1>6 DEF After
  <2>2. data' = [data EXCEPT ![at[1]] = [result |-> "loaded", names |-> read]]
    BY <2>1
  <2>3. at[2] = Len(clone) BY <1>2, <1>6
  <2>4. Fresh' BY <1>4, <2>1, <2>2 DEF Fresh
  <2>5. at[1] \in DOMAIN data /\ DOMAIN data' = DOMAIN data BY <1>1, <2>2 DEF Fresh
  <2>6. \A s \in ToSet(clone) : Has(store, made, s, read)
    BY <1>1, <1>3, <2>3 DEF Listed, ToSet
  <2>7. Full'
    <3> SUFFICES ASSUME NEW n \in DOMAIN data', data'[n].result = "loaded"
                 PROVE /\ data'[n].names
                              \subseteq UNION {NamesOf(store', s) : s \in ToSet(sources'[n])}
                       /\ \A s \in ToSet(sources'[n]) : Has(store', made', s, data'[n].names)
      BY DEF Full
    <3>1. CASE n = at[1]
      <4> DEFINE entry == [result |-> "loaded", names |-> read]
      <4>2. entry.names = read OBVIOUS
      <4> HIDE DEF entry
      <4>1. data'[n].names = read BY <2>2, <2>5, <3>1, <4>2 DEF entry
      <4> QED BY <1>1, <1>3, <1>4, <2>6, <3>1, <4>1
    <3>2. CASE n # at[1]
      <4>1. data'[n] = data[n] /\ n \in DOMAIN data BY <2>2, <2>5, <3>2
      <4> QED BY <1>4, <4>1 DEF Full
    <3> QED BY <3>1, <3>2
  <2>8. SoFar' /\ Current' BY <2>1 DEF SoFar, Current, Busy
  <2> QED BY <2>4, <2>7, <2>8
<1> QED BY <1>5, <1>6

\* openSource() has a handle that has everything still to deliver.
LEMMA OpenedKeeps ==
    ASSUME CInv, pc = "open", pc' \in {"bind", "read"},
           UNCHANGED <<store, made, sources, at, clone, read, data>>,
           OfSendmail(handle') \/ OfLdap(handle'),
           handle'.loader = clone[at[2]].loader.program,
           Outstanding(handle') \subseteq Offered(store, handle'.loader),
           \/ Early(store, made, clone[at[2]])
           \/ Offered(store, handle'.loader) \subseteq Outstanding(handle')
    PROVE CInv'
<1> USE DEF CInv
<1>1. Fresh' BY DEF Fresh
<1>2. Full' BY DEF Full
<1>3. SoFar' BY DEF SoFar, Busy
<1>4. Current' BY DEF Current
<1> QED BY <1>1, <1>2, <1>3, <1>4

LEMMA OpenFileKeeps == ASSUME CInv, OpenFile PROVE CInv'
<1> DEFINE name == made[Opened.uri].sendmail.name
<1>1. /\ pc = "open" /\ pc' = "read" /\ clone[at[2]].loader.program = "sendmail"
      /\ handle' = [loader |-> "sendmail", name |-> name, left |-> Lines(name)]
      /\ UNCHANGED <<store, made, sources, at, clone, read, data>>
  BY DEF OpenFile, confVars, Opened
<1>2. store.lines \in Seq(Value) BY DEF CInv, Fresh, Store
<1>3. Lines(name) = <<>> \/ Lines(name) = store.lines BY DEF Lines
<1>4. Lines(name) \in Seq(Value) BY <1>2, <1>3, EmptySeq
<1>5. ToSet(Lines(name)) \subseteq ToSet(store.lines) BY <1>3, NothingLeft
<1>6. Early(store, made, clone[at[2]]) \/ Lines(name) = store.lines
  BY <1>1 DEF Early, Lines, Opened
<1> HIDE DEF name
<1>7. handle'.loader = "sendmail" /\ handle'.name = name /\ handle'.left = Lines(name)
  BY <1>1
<1>8. OfSendmail(handle') BY <1>1, <1>4, <1>7 DEF OfSendmail
<1>9. Outstanding(handle') = ToSet(Lines(name)) BY <1>7 DEF Outstanding
<1>10. Offered(store, handle'.loader) = ToSet(store.lines) BY <1>7 DEF Offered
<1> QED BY <1>1, <1>5, <1>6, <1>7, <1>8, <1>9, <1>10, OpenedKeeps

LEMMA OpenDirectoryKeeps == ASSUME CInv, OpenDirectory PROVE CInv'
<1> DEFINE target == made[Opened.uri].ldap
<1>1. /\ pc = "open" /\ pc' = "bind" /\ clone[at[2]].loader.program = "ldap"
      /\ handle' = [loader |-> "ldap", target |-> target, left |-> store.entries,
                    attributes |-> <<>>, values |-> <<>>]
      /\ UNCHANGED <<store, made, sources, at, clone, read, data>>
  BY DEF OpenDirectory, confVars, Opened
<1>2. store.entries \in Seq(Seq(Seq(Value))) BY DEF CInv, Fresh, Store
<1> HIDE DEF target
<1>3. /\ handle'.loader = "ldap" /\ handle'.target = target /\ handle'.left = store.entries
      /\ handle'.attributes = <<>> /\ handle'.values = <<>>
  BY <1>1
<1>4. OfLdap(handle') BY <1>1, <1>2, <1>3 DEF OfLdap
<1>5. Outstanding(handle') = ValuesOf(store.entries)
  <2>1. ToSet(handle'.attributes) = {} /\ ToSet(handle'.values) = {} BY <1>3, NothingLeft
  <2>2. UNION {ToSet(a) : a \in ToSet(handle'.attributes)} = {} BY <2>1
  <2> QED BY <1>3, <2>1, <2>2 DEF Outstanding
<1>6. Offered(store, handle'.loader) = ValuesOf(store.entries) BY <1>3 DEF Offered
<1> QED BY <1>1, <1>3, <1>4, <1>5, <1>6, OpenedKeeps

\* The search has begun, or the process has ended.
LEMMA BoundKeeps ==
    ASSUME CInv, pc \in {"open", "bind"}, pc' \in {"read", "crashed"}, pc' = "read" => pc = "bind",
           UNCHANGED <<store, made, sources, at, clone, handle, read, data>>
    PROVE CInv'
<1> USE DEF CInv
<1>1. Fresh' BY DEF Fresh
<1>2. Full' BY DEF Full
<1>3. SoFar' BY DEF SoFar, Busy
<1>4. Current' BY DEF Current
<1> QED BY <1>1, <1>2, <1>3, <1>4

\* A part of the answer: what is wanted of it was read.
LEMMA AdvanceKeeps ==
    ASSUME CInv, pc = "read", pc' = "read",
           UNCHANGED <<store, made, sources, at, clone, data>>,
           OfSendmail(handle') \/ OfLdap(handle'),
           handle'.loader = handle.loader,
           Outstanding(handle') \subseteq Outstanding(handle),
           read \subseteq read',
           \A v \in Outstanding(handle) :
               Wanted(handle.loader, v) => v.name \in read' \/ v \in Outstanding(handle'),
           \A x \in read' : x \in read \/ \E v \in Outstanding(handle) :
               Wanted(handle.loader, v) /\ x = v.name
    PROVE CInv'
<1> USE DEF CInv
<1>1. Fresh' BY DEF Fresh
<1>2. Full' BY DEF Full
<1> DEFINE s == clone[at[2]]
<1>3. at[2] \in DOMAIN clone /\ s \in ToSet(clone) BY DEF SoFar, Busy, ToSet
<1>4. \A v \in Outstanding(handle) : Wanted(handle.loader, v) => v.name \in NamesOf(store, s)
  BY DEF Current, NamesOf
<1>5. read' \subseteq UNION {NamesOf(store, r) : r \in ToSet(clone)}
  <2>1. read \subseteq UNION {NamesOf(store, r) : r \in ToSet(clone)} BY DEF SoFar, Busy
  <2>2. NamesOf(store, s) \subseteq UNION {NamesOf(store, r) : r \in ToSet(clone)} BY <1>3
  <2> QED BY <1>4, <2>1, <2>2
<1>6. \A i \in 1 .. at[2] - 1 : Has(store, made, clone[i], read') BY DEF SoFar, Busy, Has
<1>7. SoFar' BY <1>3, <1>5, <1>6 DEF SoFar
<1>8. Current' BY DEF Current
<1> QED BY <1>1, <1>2, <1>7, <1>8

LEMMA SendmailHandle ==
    ASSUME CInv, pc = "read", handle.loader = "sendmail"
    PROVE /\ OfSendmail(handle)
          /\ Outstanding(handle) = ToSet(handle.left)
          /\ handle.left # <<>> => Head(handle.left) \in Outstanding(handle)
<1>1. OfSendmail(handle) BY DEF CInv, Current, OfSendmail, OfLdap
<1>2. Outstanding(handle) = ToSet(handle.left) BY DEF Outstanding
<1>3. handle.left # <<>> => Head(handle.left) \in ToSet(handle.left)
  BY <1>1, HeadAndTail DEF OfSendmail
<1> QED BY <1>1, <1>2, <1>3

LEMMA ReadLineKeeps == ASSUME CInv, ReadLine PROVE CInv'
<1> DEFINE h == Head(handle.left)
           rest == Tail(handle.left)
<1>1. /\ pc = "read" /\ handle.loader = "sendmail" /\ handle.left # <<>> /\ pc' = pc
      /\ handle' = [handle EXCEPT !.left = rest]
      /\ read' = IF h.kind = "odd" THEN read ELSE Taken(h)
      /\ UNCHANGED <<store, made, sources, at, clone, data>>
  BY DEF ReadLine, confVars
<1>2. /\ handle = [loader |-> "sendmail", name |-> handle.name, left |-> handle.left]
      /\ handle.left \in Seq(Value)
      /\ Outstanding(handle) = ToSet(handle.left)
  BY <1>1, SendmailHandle DEF OfSendmail
<1>3. h \in Value /\ rest \in Seq(Value) /\ ToSet(handle.left) = {h} \cup ToSet(rest)
  BY <1>1, <1>2, HeadAndTail
<1> HIDE DEF h, rest
<1>4. handle' = [loader |-> "sendmail", name |-> handle.name, left |-> rest] BY <1>1, <1>2
<1>5. handle'.loader = "sendmail" /\ handle'.name = handle.name /\ handle'.left = rest
  BY <1>4
<1>6. OfSendmail(handle') BY <1>3, <1>4, <1>5 DEF OfSendmail
<1>7. Outstanding(handle') = ToSet(rest) BY <1>5 DEF Outstanding
<1>8. read \subseteq read' /\ (Wanted("sendmail", h) => h.name \in read')
      /\ \A x \in read' : x \in read \/ (Wanted("sendmail", h) /\ x = h.name)
  BY <1>1 DEF Taken, Wanted
<1>9. \A v \in Outstanding(handle) : v = h \/ v \in Outstanding(handle')
  BY <1>2, <1>3, <1>7
<1>10. h \in Outstanding(handle) /\ Outstanding(handle') \subseteq Outstanding(handle)
  BY <1>2, <1>3, <1>7
<1> QED BY <1>1, <1>5, <1>6, <1>8, <1>9, <1>10, AdvanceKeeps

LEMMA EndOfFileKeeps == ASSUME IInv, CInv, EndOfFile PROVE CInv'
<1>1. pc = "read" /\ handle.loader = "sendmail" /\ handle.left = <<>> /\ SourceEnds(FALSE)
  BY DEF EndOfFile
<1>2. Outstanding(handle) = {} BY <1>1, SendmailHandle, NothingLeft
<1>3. Has(store, made, clone[at[2]], read)
  BY <1>1, <1>2 DEF CInv, Current, Has, NamesOf
<1> QED BY <1>1, <1>3, DoneKeeps

LEMMA LdapHandle ==
    ASSUME CInv, Reading
    PROVE /\ OfLdap(handle)
          /\ Outstanding(handle) = ToSet(handle.values)
                 \cup (UNION {ToSet(a) : a \in ToSet(handle.attributes)}) \cup ValuesOf(handle.left)
<1>1. pc = "read" /\ handle.loader = "ldap" BY DEF Reading
<1>2. OfLdap(handle) BY <1>1 DEF CInv, Current, OfSendmail, OfLdap
<1> QED BY <1>1, <1>2 DEF Outstanding

LEMMA TakeValueKeeps == ASSUME CInv, TakeValue PROVE CInv'
<1> DEFINE h == Head(handle.values)
           rest == Tail(handle.values)
           others == (UNION {ToSet(a) : a \in ToSet(handle.attributes)}) \cup ValuesOf(handle.left)
<1>1. /\ Reading /\ pc = "read" /\ pc' = pc /\ handle.values # <<>> /\ h.kind # "empty"
      /\ handle' = [handle EXCEPT !.values = rest]
      /\ read' = IF h.kind = "odd" THEN read ELSE Taken(h)
      /\ UNCHANGED <<store, made, sources, at, clone, data>>
  BY DEF TakeValue, Reading, AfterValue, confVars
<1>2. /\ handle = [loader |-> "ldap", target |-> handle.target, left |-> handle.left,
                   attributes |-> handle.attributes, values |-> handle.values]
      /\ handle.left \in Seq(Seq(Seq(Value))) /\ handle.attributes \in Seq(Seq(Value))
      /\ handle.values \in Seq(Value) /\ handle.loader = "ldap"
      /\ Outstanding(handle) = ToSet(handle.values) \cup others
  BY <1>1, LdapHandle DEF OfLdap
<1>3. h \in Value /\ rest \in Seq(Value) /\ ToSet(handle.values) = {h} \cup ToSet(rest)
  BY <1>1, <1>2, HeadAndTail
<1> HIDE DEF h, rest
<1>4. handle' = [loader |-> "ldap", target |-> handle.target, left |-> handle.left,
                 attributes |-> handle.attributes, values |-> rest]
  BY <1>1, <1>2
<1>5. /\ handle'.loader = "ldap" /\ handle'.target = handle.target
      /\ handle'.left = handle.left /\ handle'.attributes = handle.attributes
      /\ handle'.values = rest
  BY <1>4
<1>6. OfLdap(handle') BY <1>2, <1>3, <1>4, <1>5 DEF OfLdap
<1>7. Outstanding(handle') = ToSet(rest) \cup others BY <1>5 DEF Outstanding
<1> HIDE DEF others
<1>8. read \subseteq read' /\ (Wanted("ldap", h) => h.name \in read')
      /\ \A x \in read' : x \in read \/ (Wanted("ldap", h) /\ x = h.name)
  <2>1. h.kind \in {"plain", "smtp", "odd"} BY <1>1, <1>3 DEF Value
  <2> QED BY <1>1, <2>1 DEF Taken, Wanted
<1>9. \A v \in Outstanding(handle) : v = h \/ v \in Outstanding(handle')
  BY <1>2, <1>3, <1>7
<1>10. h \in Outstanding(handle) /\ Outstanding(handle') \subseteq Outstanding(handle)
  BY <1>2, <1>3, <1>7
<1> QED BY <1>1, <1>2, <1>5, <1>6, <1>8, <1>9, <1>10, AdvanceKeeps

LEMMA EmptyValueKeeps == ASSUME IInv, CInv, EmptyValue PROVE CInv'
<1>1. /\ Reading /\ pc = "read" /\ handle.loader = "ldap" /\ handle.values # <<>>
      /\ Head(handle.values).kind = "empty" /\ SourceEnds(FALSE)
  BY DEF EmptyValue, Reading
<1>2. Head(handle.values) \in ToSet(handle.values)
  BY <1>1, LdapHandle, HeadAndTail DEF OfLdap
<1>3. Head(handle.values) \in Offered(store, "ldap")
  BY <1>1, <1>2, LdapHandle DEF CInv, Current
<1>4. Early(store, made, clone[at[2]]) BY <1>1, <1>3 DEF CInv, Current, Early, Offered
<1> QED BY <1>1, <1>4, DoneKeeps DEF Has

LEMMA NextAttributeKeeps == ASSUME CInv, NextAttribute PROVE CInv'
<1> DEFINE h == Head(handle.attributes)
           rest == Tail(handle.attributes)
           others == ValuesOf(handle.left)
<1>1. /\ Reading /\ pc = "read" /\ pc' = pc
      /\ handle.values = <<>> /\ handle.attributes # <<>>
      /\ handle' = [handle EXCEPT !.values = h, !.attributes = rest]
      /\ UNCHANGED <<store, made, sources, at, clone, read, data>>
  BY DEF NextAttribute, Reading, confVars
<1>2. /\ handle = [loader |-> "ldap", target |-> handle.target, left |-> handle.left,
                   attributes |-> handle.attributes, values |-> handle.values]
      /\ handle.left \in Seq(Seq(Seq(Value))) /\ handle.attributes \in Seq(Seq(Value))
      /\ handle.loader = "ldap"
      /\ Outstanding(handle) = (UNION {ToSet(a) : a \in ToSet(handle.attributes)}) \cup others
  BY <1>1, LdapHandle, NothingLeft DEF OfLdap
<1>3. h \in Seq(Value) /\ rest \in Seq(Seq(Value))
      /\ ToSet(handle.attributes) = {h} \cup ToSet(rest)
  BY <1>1, <1>2, HeadAndTail
<1> HIDE DEF h, rest
<1>4. handle' = [loader |-> "ldap", target |-> handle.target, left |-> handle.left,
                 attributes |-> rest, values |-> h]
  BY <1>1, <1>2
<1>5. /\ handle'.loader = "ldap" /\ handle'.target = handle.target
      /\ handle'.left = handle.left /\ handle'.attributes = rest /\ handle'.values = h
  BY <1>4
<1>6. OfLdap(handle') BY <1>2, <1>3, <1>4, <1>5 DEF OfLdap
<1>7. Outstanding(handle') = ToSet(h) \cup (UNION {ToSet(a) : a \in ToSet(rest)}) \cup others
  BY <1>5 DEF Outstanding
<1> HIDE DEF others
<1>8. Outstanding(handle') = Outstanding(handle) BY <1>2, <1>3, <1>7
<1> QED BY <1>1, <1>2, <1>5, <1>6, <1>8, AdvanceKeeps

LEMMA NextEntryKeeps == ASSUME CInv, NextEntry PROVE CInv'
<1> DEFINE h == Head(handle.left)
           rest == Tail(handle.left)
<1>1. /\ Reading /\ pc = "read" /\ pc' = pc
      /\ handle.values = <<>> /\ handle.attributes = <<>> /\ handle.left # <<>>
      /\ handle' = [handle EXCEPT !.attributes = h, !.left = rest]
      /\ UNCHANGED <<store, made, sources, at, clone, read, data>>
  BY DEF NextEntry, Waiting, Reading, confVars
<1>2. /\ handle = [loader |-> "ldap", target |-> handle.target, left |-> handle.left,
                   attributes |-> handle.attributes, values |-> handle.values]
      /\ handle.left \in Seq(Seq(Seq(Value))) /\ handle.values \in Seq(Value)
      /\ handle.loader = "ldap"
      /\ Outstanding(handle) = ValuesOf(handle.left)
  <2>1. UNION {ToSet(a) : a \in ToSet(handle.attributes)} = {} BY <1>1, NothingLeft
  <2> QED BY <1>1, <2>1, LdapHandle, NothingLeft DEF OfLdap
<1>3. h \in Seq(Seq(Value)) /\ rest \in Seq(Seq(Seq(Value)))
      /\ ToSet(handle.left) = {h} \cup ToSet(rest)
  BY <1>1, <1>2, HeadAndTail
<1> HIDE DEF h, rest
<1>4. handle' = [loader |-> "ldap", target |-> handle.target, left |-> rest,
                 attributes |-> h, values |-> handle.values]
  BY <1>1, <1>2
<1>5. /\ handle'.loader = "ldap" /\ handle'.target = handle.target
      /\ handle'.left = rest /\ handle'.attributes = h /\ handle'.values = handle.values
  BY <1>4
<1>6. OfLdap(handle') BY <1>2, <1>3, <1>4, <1>5 DEF OfLdap
<1>7. Outstanding(handle') = (UNION {ToSet(a) : a \in ToSet(h)}) \cup ValuesOf(rest)
  BY <1>1, <1>5, NothingLeft DEF Outstanding
<1>8. ValuesOf(handle.left) = (UNION {ToSet(a) : a \in ToSet(h)}) \cup ValuesOf(rest)
  BY <1>3 DEF ValuesOf
<1>9. Outstanding(handle') = Outstanding(handle) BY <1>2, <1>7, <1>8
<1> QED BY <1>1, <1>2, <1>5, <1>6, <1>9, AdvanceKeeps

LEMMA SearchResultKeeps == ASSUME IInv, CInv, SearchResult PROVE CInv'
<1>1. /\ Reading /\ pc = "read" /\ handle.loader = "ldap" /\ SourceEnds(FALSE)
      /\ handle.values = <<>> /\ handle.attributes = <<>> /\ handle.left = <<>>
  BY DEF SearchResult, Waiting, Reading
<1>2. Outstanding(handle) = {}
  <2>1. ToSet(handle.values) = {} /\ ToSet(handle.attributes) = {} /\ ToSet(handle.left) = {}
    BY <1>1, NothingLeft
  <2>2. ValuesOf(handle.left) = {} BY <2>1 DEF ValuesOf
  <2>3. UNION {ToSet(a) : a \in ToSet(handle.attributes)} = {} BY <2>1
  <2> QED BY <1>1, <2>1, <2>2, <2>3, LdapHandle
<1>3. Has(store, made, clone[at[2]], read)
  BY <1>1, <1>2 DEF CInv, Current, Has, NamesOf
<1> QED BY <1>1, <1>3, DoneKeeps

LEMMA OpensComplete == ASSUME IInv, CInv, Opens PROVE CInv'
<1>1. CASE OpenFile BY <1>1, OpenFileKeeps
<1>2. CASE OpenDirectory BY <1>2, OpenDirectoryKeeps
<1>3. CASE NoAttributes BY <1>3, BoundKeeps DEF NoAttributes, confVars
<1>4. CASE CannotOpen BY <1>4, FailedKeeps DEF CannotOpen
<1>5. CASE Bind BY <1>5, BoundKeeps DEF Bind, confVars
<1>6. CASE NoFilter BY <1>6, BoundKeeps DEF NoFilter, confVars
<1> QED BY <1>1, <1>2, <1>3, <1>4, <1>5, <1>6 DEF Opens

LEMMA StepsComplete == ASSUME IInv, CInv, Steps PROVE CInv'
<1>1. CASE GetFails BY <1>1, IdleKeeps DEF GetFails, confVars, Busy
<1>2. CASE Get BY <1>2, CGetKeeps
<1>3. ASSUME NEW n \in todo, FirstOfDomain(n) PROVE CInv'
  BY <1>3, SearchKeeps DEF FirstOfDomain
<1>4. ASSUME NEW n \in todo, Clone(n) PROVE CInv' BY <1>4, CCloneKeeps
<1>5. ASSUME NEW n \in todo, CloneFails(n) PROVE CInv'
  BY <1>5, IdleKeeps DEF CloneFails, confVars, Busy
<1>6. CASE TryLibrary
  <2>1. DOMAIN sources' = DOMAIN sources BY <1>6 DEF TryLibrary
  <2> QED BY <1>6, <2>1, SearchKeeps DEF TryLibrary
<1>7. CASE NotFound BY <1>7, CNotFoundKeeps
<1>8. CASE LoadersLoaded BY <1>8, IdleKeeps DEF LoadersLoaded, confVars, Busy
<1>9. CASE Opens BY <1>9, OpensComplete
<1>10. CASE Reads
  BY <1>10, ReadLineKeeps, EndOfFileKeeps, TakeValueKeeps, EmptyValueKeeps,
     NextAttributeKeeps, NextEntryKeeps, SearchResultKeeps DEF Reads
<1>11. CASE Publish BY <1>11, IdleKeeps DEF Publish, confVars, Busy
<1> QED BY <1>1, <1>2, <1>3, <1>4, <1>5, <1>6, <1>7, <1>8, <1>9, <1>10, <1>11 DEF Steps

LEMMA NothingDone ==
    ASSUME CInv, UNCHANGED <<store, made, pc, sources, at, clone, handle, read, data>>
    PROVE CInv'
BY DEF CInv, Fresh, Full, SoFar, Current

\* For every configuration and all contents of the sources: a load that succeeds
\* has read the names of all the sources of its domain, and no others, unless one
\* of them ended early in a known way (Source::load_data(), getRecipient() of the
\* two loaders).
THEOREM LoadsComplete == Spec => []Complete
<1>1. Init => CInv BY CInit
<1>2. IInv /\ CInv /\ [Next]_vars => CInv'
  <2> SUFFICES ASSUME IInv, CInv, [Next]_vars PROVE CInv' OBVIOUS
  <2>1. CASE Steps BY <2>1, StepsComplete
  <2>2. CASE SourceFails BY <2>2, FailedKeeps DEF SourceFails
  <2>3. CASE FallsSilent BY <2>3, NothingDone DEF FallsSilent, confVars
  <2>4. CASE UNCHANGED vars BY <2>4, NothingDone DEF vars
  <2> QED BY <2>1, <2>2, <2>3, <2>4 DEF Next
<1>3. CInv => Complete BY CompleteFollows
<1> QED BY <1>1, <1>2, <1>3, Invariance, PTL DEF Spec

-----------------------------------------------------------------------------
(* Texts *)

\* The character where skip_charSet() stops.
LEMMA SkipStops ==
  ASSUME NEW u, Len(u) \in Nat, NEW p \in 1 .. Len(u) + 1, NEW chars, Nul \notin chars
  PROVE  /\ Skip(u, p, chars) \in p .. Len(u) + 1
         /\ TokenAt(u, Skip(u, p, chars)) \notin chars
         /\ \A i \in p .. Skip(u, p, chars) - 1 : u[i] \in chars
<1> DEFINE T == {q \in Nat : q \in p .. Len(u) + 1 /\ TokenAt(u, q) \notin chars}
<1>1. Len(u) + 1 \in T
  BY DEF TokenAt
<1>2. PICK q \in T : \A r \in T : q <= r
  BY <1>1, LeastNumber
<1>3. \A i \in p .. q - 1 : u[i] \in chars
  <2> SUFFICES ASSUME NEW i \in p .. q - 1 PROVE u[i] \in chars
    OBVIOUS
  <2>1. i \in Nat /\ i \in p .. Len(u) + 1 /\ i <= Len(u) /\ ~(q <= i)
    OBVIOUS
  <2>2. i \notin T
    BY <1>2, <2>1
  <2> QED BY <2>1, <2>2 DEF TokenAt
<1> QED BY <1>2, <1>3 DEF Skip

LEMMA FirstOfStops ==
  ASSUME NEW u, Len(u) \in Nat, NEW p \in 1 .. Len(u) + 1, NEW stops
  PROVE  /\ FirstOf(u, p, stops) \in p .. Len(u) + 1
         /\ TokenAt(u, FirstOf(u, p, stops)) \in stops \cup {Nul}
         /\ \A i \in p .. FirstOf(u, p, stops) - 1 : u[i] \notin stops
<1> DEFINE T == {q \in Nat : q \in p .. Len(u) + 1 /\ TokenAt(u, q) \in stops \cup {Nul}}
<1>1. Len(u) + 1 \in T
  BY DEF TokenAt
<1>2. PICK q \in T : \A r \in T : q <= r
  BY <1>1, LeastNumber
<1>3. \A i \in p .. q - 1 : u[i] \notin stops
  <2> SUFFICES ASSUME NEW i \in p .. q - 1 PROVE u[i] \notin stops
    OBVIOUS
  <2>1. i \in Nat /\ i \in p .. Len(u) + 1 /\ i <= Len(u) /\ ~(q <= i)
    OBVIOUS
  <2>2. i \notin T
    BY <1>2, <2>1
  <2> QED BY <2>1, <2>2 DEF TokenAt
<1> QED BY <1>2, <1>3 DEF FirstOf

\* The characters that the parser looks for are not among those that it skips.
LEMMA CharsApart ==
  /\ Nul \notin schemeChar /\ Nul \notin regnameChar /\ Nul \notin userinfoChar
  /\ Nul \notin pcharSlash /\ Nul \notin queryChar /\ Nul \notin {Digit}
  /\ ":" \notin schemeChar /\ ":" \notin regnameChar /\ "@" \notin userinfoChar
  /\ Slash \notin schemeChar /\ Slash \notin userinfoChar
  /\ {"?", "#"} \cap pcharSlash = {} /\ "#" \notin queryChar
  /\ Word \subseteq schemeChar /\ ":" \notin Word /\ Nul \notin Word
BY UriAssumption DEF UriAssumption, schemeChar, regnameChar, userinfoChar, pcharSlash, queryChar,
   unreserved, Delimiters, Nul, Digit, Escape, Slash, Stars

\* The end of a text is no part of it, and so are the asterisks of the log.
LEMMA TokensApart == Nul \notin Token /\ Stars \notin Token
BY UriAssumption DEF UriAssumption, Token, Delimiters, Nul, Stars

-----------------------------------------------------------------------------
(* Paths *)

LEMMA FunctionIsSeq ==
  ASSUME NEW n \in Nat, NEW T, NEW g \in [1 .. n -> T]
  PROVE  g \in Seq(T) /\ Len(g) = n
BY SeqDef

LEMMA NamesType ==
  ASSUME NEW T, NEW text \in Seq(T)
  PROVE  Names(text) \in Seq(Seq(T))
<1> DEFINE IsSlash(i) == i \notin DOMAIN text \/ text[i] = Slash
           begins == {i \in DOMAIN text : ~IsSlash(i) /\ IsSlash(i - 1)}
           EndOf(i) == CHOOSE j \in i .. Len(text) :
                          IsSlash(j + 1) /\ \A k \in i .. j : ~IsSlash(k)
           g == [n \in 1 .. Cardinality(begins) |->
                    SubSeq(text, Nth(begins, n), EndOf(Nth(begins, n)))]
<1>1. DOMAIN text = 1 .. Len(text) /\ Len(text) \in Nat
  OBVIOUS
<1>2. begins \subseteq Nat /\ begins \subseteq 1 .. Len(text) /\ IsFiniteSet(begins)
  <2>1. begins \subseteq 1 .. Len(text)
    BY <1>1
  <2> HIDE DEF begins
  <2>2. IsFiniteSet(1 .. Len(text))
    BY <1>1, Segment
  <2>3. IsFiniteSet(begins)
    BY <2>1, <2>2, FS_Subset
  <2>4. begins \subseteq Nat
    BY <1>1, <2>1
  <2> QED BY <2>1, <2>3, <2>4
<1>3. ASSUME NEW i \in begins PROVE EndOf(i) \in i .. Len(text)
  <2> DEFINE E == {j \in Nat : j \in i .. Len(text) /\ IsSlash(j + 1)}
  <2>1. i \in 1 .. Len(text) /\ ~IsSlash(i)
    BY <1>2
  <2> HIDE DEF begins
  <2>2. Len(text) \in E
    BY <1>1, <2>1
  <2>3. PICK j \in E : \A k \in E : j <= k
    BY <2>2, LeastNumber
  <2>4. \A k \in i .. j : ~IsSlash(k)
    <3> SUFFICES ASSUME NEW k \in i .. j PROVE ~IsSlash(k)
      OBVIOUS
    <3> CASE k # i
      <4>1. k - 1 \in Nat /\ k - 1 \in i .. Len(text) /\ ~(j <= k - 1)
        BY <1>1, <2>1
      <4>2. k - 1 \notin E
        BY <2>3, <4>1
      <4>3. (k - 1) + 1 = k
        BY <2>1
      <4> HIDE DEF IsSlash
      <4> QED BY <4>1, <4>2, <4>3
    <3> QED BY <2>1
  <2>5. \E e \in i .. Len(text) : IsSlash(e + 1) /\ \A k \in i .. e : ~IsSlash(k)
    BY <2>3, <2>4
  <2> HIDE DEF IsSlash
  <2> QED BY <2>5
<1> HIDE DEF EndOf
<1>4. Cardinality(begins) \in Nat /\ \A n \in 1 .. Cardinality(begins) : Nth(begins, n) \in begins
  <2> HIDE DEF begins
  <2> QED BY <1>2, Places
<1> HIDE DEF begins
<1>5. ASSUME NEW i \in begins PROVE SubSeq(text, i, EndOf(i)) \in Seq(T)
  <2>1. i \in Int /\ EndOf(i) \in Int /\ \A k \in i .. EndOf(i) : text[k] \in T
    BY <1>1, <1>2, <1>3
  <2> QED BY <2>1, SubSeqProperties
<1>6. g \in Seq(Seq(T))
  <2>1. ASSUME NEW n \in 1 .. Cardinality(begins)
        PROVE  SubSeq(text, Nth(begins, n), EndOf(Nth(begins, n))) \in Seq(T)
    BY <1>4, <1>5
  <2>2. g \in [1 .. Cardinality(begins) -> Seq(T)]
    BY <2>1
  <2> HIDE DEF g
  <2> QED BY <1>4, <2>2, FunctionIsSeq
<1> HIDE DEF g
<1>7. Names(text) = g
  BY DEF Names, begins, EndOf, Nth, g
<1> QED BY <1>6, <1>7

\* A list that is made step by step is of the set that every step stays in.
IsStep(step, n, X) == step \in [1 .. n -> [X -> X]]

Made(g, step, n, X, a) ==
    g \in [0 .. n -> X] /\ g[0] = a /\ \A i \in 1 .. n : g[i] = step[i][g[i - 1]]

LEMMA MadeInSteps ==
  ASSUME NEW n \in Nat, NEW X, NEW a \in X, NEW step, IsStep(step, n, X)
  PROVE  \E g : Made(g, step, n, X, a)
<1> USE DEF IsStep, Made
<1> DEFINE Upto(m, g) == g \in [0 .. m -> X] /\ g[0] = a
                           /\ \A i \in 1 .. m : g[i] = step[i][g[i - 1]]
           T == {m \in Nat : m <= n /\ ~\E g : Upto(m, g)}
<1> SUFFICES T = {}
  OBVIOUS
<1> SUFFICES ASSUME T # {} PROVE FALSE
  OBVIOUS
<1>1. PICK m \in T : \A k \in T : m <= k
  BY LeastNumber
<1>2. CASE m = 0
  <2>1. Upto(0, [i \in 0 .. 0 |-> a])
    OBVIOUS
  <2> QED BY <1>1, <1>2, <2>1
<1>3. CASE m # 0
  <2>1. m - 1 \in Nat /\ m - 1 <= n /\ m - 1 \notin T /\ m \in 1 .. n
    <3>1. m \in Nat /\ m <= n
      BY <1>1
    <3>2. m - 1 \in Nat /\ m - 1 <= n /\ ~(m <= m - 1) /\ m \in 1 .. n
      BY <1>3, <3>1
    <3> HIDE DEF T
    <3> QED BY <1>1, <3>2
  <2>2. PICK g : Upto(m - 1, g)
    BY <2>1
  <2> DEFINE h == [i \in 0 .. m |-> IF i = m THEN step[m][g[m - 1]] ELSE g[i]]
  <2>3. step[m][g[m - 1]] \in X
    <3>1. g[m - 1] \in X
      BY <2>1, <2>2
    <3> QED BY <2>1, <3>1
  <2>4. h \in [0 .. m -> X]
    BY <2>1, <2>2, <2>3
  <2>5. h[0] = a
    BY <2>1, <2>2
  <2>6. \A i \in 1 .. m : h[i] = step[i][h[i - 1]]
    <3> SUFFICES ASSUME NEW i \in 1 .. m PROVE h[i] = step[i][h[i - 1]]
      OBVIOUS
    <3>1. i - 1 \in 0 .. m /\ i - 1 # m /\ i \in 0 .. m /\ h[i - 1] = g[i - 1]
      BY <2>1
    <3>2. CASE i = m
      BY <3>1, <3>2
    <3>3. CASE i # m
      <4>1. i \in 1 .. m - 1
        BY <2>1, <3>3
      <4> QED BY <2>2, <3>1, <3>3, <4>1
    <3> QED BY <3>2, <3>3
  <2>7. Upto(m, h)
    BY <2>4, <2>5, <2>6
  <2> QED BY <1>1, <2>7
<1> QED BY <1>2, <1>3

\* What normalize() makes of the names before, when the next name comes.
WithName(relative, done, name) ==
    IF name = Dot \/ (name = DotDot /\ done = <<>> /\ ~relative) THEN done
    ELSE IF name # DotDot \/ done = <<>> \/ Last(done) = DotDot
    THEN Append(done, name)
    ELSE Front(done)

LEMMA NormalizedSteps ==
  ASSUME NEW T, NEW names \in Seq(Seq(T)), NEW relative \in BOOLEAN
  PROVE  \E left \in [0 .. Len(names) -> Seq(Seq(T))] :
           /\ left[0] = <<>> /\ Normalized(relative, names) = left[Len(names)]
           /\ \A i \in 1 .. Len(names) : left[i] = WithName(relative, left[i - 1], names[i])
<1> DEFINE n == Len(names)
           X == Seq(Seq(T))
           After1(i, done) == WithName(relative, done, names[i])
           Equation(g) == g = [i \in 0 .. n |-> IF i = 0 THEN <<>> ELSE After1(i, g[i - 1])]
           left == CHOOSE g : Equation(g)
           step == [i \in 1 .. n |-> [done \in X |-> After1(i, done)]]
<1>1. n \in Nat /\ <<>> \in X /\ \A i \in 1 .. n : names[i] \in Seq(T)
  OBVIOUS
<1>2. ASSUME NEW i \in 1 .. n, NEW done \in X PROVE After1(i, done) \in X
  <2>1. Append(done, names[i]) \in X
    BY <1>1, AppendProperties
  <2>2. Front(done) \in X
    <3>1. \A k \in 1 .. Len(done) - 1 : done[k] \in Seq(T)
      OBVIOUS
    <3> QED BY <3>1, SubSeqProperties DEF Front
  <2> QED BY <2>1, <2>2 DEF WithName
<1>3. step \in [1 .. n -> [X -> X]]
  BY <1>2
<1> HIDE DEF After1
<1>4. \E g : Equation(g)
  <2>1. PICK g \in [0 .. n -> X] : g[0] = <<>> /\ \A i \in 1 .. n : g[i] = step[i][g[i - 1]]
    <3> DEFINE none == <<>>
    <3>1. none \in X /\ IsStep(step, n, X)
      BY <1>3 DEF IsStep
    <3> HIDE DEF step, n, X, none
    <3>2. \E g : Made(g, step, n, X, none)
      BY <1>1, <3>1, MadeInSteps
    <3> QED BY <3>2 DEF Made, none
  <2>2. \A i \in 1 .. n : g[i] = After1(i, g[i - 1])
    <3> SUFFICES ASSUME NEW i \in 1 .. n PROVE g[i] = After1(i, g[i - 1])
      OBVIOUS
    <3>1. i - 1 \in 0 .. n
      BY <1>1
    <3>2. g[i - 1] \in X
      BY <2>1, <3>1
    <3> HIDE DEF X
    <3>3. step[i][g[i - 1]] = After1(i, g[i - 1])
      BY <3>2
    <3> HIDE DEF step
    <3> QED BY <2>1, <3>3
  <2>3. Equation(g)
    BY <1>1, <2>1, <2>2
  <2> QED BY <2>3
<1>5. Equation(left)
  <2> HIDE DEF Equation
  <2> QED BY <1>4
<1> HIDE DEF left
<1>6. /\ left = [i \in 0 .. n |-> left[i]] /\ left[0] = <<>>
      /\ \A i \in 1 .. n : left[i] = After1(i, left[i - 1])
  <2>1. 0 \in 0 .. n /\ \A i \in 1 .. n : i \in 0 .. n /\ i # 0
    BY <1>1
  <2> HIDE DEF n, X
  <2>2. left = [i \in 0 .. n |-> IF i = 0 THEN <<>> ELSE After1(i, left[i - 1])]
    BY <1>5
  <2> HIDE DEF Equation
  <2> QED BY <2>1, <2>2
<1>7. \A i \in 0 .. n : left[i] \in X
  <2> DEFINE U == {i \in Nat : i <= n /\ left[i] \notin X}
  <2> SUFFICES ASSUME U # {} PROVE FALSE
    BY <1>1
  <2>1. PICK i \in U : \A k \in U : i <= k
    BY LeastNumber
  <2>2. i # 0
    BY <1>1, <1>6, <2>1
  <2>3. i - 1 \in Nat /\ i - 1 <= n /\ i \in 1 .. n /\ ~(i <= i - 1)
    BY <1>1, <2>1, <2>2
  <2>4. left[i - 1] \in X
    BY <2>1, <2>3
  <2> QED BY <1>2, <1>6, <2>1, <2>3, <2>4
<1>8. Normalized(relative, names) = left[n]
  BY DEF Normalized, left, Equation, After1, WithName
<1>9. left \in [0 .. n -> X]
  BY <1>6, <1>7
<1> QED BY <1>6, <1>8, <1>9 DEF After1

LEMMA FlattenSteps ==
  ASSUME NEW T, NEW s \in Seq(Seq(T)), Len(s) # 0
  PROVE  \E flat \in [1 .. Len(s) -> Seq(T)] :
           /\ flat[1] = s[1] /\ FlattenSeq(s) = flat[Len(s)]
           /\ \A i \in 2 .. Len(s) : flat[i] = flat[i - 1] \o s[i]
<1> DEFINE n == Len(s)
           X == Seq(T)
           Equation(g) == g = [i \in 1 .. n |-> IF i = 1 THEN s[i] ELSE g[i - 1] \o s[i]]
           flat == CHOOSE g : Equation(g)
           step == [i \in 1 .. n |-> [done \in X |-> done \o s[i]]]
<1>1. n \in Nat \ {0} /\ <<>> \in X /\ \A i \in 1 .. n : s[i] \in X
  OBVIOUS
<1>2. ASSUME NEW i \in 1 .. n, NEW done \in X PROVE done \o s[i] \in X
  BY <1>1, ConcatProperties
<1>3. step \in [1 .. n -> [X -> X]]
  BY <1>2
<1>4. \E g : Equation(g)
  <2>1. PICK g \in [0 .. n -> X] : g[0] = <<>> /\ \A i \in 1 .. n : g[i] = step[i][g[i - 1]]
    <3> DEFINE none == <<>>
    <3>1. none \in X /\ IsStep(step, n, X)
      BY <1>3 DEF IsStep
    <3> HIDE DEF step, n, X, none
    <3>2. \E g : Made(g, step, n, X, none)
      BY <1>1, <3>1, MadeInSteps
    <3> QED BY <3>2 DEF Made, none
  <2>2. \A i \in 1 .. n : g[i] = g[i - 1] \o s[i]
    <3> SUFFICES ASSUME NEW i \in 1 .. n PROVE g[i] = g[i - 1] \o s[i]
      OBVIOUS
    <3>1. i - 1 \in 0 .. n
      BY <1>1
    <3>2. g[i - 1] \in X
      BY <2>1, <3>1
    <3> HIDE DEF X
    <3>3. step[i][g[i - 1]] = g[i - 1] \o s[i]
      BY <3>2
    <3> HIDE DEF step
    <3> QED BY <2>1, <3>3
  <2> DEFINE h == [i \in 1 .. n |-> g[i]]
  <2>3. g[1] = s[1]
    <3>1. 1 \in 1 .. n /\ 1 - 1 = 0
      BY <1>1
    <3>2. s[1] \in X
      BY <1>1, <3>1
    <3>3. g[1] = g[1 - 1] \o s[1]
      <4> HIDE DEF n, X, step
      <4> QED BY <2>2, <3>1
    <3>4. g[1] = <<>> \o s[1]
      <4> HIDE DEF n, X, step
      <4> QED BY <2>1, <3>1, <3>3
    <3> QED BY <3>2, <3>4, ConcatEmptySeq
  <2>4. \A i \in 1 .. n : i # 1 => i - 1 \in 1 .. n
    BY <1>1
  <2>5. Equation(h)
    <3> HIDE DEF X, step, n
    <3> QED BY <2>2, <2>3, <2>4
  <2> QED BY <2>5
<1>5. Equation(flat)
  <2> HIDE DEF Equation
  <2> QED BY <1>4
<1> HIDE DEF flat
<1>6. /\ flat = [i \in 1 .. n |-> flat[i]] /\ flat[1] = s[1]
      /\ \A i \in 2 .. n : flat[i] = flat[i - 1] \o s[i]
  <2>1. 1 \in 1 .. n /\ \A i \in 2 .. n : i \in 1 .. n /\ i # 1
    BY <1>1
  <2> HIDE DEF n, X
  <2>2. flat = [i \in 1 .. n |-> IF i = 1 THEN s[i] ELSE flat[i - 1] \o s[i]]
    BY <1>5
  <2> HIDE DEF Equation
  <2> QED BY <2>1, <2>2
<1>7. \A i \in 1 .. n : flat[i] \in X
  <2> DEFINE U == {i \in Nat : i \in 1 .. n /\ flat[i] \notin X}
  <2>0. \A i \in 1 .. n : i \in Nat
    BY <1>1
  <2> HIDE DEF n, X
  <2> SUFFICES ASSUME U # {} PROVE FALSE
    BY <2>0
  <2> USE DEF n
  <2>1. PICK i \in U : \A k \in U : i <= k
    BY LeastNumber
  <2>2. i # 1
    BY <1>1, <1>6, <2>1
  <2>3. i - 1 \in Nat /\ i - 1 \in 1 .. n /\ i \in 2 .. n /\ i \in 1 .. n /\ ~(i <= i - 1)
    BY <1>1, <2>1, <2>2
  <2>4. flat[i - 1] \in X
    BY <2>1, <2>3
  <2>5. flat[i - 1] \o s[i] \in X
    BY <1>2, <2>3, <2>4
  <2> QED BY <1>6, <2>1, <2>3, <2>5
<1>8. FlattenSeq(s) = flat[n]
  BY DEF FlattenSeq, flat, Equation
<1>9. flat \in [1 .. n -> X]
  BY <1>6, <1>7
<1> QED BY <1>6, <1>8, <1>9

Path(T) == [relative : BOOLEAN, names : Seq(Seq(T))]

LEMMA PathType ==
  ASSUME NEW T, NEW text \in Seq(T)
  PROVE  PathOf(text) \in Path(T)
<1>1. Names(text) \in Seq(Seq(T))
  BY NamesType
<1>2. PICK relative \in BOOLEAN : relative = (text = <<>> \/ text[1] # Slash)
  OBVIOUS
<1>3. Normalized(relative, Names(text)) \in Seq(Seq(T))
  <2>1. Len(Names(text)) \in 0 .. Len(Names(text))
    BY <1>1
  <2> QED BY <1>1, <2>1, NormalizedSteps
<1> QED BY <1>2, <1>3 DEF PathOf, Path

LEMMA TextType ==
  ASSUME NEW T, {Slash, "."} \subseteq T, NEW path \in Path(T)
  PROVE  /\ Text(path) \in Seq(T)
         /\ ~path.relative => Len(Text(path)) # 0 /\ Text(path)[1] = Slash
<1> DEFINE parts == [i \in DOMAIN path.names |->
                        IF i = 1 THEN path.names[i] ELSE <<Slash>> \o path.names[i]]
           joined == FlattenSeq(parts)
<1>1. path.names \in Seq(Seq(T))
  BY DEF Path
<1>2. DOMAIN path.names = 1 .. Len(path.names) /\ Len(path.names) \in Nat
  BY <1>1
<1>3. <<Slash>> \in Seq(T) /\ Dot \in Seq(T)
  BY DEF Dot
<1>4. parts \in Seq(Seq(T))
  <2>1. \A i \in 1 .. Len(path.names) : path.names[i] \in Seq(T)
    BY <1>1
  <2>2. \A i \in 1 .. Len(path.names) : <<Slash>> \o path.names[i] \in Seq(T)
    BY <1>3, <2>1, ConcatProperties
  <2>3. parts \in [1 .. Len(path.names) -> Seq(T)]
    BY <1>2, <2>1, <2>2
  <2> HIDE DEF parts
  <2> QED BY <1>2, <2>3, FunctionIsSeq
<1> HIDE DEF parts
<1>5. joined \in Seq(T)
  <2>1. CASE Len(parts) = 0
    <3>1. joined = parts /\ parts = <<>>
      BY <1>4, <2>1, EmptySeq DEF FlattenSeq
    <3> QED BY <3>1
  <2>2. CASE Len(parts) # 0
    <3>1. Len(parts) \in 1 .. Len(parts)
      BY <1>4, <2>2
    <3>2. PICK flat \in [1 .. Len(parts) -> Seq(T)] : joined = flat[Len(parts)]
      BY <1>4, <2>2, FlattenSteps
    <3> QED BY <3>1, <3>2
  <2> QED BY <2>1, <2>2
<1> HIDE DEF joined
<1>6. Text(path) = IF ~path.relative THEN <<Slash>> \o joined
                   ELSE IF joined = <<>> THEN Dot ELSE joined
  BY DEF Text, joined, parts
<1>7. /\ <<Slash>> \o joined \in Seq(T)
      /\ Len(<<Slash>> \o joined) # 0 /\ (<<Slash>> \o joined)[1] = Slash
  <2>1. Len(<<Slash>>) = 1 /\ <<Slash>>[1] = Slash /\ Len(joined) \in Nat
    BY <1>5
  <2>2. 1 \in 1 .. Len(<<Slash>>) + Len(joined) /\ 1 <= Len(<<Slash>>)
        /\ Len(<<Slash>>) + Len(joined) # 0
    BY <2>1
  <2> QED BY <1>3, <1>5, <2>1, <2>2, ConcatProperties
<1> QED BY <1>3, <1>5, <1>6, <1>7

-----------------------------------------------------------------------------
(* The parts of a URI *)

Ports == {0} \cup {Port(n) : n \in Nat}

\* The parts of a URI whose user information is of other characters than the rest.
Uris(T, I) ==
    [scheme : Seq(T), userinfo : Seq(I), user : Seq(I), password : Seq(I), host : Seq(T),
     port : Ports, path : Path(T), query : Seq(T), fragment : Seq(T)]

LEMMA EmptyType ==
  ASSUME NEW T, NEW I
  PROVE  Empty \in Uris(T, I)
<1>1. NoPath \in Path(T)
  BY DEF NoPath, Path
<1>2. \A S : <<>> \in Seq(S)
  OBVIOUS
<1>3. 0 \in Ports
  BY DEF Ports
<1> QED BY <1>1, <1>2, <1>3 DEF Empty, Uris

LEMMA BetweenType ==
  ASSUME NEW u, NEW T, NEW p \in Nat, NEW q \in Nat, \A i \in p .. q - 1 : u[i] \in T
  PROVE  Between(u, p, q) \in Seq(T)
BY SubSeqProperties DEF Between

LEMMA UnescapeType ==
  ASSUME NEW I, "@" \in I, NEW text \in Seq(I)
  PROVE  unescape(text) \in Seq(I)
<1>1. DOMAIN text = 1 .. Len(text) /\ Len(text) \in Nat /\ \A i \in 1 .. Len(text) : text[i] \in I
  OBVIOUS
<1>2. unescape(text) \in [1 .. Len(text) -> I]
  BY <1>1 DEF unescape
<1> QED BY <1>1, <1>2, FunctionIsSeq

LEMMA SplitUserType ==
  ASSUME NEW T, NEW I, NEW J, "@" \in J, NEW uri \in Uris(T, I), NEW info \in Seq(J)
  PROVE  SplitUser(uri, info) \in Uris(T, J) /\ SplitUser(uri, info).userinfo = info
<1> DEFINE c == Skip(info, 1, regnameChar)
           user == IF c > Len(info) THEN <<>> ELSE unescape(Between(info, 1, c))
           password == unescape(SubSeq(info, c + 1, Len(info)))
<1>1. Len(info) \in Nat /\ \A i \in 1 .. Len(info) : info[i] \in J
  OBVIOUS
<1>2. c \in 1 .. Len(info) + 1
  <2>1. 1 \in 1 .. Len(info) + 1
    BY <1>1
  <2> QED BY <1>1, <2>1, SkipStops, CharsApart
<1> HIDE DEF c
<1>3. user \in Seq(J)
  <2>1. Between(info, 1, c) \in Seq(J)
    BY <1>1, <1>2, BetweenType
  <2> QED BY <2>1, UnescapeType
<1>4. password \in Seq(J)
  <2>1. SubSeq(info, c + 1, Len(info)) \in Seq(J)
    BY <1>1, <1>2, SubSeqProperties
  <2> QED BY <2>1, UnescapeType
<1>5. SplitUser(uri, info) =
        [uri EXCEPT !.userinfo = info, !.user = user, !.password = password]
  BY DEF SplitUser, c, user, password
<1> HIDE DEF user, password
<1> QED BY <1>3, <1>4, <1>5 DEF Uris

LEMMA RestType ==
  ASSUME NEW u, Len(u) \in Nat, NEW p \in 1 .. Len(u) + 1, NEW T, NEW I,
         NEW uri \in Uris(T, I), \A i \in p .. Len(u) : u[i] \in T
  PROVE  Rest(u, p, uri).uri \in Uris(T, I)
<1> DEFINE path == Skip(u, p, pcharSlash)
           query == IF TokenAt(u, path) = "?" THEN Skip(u, path + 1, queryChar) ELSE path
           end == IF TokenAt(u, query) = "#" THEN Skip(u, query + 1, queryChar) ELSE query
           place == IF path = p THEN NoPath ELSE PathOf(Between(u, p, path))
<1>1. path \in p .. Len(u) + 1 /\ path \in Nat
  BY SkipStops, CharsApart
<1> HIDE DEF path
<1>2. \A i : TokenAt(u, i) \in {"?", "#"} => i <= Len(u)
  BY DEF TokenAt, Nul
<1>3. query \in path .. Len(u) + 1 /\ query \in Nat
  <2>1. CASE TokenAt(u, path) = "?"
    <3>1. path + 1 \in 1 .. Len(u) + 1
      BY <1>1, <1>2, <2>1
    <3>2. query \in path + 1 .. Len(u) + 1
      BY <2>1, <3>1, SkipStops, CharsApart
    <3> HIDE DEF query
    <3> QED BY <1>1, <3>2
  <2>2. CASE TokenAt(u, path) # "?"
    BY <1>1, <2>2
  <2> QED BY <2>1, <2>2
<1> HIDE DEF query
<1>4. end \in query .. Len(u) + 1 /\ end \in Nat
  <2>1. CASE TokenAt(u, query) = "#"
    <3>1. query + 1 \in 1 .. Len(u) + 1
      BY <1>1, <1>2, <1>3, <2>1
    <3>2. end \in query + 1 .. Len(u) + 1
      BY <2>1, <3>1, SkipStops, CharsApart
    <3> HIDE DEF end
    <3> QED BY <1>3, <3>2
  <2>2. CASE TokenAt(u, query) # "#"
    BY <1>3, <2>2
  <2> QED BY <2>1, <2>2
<1> HIDE DEF end
<1>5. place \in Path(T)
  <2>1. Between(u, p, path) \in Seq(T)
    <3>1. p \in Nat /\ \A i \in p .. path - 1 : i \in p .. Len(u)
      BY <1>1
    <3>2. \A i \in p .. path - 1 : u[i] \in T
      BY <3>1
    <3> QED BY <1>1, <3>1, <3>2, BetweenType
  <2>2. NoPath \in Path(T)
    BY DEF NoPath, Path
  <2> QED BY <2>1, <2>2, PathType
<1>6. Between(u, path + 1, query) \in Seq(T)
  <2>1. path + 1 \in Nat /\ \A i \in path + 1 .. query - 1 : i \in p .. Len(u)
    BY <1>1, <1>3
  <2>2. \A i \in path + 1 .. query - 1 : u[i] \in T
    BY <2>1
  <2> QED BY <1>3, <2>1, <2>2, BetweenType
<1>7. Between(u, query + 1, end) \in Seq(T)
  <2>1. query + 1 \in Nat /\ \A i \in query + 1 .. end - 1 : i \in p .. Len(u)
    BY <1>1, <1>3, <1>4
  <2>2. \A i \in query + 1 .. end - 1 : u[i] \in T
    BY <2>1
  <2> QED BY <1>4, <2>1, <2>2, BetweenType
<1>8. Rest(u, p, uri).uri =
        [uri EXCEPT !.path = place, !.query = Between(u, path + 1, query),
                    !.fragment = Between(u, query + 1, end)]
  BY DEF Rest, Parsed, path, query, end, place
<1> HIDE DEF place
<1> QED BY <1>5, <1>6, <1>7, <1>8 DEF Uris

LEMMA AuthorityType ==
  ASSUME NEW u, Len(u) \in Nat, NEW p \in 1 .. Len(u) - 1, NEW T, NEW I, "@" \in I,
         NEW uri \in Uris(T, I), {u[p], u[p + 1]} \subseteq T,
         \A i \in p + 2 .. Len(u) : u[i] \in I,
         \A i \in p + 2 .. Len(u) : u[i] \in T
             \/ (TokenAt(u, Skip(u, p + 2, userinfoChar)) = "@" /\ i < Skip(u, p + 2, userinfoChar))
  PROVE  Authority(u, p, uri).uri \in Uris(T, I)
<1> DEFINE q == Skip(u, p + 2, userinfoChar)
           given == TokenAt(u, q) = "@"
           info == IF given THEN Between(u, p + 2, q) ELSE <<>>
           h == HostFrom(given, p, q)
           e == Skip(u, h, regnameChar)
           z == IF TokenAt(u, e) = ":" THEN Skip(u, e + 1, {Digit}) ELSE e
           port == IF z = e THEN 0 ELSE Port(z - e - 1)
           known == [SplitUser(uri, info) EXCEPT !.host = Between(u, h, e), !.port = port]
<1>1. p + 2 \in 1 .. Len(u) + 1 /\ p \in Nat
  OBVIOUS
<1>2. q \in p + 2 .. Len(u) + 1 /\ q \in Nat
  <2> HIDE DEF q
  <2>1. q \in p + 2 .. Len(u) + 1
    BY <1>1, SkipStops, CharsApart DEF q
  <2> QED BY <2>1
<1>3. \A i \in p + 2 .. Len(u) : u[i] \in T \/ (given /\ i < q)
  OBVIOUS
<1> HIDE DEF q
<1>4. \A i : TokenAt(u, i) \in {"@", ":"} => i <= Len(u)
  BY DEF TokenAt, Nul
<1>5. h \in 1 .. Len(u) + 1 /\ h \in Nat /\ \A i \in h .. Len(u) : u[i] \in T
  <2>1. CASE given
    <3>1. h = q + 1 /\ q <= Len(u)
      BY <1>4, <2>1 DEF HostFrom
    <3> HIDE DEF h, given
    <3>2. h \in 1 .. Len(u) + 1 /\ h \in Nat /\ \A i \in h .. Len(u) : i \in p + 2 .. Len(u) /\ ~(i < q)
      BY <1>1, <1>2, <3>1
    <3> QED BY <1>3, <3>2
  <2>2. CASE ~given
    <3>1. h = p
      BY <2>2 DEF HostFrom
    <3>2. \A i \in p .. Len(u) : i = p \/ i = p + 1 \/ i \in p + 2 .. Len(u)
      BY <1>1
    <3> HIDE DEF h, given
    <3>3. h \in 1 .. Len(u) + 1
      BY <3>1
    <3> QED BY <1>1, <1>3, <2>2, <3>1, <3>2, <3>3
  <2> QED BY <2>1, <2>2
<1>6. info \in Seq(I)
  <2>1. \A i \in p + 2 .. q - 1 : u[i] \in I
    BY <1>2
  <2>2. Between(u, p + 2, q) \in Seq(I)
    BY <1>1, <1>2, <2>1, BetweenType
  <2> HIDE DEF given
  <2> QED BY <2>2
<1> HIDE DEF given, h
<1>7. e \in h .. Len(u) + 1 /\ e \in Nat
  <2>1. e \in h .. Len(u) + 1
    BY <1>5, SkipStops, CharsApart
  <2> HIDE DEF e
  <2> QED BY <1>5, <2>1
<1> HIDE DEF e
<1>8. z \in e .. Len(u) + 1 /\ z \in Nat /\ (z # e => z - e - 1 \in Nat)
  <2>1. CASE TokenAt(u, e) = ":"
    <3>1. e + 1 \in 1 .. Len(u) + 1
      BY <1>4, <1>5, <1>7, <2>1
    <3>2. z \in e + 1 .. Len(u) + 1
      BY <2>1, <3>1, SkipStops, CharsApart
    <3> HIDE DEF z
    <3> QED BY <1>7, <3>2
  <2>2. CASE TokenAt(u, e) # ":"
    BY <1>7, <2>2
  <2> QED BY <2>1, <2>2
<1> HIDE DEF z
<1>9. port \in Ports
  BY <1>8 DEF Ports
<1> HIDE DEF info, port
<1>10. known \in Uris(T, I)
  <2>1. SplitUser(uri, info) \in Uris(T, I)
    BY <1>6, SplitUserType
  <2>2. Between(u, h, e) \in Seq(T)
    <3>1. \A i \in h .. e - 1 : u[i] \in T
      BY <1>5, <1>7
    <3> QED BY <1>5, <1>7, <3>1, BetweenType
  <2> QED BY <1>9, <2>1, <2>2 DEF Uris
<1> HIDE DEF known
<1>11. z \in 1 .. Len(u) + 1 /\ \A i \in z .. Len(u) : u[i] \in T
  BY <1>5, <1>7, <1>8
<1>12. Rest(u, z, known).uri \in Uris(T, I)
  BY <1>10, <1>11, RestType
<1>13. Authority(u, p, uri) \in {Throws(uri), Parsed(FALSE, Empty), Rest(u, z, known)}
  BY DEF Authority, q, given, info, h, e, z, port, known
<1>14. Throws(uri).uri = uri /\ Parsed(FALSE, Empty).uri = Empty
  BY DEF Throws, Parsed
<1>15. Empty \in Uris(T, I)
  BY EmptyType
<1> QED BY <1>12, <1>13, <1>14, <1>15

\* Where the parser has its authority, and what it takes for the user information.
AtAuthority(u, s) ==
    /\ TokenAt(u, 1) \in Word /\ TokenAt(u, s) = ":"
    /\ TokenAt(u, s + 1) = Slash /\ TokenAt(u, s + 2) = Slash

TakenForUserinfo(u, i) ==
    LET s == Skip(u, 1, schemeChar)
        q == Skip(u, s + 3, userinfoChar)
    IN AtAuthority(u, s) /\ TokenAt(u, q) = "@" /\ i \in s + 3 .. q - 1

\* Whatever is not taken for user information makes up the other parts.
LEMMA ParseType ==
  ASSUME NEW u, Len(u) \in Nat, NEW T, NEW I, "@" \in I,
         \A i \in 1 .. Len(u) : u[i] \in I /\ (u[i] \in T \/ TakenForUserinfo(u, i))
  PROVE  Parse(u).uri \in Uris(T, I)
<1> DEFINE s == Skip(u, 1, schemeChar)
           q == Skip(u, s + 3, userinfoChar)
           uri == [Empty EXCEPT !.scheme = Between(u, 1, s)]
<1>1. 1 \in 1 .. Len(u) + 1
  OBVIOUS
<1>2. s \in 1 .. Len(u) + 1 /\ s \in Nat
  <2> HIDE DEF s
  <2>1. s \in 1 .. Len(u) + 1
    BY <1>1, SkipStops, CharsApart DEF s
  <2> QED BY <2>1
<1>3. \A i \in 1 .. Len(u) : u[i] \in T \/ (AtAuthority(u, s) /\ TokenAt(u, q) = "@"
                                             /\ i \in s + 3 .. q - 1)
  BY DEF TakenForUserinfo
<1>4. Empty \in Uris(T, I)
  BY EmptyType
<1> HIDE DEF s
<1>5. uri \in Uris(T, I)
  <2>1. \A i \in 1 .. s - 1 : i \in 1 .. Len(u) /\ i \notin s + 3 .. q - 1
    BY <1>2
  <2>2. \A i \in 1 .. s - 1 : u[i] \in T
    <3> HIDE DEF q
    <3> QED BY <1>3, <2>1
  <2>3. Between(u, 1, s) \in Seq(T)
    BY <1>2, <2>2, BetweenType
  <2> QED BY <1>4, <2>3 DEF Uris
<1>6. \A i : TokenAt(u, i) \in {":", Slash} => i <= Len(u)
  BY DEF TokenAt, Nul, Slash
<1>7. CASE AtAuthority(u, s)
  <2>1. Parse(u) = Authority(u, s + 1, uri)
    BY <1>7 DEF Parse, AtAuthority, s
  <2> HIDE DEF uri
  <2>2. s + 2 <= Len(u) /\ s + 1 \in 1 .. Len(u) - 1 /\ s \in 1 .. Len(u)
    BY <1>2, <1>6, <1>7 DEF AtAuthority
  <2>3. (s + 1) + 2 = s + 3 /\ (s + 1) + 1 = s + 2
    BY <1>2
  <2>4. q = Skip(u, (s + 1) + 2, userinfoChar)
    BY <2>3
  <2> HIDE DEF q
  <2>5. \A i \in 1 .. Len(u) : i < s + 3 => u[i] \in T
    BY <1>2, <1>3
  <2>6. {u[s + 1], u[(s + 1) + 1]} \subseteq T
    <3>1. s + 1 \in 1 .. Len(u) /\ s + 2 \in 1 .. Len(u) /\ s + 1 < s + 3 /\ s + 2 < s + 3
      BY <1>2, <2>2
    <3> QED BY <2>3, <2>5, <3>1
  <2>7. \A i \in (s + 1) + 2 .. Len(u) : i \in 1 .. Len(u)
    BY <1>2
  <2>8. \A i \in (s + 1) + 2 .. Len(u) : u[i] \in T \/ (TokenAt(u, q) = "@" /\ i < q)
    <3> SUFFICES ASSUME NEW i \in (s + 1) + 2 .. Len(u), u[i] \notin T
                 PROVE  TokenAt(u, q) = "@" /\ i < q
      OBVIOUS
    <3>1. i \in 1 .. Len(u)
      BY <2>7
    <3>2. TokenAt(u, q) = "@" /\ i \in s + 3 .. q - 1
      BY <1>3, <3>1
    <3>3. q \in Int
      <4>1. s + 3 \in 1 .. Len(u) + 1
        BY <1>2, <2>2
      <4>2. q \in s + 3 .. Len(u) + 1
        BY <4>1, SkipStops, CharsApart DEF q
      <4> QED BY <1>2, <4>2
    <3> QED BY <1>2, <3>2, <3>3
  <2>9. \A i \in (s + 1) + 2 .. Len(u) : u[i] \in I
    BY <2>7
  <2>10. Authority(u, s + 1, uri).uri \in Uris(T, I)
    BY <1>5, <2>2, <2>4, <2>6, <2>8, <2>9, AuthorityType
  <2> QED BY <2>1, <2>10
<1>8. CASE ~AtAuthority(u, s)
  <2>1. \A i \in 1 .. Len(u) : u[i] \in T
    BY <1>3, <1>8
  <2>2. \/ Parse(u) = Rest(u, 1, Empty)
        \/ Parse(u) = Rest(u, s + 1, uri) /\ TokenAt(u, s) = ":"
    BY <1>8 DEF Parse, AtAuthority, s
  <2> HIDE DEF uri, q
  <2>3. CASE Parse(u) = Rest(u, 1, Empty)
    BY <1>1, <1>4, <2>1, <2>3, RestType
  <2>4. CASE Parse(u) = Rest(u, s + 1, uri) /\ TokenAt(u, s) = ":"
    <3>1. s + 1 \in 1 .. Len(u) + 1 /\ \A i \in s + 1 .. Len(u) : i \in 1 .. Len(u)
      BY <1>2, <1>6, <2>4
    <3> QED BY <1>5, <2>1, <2>4, <3>1, RestType
  <2> QED BY <2>2, <2>3, <2>4
<1> QED BY <1>7, <1>8

LEMMA PrintedType ==
  ASSUME NEW T, Added \subseteq T, NEW I, NEW uri \in Uris(T, I), uri.userinfo \in Seq(T)
  PROVE  Printed(uri) \in Seq(T)
<1> DEFINE absolute == ~uri.path.relative
           port == If(uri.port # 0, <<":", Digit>>)
           scheme == If(uri.scheme # <<>>, uri.scheme \o <<":">>)
           info == If(uri.userinfo # <<>>, uri.userinfo \o <<"@">>)
           authority == <<Slash, Slash>> \o info \o uri.host \o port
           path == If(~IsEmpty(uri.path) \/ absolute, Text(uri.path))
           query == If(uri.query # <<>>, <<"?">> \o uri.query)
           fragment == If(uri.fragment # <<>>, <<"#">> \o uri.fragment)
           front == If(uri.userinfo # <<>> \/ uri.host # <<>> \/ uri.port # 0 \/ absolute, authority)
<1>1. \A c, s : s \in Seq(T) => If(c, s) \in Seq(T)
  BY DEF If
<1>2. \A r, s \in Seq(T) : r \o s \in Seq(T)
  BY ConcatProperties
<1>3. /\ <<":">> \in Seq(T) /\ <<"@">> \in Seq(T) /\ <<"?">> \in Seq(T) /\ <<"#">> \in Seq(T)
      /\ <<Slash, Slash>> \in Seq(T) /\ <<":", Digit>> \in Seq(T)
  BY DEF Added
<1>4. /\ uri.scheme \in Seq(T) /\ uri.host \in Seq(T) /\ uri.query \in Seq(T)
      /\ uri.fragment \in Seq(T) /\ uri.path \in Path(T)
  BY DEF Uris
<1>5. Text(uri.path) \in Seq(T)
  BY <1>4, TextType DEF Added
<1>6. port \in Seq(T) /\ scheme \in Seq(T) /\ info \in Seq(T) /\ query \in Seq(T)
      /\ fragment \in Seq(T) /\ path \in Seq(T)
  BY <1>1, <1>2, <1>3, <1>4, <1>5
<1>7. Printed(uri) = scheme \o front \o path \o query \o fragment
  BY DEF Printed
<1> HIDE DEF port, scheme, info, query, fragment, path
<1>8. front \in Seq(T)
  BY <1>1, <1>2, <1>3, <1>4, <1>6
<1> HIDE DEF front
<1> QED BY <1>2, <1>6, <1>7, <1>8

-----------------------------------------------------------------------------
(* What is logged of a URI *)

LEMMA SkipIs ==
  ASSUME NEW u, Len(u) \in Nat, NEW p \in 1 .. Len(u) + 1, NEW chars, Nul \notin chars,
         NEW q \in p .. Len(u) + 1, TokenAt(u, q) \notin chars,
         \A i \in p .. q - 1 : u[i] \in chars
  PROVE  Skip(u, p, chars) = q
<1> DEFINE s == Skip(u, p, chars)
<1>1. s \in p .. Len(u) + 1 /\ TokenAt(u, s) \notin chars /\ \A i \in p .. s - 1 : u[i] \in chars
  <2> HIDE DEF s
  <2> QED BY SkipStops DEF s
<1> HIDE DEF s
<1>2. CASE s < q
  <2>1. s \in p .. q - 1 /\ s <= Len(u)
    BY <1>1, <1>2
  <2> QED BY <1>1, <2>1 DEF TokenAt
<1>3. CASE q < s
  <2>1. q \in p .. s - 1 /\ q <= Len(u)
    BY <1>1, <1>3
  <2> QED BY <1>1, <2>1 DEF TokenAt
<1> QED BY <1>1, <1>2, <1>3 DEF s

\* RFC 3986 and the parser find the scheme alike.
LEMMA SchemeFound ==
  ASSUME NEW u \in Seq(Token), HasAuthority(u)
  PROVE  LET colon == FirstOf(u, 1, {":"}) IN
         /\ colon \in 1 .. Len(u) /\ colon + 2 <= Len(u)
         /\ Skip(u, 1, schemeChar) = colon /\ AtAuthority(u, colon)
<1> DEFINE colon == FirstOf(u, 1, {":"})
<1>1. Len(u) \in Nat /\ 1 \in 1 .. Len(u) + 1
  OBVIOUS
<1>2. /\ colon \in 1 .. Len(u) + 1 /\ TokenAt(u, colon) \in {":"} \cup {Nul}
      /\ \A i \in 1 .. colon - 1 : u[i] \notin {":"}
  <2> HIDE DEF colon
  <2> QED BY <1>1, FirstOfStops DEF colon
<1>3. /\ TokenAt(u, 1) \in Word /\ \A i \in 2 .. colon - 1 : u[i] \in schemeChar
      /\ TokenAt(u, colon + 1) = Slash /\ TokenAt(u, colon + 2) = Slash
  BY DEF HasAuthority
<1> HIDE DEF colon
<1>4. \A i : TokenAt(u, i) # Nul => i <= Len(u)
  BY DEF TokenAt
<1>5. Slash # Nul /\ ":" # Nul
  BY DEF Slash, Nul
<1>6. colon + 1 <= Len(u) /\ colon + 2 <= Len(u)
  BY <1>3, <1>4, <1>5
<1>7. colon \in 1 .. Len(u) /\ TokenAt(u, colon) = u[colon] /\ u[colon] # Nul
  <2>1. colon \in 1 .. Len(u)
    BY <1>1, <1>2, <1>6
  <2> QED BY <2>1, TokensApart DEF TokenAt
<1>8. TokenAt(u, colon) = ":"
  BY <1>2, <1>7
<1>9. \A i \in 1 .. colon - 1 : u[i] \in schemeChar
  <2>1. u[1] \in schemeChar
    <3>1. TokenAt(u, 1) = u[1]
      BY <1>1, <1>6, <1>7 DEF TokenAt
    <3> QED BY <1>3, <3>1, CharsApart
  <2>2. \A i \in 1 .. colon - 1 : i = 1 \/ i \in 2 .. colon - 1
    BY <1>7
  <2> QED BY <1>3, <2>1, <2>2
<1>10. Skip(u, 1, schemeChar) = colon
  BY <1>1, <1>2, <1>8, <1>9, SkipIs, CharsApart
<1> QED BY <1>3, <1>6, <1>7, <1>8, <1>10 DEF colon, AtAuthority

\* The user information of a URI that has none but its characters is what the
\* parser takes for it.
LEMMA UserinfoFound ==
  ASSUME NEW u \in Seq(Token), HasAuthority(u),
         ToSet(Written(u).userinfo) \subseteq userinfoChar,
         NEW i \in UserinfoPlace(u)
  PROVE  TakenForUserinfo(u, i)
<1> DEFINE colon == FirstOf(u, 1, {":"})
           end == FirstOf(u, colon + 3, {Slash, "?", "#"})
           atSign == FirstOf(u, colon + 3, {"@"})
           info == Between(u, colon + 3, atSign)
           first == colon + 3
<1>1. /\ Len(u) \in Nat /\ colon \in 1 .. Len(u) /\ colon + 2 <= Len(u)
      /\ Skip(u, 1, schemeChar) = colon /\ AtAuthority(u, colon)
  BY SchemeFound
<1>2. Written(u).userinfo = If(atSign < end, info)
  BY DEF Written
<1>3. UserinfoPlace(u) = first .. first + Len(Written(u).userinfo) - 1
  BY DEF UserinfoPlace
<1> HIDE DEF colon
<1>4. first \in 1 .. Len(u) + 1 /\ first \in Nat
  BY <1>1
<1> HIDE DEF first
<1>5. end \in first .. Len(u) + 1
  <2> HIDE DEF end
  <2> QED BY <1>1, <1>4, FirstOfStops DEF end, first
<1>6. atSign \in first .. Len(u) + 1 /\ TokenAt(u, atSign) \in {"@"} \cup {Nul}
  <2> HIDE DEF atSign
  <2> QED BY <1>1, <1>4, FirstOfStops DEF atSign, first
<1> HIDE DEF end, atSign
<1>7. Len(<<>>) = 0
  OBVIOUS
<1>8. atSign < end
  <2> SUFFICES ASSUME ~(atSign < end) PROVE FALSE
    OBVIOUS
  <2>1. Written(u).userinfo = <<>>
    BY <1>2 DEF If
  <2>2. i \in first .. first + 0 - 1
    BY <1>3, <1>7, <2>1
  <2> QED BY <1>4, <2>2
<1>9. Written(u).userinfo = info
  BY <1>2, <1>8 DEF If
<1>10. atSign \in Nat /\ atSign <= Len(u) /\ TokenAt(u, atSign) = u[atSign] /\ u[atSign] = "@"
  <2>1. atSign \in 1 .. Len(u)
    BY <1>1, <1>4, <1>5, <1>6, <1>8
  <2>2. TokenAt(u, atSign) = u[atSign] /\ u[atSign] # Nul
    BY <2>1, TokensApart DEF TokenAt
  <2> QED BY <1>6, <2>1, <2>2
<1>11. /\ info \in Seq(Token) /\ Len(info) = atSign - first
       /\ \A k \in 1 .. atSign - first : info[k] = u[first + k - 1]
  <2>1. \A k \in first .. atSign - 1 : u[k] \in Token
    BY <1>4, <1>10
  <2>2. info = SubSeq(u, first, atSign - 1)
    BY DEF first, Between
  <2> HIDE DEF info
  <2>3. first \in Int /\ atSign - 1 \in Int /\ (first <= atSign - 1 => atSign - 1 - first + 1 = atSign - first)
        /\ (~(first <= atSign - 1) => atSign - first = 0)
    BY <1>4, <1>6, <1>10
  <2>4. /\ SubSeq(u, first, atSign - 1) \in Seq(Token)
        /\ Len(SubSeq(u, first, atSign - 1))
             = IF first <= atSign - 1 THEN atSign - 1 - first + 1 ELSE 0
        /\ \A k \in 1 .. atSign - 1 - first + 1 : SubSeq(u, first, atSign - 1)[k] = u[first + k - 1]
    BY <2>1, <2>3, SubSeqProperties
  <2>5. atSign - 1 - first + 1 = atSign - first
    BY <1>4, <1>10
  <2> QED BY <2>2, <2>3, <2>4, <2>5
<1> HIDE DEF info
<1>12. i \in first .. atSign - 1
  BY <1>3, <1>4, <1>9, <1>10, <1>11
<1>13. \A j \in first .. atSign - 1 : u[j] \in userinfoChar
  <2> SUFFICES ASSUME NEW j \in first .. atSign - 1 PROVE u[j] \in userinfoChar
    OBVIOUS
  <2>1. j - first + 1 \in 1 .. atSign - first /\ first + (j - first + 1) - 1 = j
    BY <1>4, <1>10
  <2>2. info[j - first + 1] = u[j]
    BY <1>11, <2>1
  <2>3. DOMAIN info = 1 .. atSign - first
    BY <1>11
  <2> QED BY <1>9, <2>1, <2>2, <2>3 DEF ToSet
<1>14. Skip(u, first, userinfoChar) = atSign
  BY <1>1, <1>4, <1>6, <1>10, <1>13, SkipIs, CharsApart
<1> QED BY <1>1, <1>10, <1>12, <1>14 DEF TakenForUserinfo, first

\* For every text: what is logged of it is public, or added by the conversion.
LEMMA LogShowsPublic ==
  ASSUME NEW u \in Seq(Token)
  PROVE  LogText(u) \in Seq(Public(u) \cup Added)
<1> DEFINE T == Public(u) \cup Added
           I == Token \cup {"@"}
           uri == Parse(u).uri
           hidden == WithUserinfo(uri, <<Stars>>)
<1>1. Len(u) \in Nat /\ DOMAIN u = 1 .. Len(u) /\ \A i \in 1 .. Len(u) : u[i] \in Token
  OBVIOUS
<1>2. \A i \in 1 .. Len(u) : u[i] \in T \/ TakenForUserinfo(u, i)
  <2> SUFFICES ASSUME NEW i \in 1 .. Len(u) PROVE u[i] \in T \/ TakenForUserinfo(u, i)
    OBVIOUS
  <2>1. CASE HasAuthority(u) /\ ToSet(Written(u).userinfo) \subseteq userinfoChar
    BY <1>1, <2>1, UserinfoFound DEF Public
  <2>2. CASE ~(HasAuthority(u) /\ ToSet(Written(u).userinfo) \subseteq userinfoChar)
    BY <1>1, <2>2 DEF Public, ToSet
  <2> QED BY <2>1, <2>2
<1>3. Added \subseteq T
  OBVIOUS
<1> HIDE DEF T
<1>4. uri \in Uris(T, I)
  <2>1. "@" \in I
    OBVIOUS
  <2>2. \A i \in 1 .. Len(u) : u[i] \in I
    BY <1>1
  <2> HIDE DEF I
  <2> QED BY <1>1, <1>2, <2>1, <2>2, ParseType
<1> HIDE DEF uri
<1>5. hidden \in Uris(T, T) /\ hidden.userinfo = <<Stars>> /\ <<Stars>> \in Seq(T)
  <2> DEFINE info == <<Stars>>
  <2>1. info \in Seq(T) /\ "@" \in T
    BY <1>3 DEF Added
  <2> HIDE DEF info, I
  <2>2. SplitUser(uri, info) \in Uris(T, T) /\ SplitUser(uri, info).userinfo = info
    BY <1>4, <2>1, SplitUserType
  <2> QED BY <2>1, <2>2 DEF WithUserinfo, info
<1> HIDE DEF hidden
<1>6. Printed(hidden) \in Seq(T)
  BY <1>3, <1>5, PrintedType
<1>7. uri.userinfo = <<>> => Printed(uri) \in Seq(T)
  <2>1. <<>> \in Seq(T)
    OBVIOUS
  <2> HIDE DEF I
  <2> QED BY <1>3, <1>4, <2>1, PrintedType
<1>8. LogText(u) = IF Parse(u).result = "throws" THEN <<>>
                   ELSE Printed(IF uri.userinfo = <<>> THEN uri ELSE hidden)
  BY DEF LogText, uri, hidden
<1> QED BY <1>6, <1>7, <1>8 DEF T

-----------------------------------------------------------------------------
(* Types *)

\* A source as it is in memory, of which the URI is one of the file or a default.
Given(f) == {s \in Sources : s.uri \in UrisOf(f)}

Origins ==
    /\ store \in Stores
    /\ made = [u \in UrisOf(file) |-> MadeOf(u)]
    /\ \A n \in DOMAIN sources : sources[n] \in Seq(Given(file))
    /\ clone \in Seq(Given(file))
    /\ logged \in {<<>>} \cup {LogText(u) : u \in UrisOf(file)}

Ranges ==
    /\ pc \in {"get", "loaders", "refresh", "open", "bind", "read",
               "published", "failed", "crashed"}
    /\ pc \in {"get", "published"} => todo = {}
    /\ pc \in Busy => at[1] \notin todo /\ at[2] \in DOMAIN clone
    /\ pc \in {"failed", "published"} => at = NoDomain
    /\ tried \in 0 .. 4 * (Len(LoaderPath) + 1)
    /\ silent \in BOOLEAN

Outcome == [result : {"new", "failed", "loaded"}, names : SUBSET STRING]

Results ==
    /\ handle \in Handles
    /\ read \subseteq STRING
    /\ DOMAIN data = DOMAIN sources
    /\ \A n \in DOMAIN data : data[n] \in Outcome

TInv == Origins /\ Ranges /\ Results

-----------------------------------------------------------------------------

Defaults == {DefaultSource("passwd"), DefaultSource("aliases")}

LEMMA DefaultsTyped == Defaults \subseteq SourceSection
<1> SUFFICES ASSUME NEW name \in {"passwd", "aliases"}
             PROVE  DefaultSource(name) \in SourceSection
  BY DEF Defaults
<1>1. {"etc", name} \subseteq Token /\ Slash \in Token
  BY LoadingAssumption DEF LoadingAssumption, Token, Delimiters, Slash, Nul, Stars
<1>2. <<Slash, "etc", Slash, name>> \in Seq(Token)
  BY <1>1
<1>3. Sendmail \in Loader
  BY DEF Sendmail, Loader
<1> QED BY <1>2, <1>3 DEF DefaultSource, SourceSection

LEMMA UrisTyped ==
  ASSUME NEW f \in ConfFiles
  PROVE  UrisOf(f) \subseteq Seq(Token)
<1>1. f.domains \in Seq(DomainSection)
  BY LoadingAssumption DEF LoadingAssumption
<1>2. \A d \in ToSet(f.domains) : d.sources \in Seq(SourceSection)
  <2>1. \A d \in ToSet(f.domains) : d \in DomainSection
    BY <1>1 DEF ToSet
  <2> QED BY <2>1 DEF DomainSection
<1>3. \A d \in ToSet(f.domains) : ToSet(d.sources) \subseteq SourceSection
  BY <1>2 DEF ToSet
<1>4. \A s \in SourceSection : s.uri \in Seq(Token)
  BY DEF SourceSection
<1> QED BY <1>3, <1>4, DefaultsTyped DEF UrisOf, Defaults

\* The sources of a section are its own or the defaults.
LEMMA SourcesGiven ==
  ASSUME NEW section \in DomainSection
  PROVE  SourcesOf(section) \in Seq({NewSource(s) : s \in ToSet(section.sources) \cup Defaults})
<1> DEFINE given == IF section.sources = <<>>
                    THEN <<DefaultSource("passwd"), DefaultSource("aliases")>>
                    ELSE section.sources
           enabled == {i \in DOMAIN given : given[i].enabled}
           X == {NewSource(s) : s \in ToSet(section.sources) \cup Defaults}
           s == [k \in 1 .. Cardinality(enabled) |-> NewSource(given[Nth(enabled, k)])]
<1>1. SourcesOf(section) = s
  BY DEF SourcesOf, Nth
<1>2. /\ Len(given) \in Nat /\ DOMAIN given = 1 .. Len(given)
      /\ \A i \in DOMAIN given : given[i] \in ToSet(section.sources) \cup Defaults
  <2>1. CASE section.sources = <<>>
    BY <2>1 DEF Defaults
  <2>2. CASE section.sources # <<>>
    <3>1. section.sources \in Seq(SourceSection)
      BY DEF DomainSection
    <3> QED BY <2>2, <3>1, LenProperties DEF ToSet
  <2> QED BY <2>1, <2>2
<1> HIDE DEF given
<1>3. enabled \subseteq 1 .. Len(given) /\ enabled \subseteq Nat
  BY <1>2
<1>4. IsFiniteSet(enabled)
  BY <1>2, <1>3, Segment, FS_Subset
<1>5. \A i \in enabled : i \in DOMAIN given
  OBVIOUS
<1> HIDE DEF enabled
<1>6. Cardinality(enabled) \in Nat /\ \A k \in 1 .. Cardinality(enabled) : Nth(enabled, k) \in enabled
  BY <1>3, <1>4, Places
<1>7. s \in [1 .. Cardinality(enabled) -> X]
  <2>1. \A k \in 1 .. Cardinality(enabled) : NewSource(given[Nth(enabled, k)]) \in X
    BY <1>2, <1>5, <1>6
  <2> HIDE DEF X
  <2> QED BY <2>1
<1> HIDE DEF s, X
<1>8. s \in Seq(X)
  BY <1>6, <1>7, FunctionIsSeq
<1> QED BY <1>1, <1>8 DEF X

LEMMA SectionsGiven ==
  ASSUME file \in ConfFiles, NEW section \in ToSet(Sections)
  PROVE  SourcesOf(section) \in Seq(Given(file))
<1>1. section \in DomainSection /\ Sections \in Seq(DomainSection)
  BY SectionsListed DEF ToSet
<1>2. section = DefaultDomain \/ section \in ToSet(file.domains)
  BY OneElement DEF Sections, ToSet
<1>3. \A s \in ToSet(section.sources) \cup Defaults : s.uri \in UrisOf(file)
  <2>1. CASE section = DefaultDomain
    <3>1. section.sources = <<>>
      BY <2>1 DEF DefaultDomain
    <3> QED BY <3>1, NothingLeft DEF UrisOf, Defaults
  <2>2. CASE section \in ToSet(file.domains)
    BY <2>2 DEF UrisOf, Defaults
  <2> QED BY <1>2, <2>1, <2>2
<1>4. ToSet(section.sources) \cup Defaults \subseteq SourceSection
  <2>1. section.sources \in Seq(SourceSection)
    BY <1>1 DEF DomainSection
  <2> QED BY <2>1, DefaultsTyped DEF ToSet
<1>5. \A s \in SourceSection : NewSource(s) \in Sources /\ NewSource(s).uri = s.uri
  BY DEF NewSource, SourceSection, Sources, Lib
<1>6. {NewSource(s) : s \in ToSet(section.sources) \cup Defaults} \subseteq Given(file)
  BY <1>3, <1>4, <1>5 DEF Given
<1>7. SourcesOf(section) \in Seq({NewSource(s) : s \in ToSet(section.sources) \cup Defaults})
  BY <1>1, SourcesGiven
<1> QED BY <1>6, <1>7, SeqMonotonic

LEMMA EveryAffix ==
  /\ Len(Affixes) = 4 /\ "" \in ToSet(Affixes)
  /\ \A i \in 1 .. 4 : Affixes[i] \in ToSet(Affixes)
<1>1. Len(Affixes) = 4 /\ Affixes[1] = "" /\ DOMAIN Affixes = 1 .. 4
  BY DEF Affixes
<1>2. 1 \in 1 .. 4
  OBVIOUS
<1> HIDE DEF Affixes
<1> QED BY <1>1, <1>2 DEF ToSet

LEMMA CandidatesTyped ==
  ASSUME NEW loader, NEW k \in Nat
  PROVE  /\ Len(Candidates(loader)) \in 0 .. 4 * (Len(LoaderPath) + 1)
         /\ k < Len(Candidates(loader)) => Candidates(loader)[k + 1] \in Lib
<1> DEFINE dirs == Append(LoaderPath, None)
           affixes == IF loader.form = "name" THEN Affixes ELSE <<"">>
           n == Len(dirs)
           m == Len(affixes)
           c == [i \in 1 .. n * m |->
                    <<affixes[((i - 1) \div n) + 1], dirs[((i - 1) % n) + 1]>>]
           Dirs == ToSet(LoaderPath) \cup {None}
<1>1. Len(LoaderPath) \in Nat /\ LoaderPath \in Seq(Dirs)
  <2>1. LoaderPath \in Seq(STRING)
    BY LoadingAssumption DEF LoadingAssumption
  <2> QED BY <2>1, SeqDef DEF ToSet
<1>2. dirs \in Seq(Dirs) /\ n = Len(LoaderPath) + 1
  BY <1>1, AppendProperties
<1>3. n \in Nat \ {0} /\ \A i \in 1 .. n : dirs[i] \in Dirs
  <2> HIDE DEF dirs, Dirs
  <2> QED BY <1>1, <1>2
<1>4. m \in {1, 4} /\ \A i \in 1 .. m : affixes[i] \in ToSet(Affixes)
  <2>1. CASE loader.form = "name"
    BY <2>1, EveryAffix
  <2>2. CASE loader.form # "name"
    <3>1. affixes = <<"">>
      BY <2>2
    <3> HIDE DEF affixes
    <3>2. Len(affixes) = 1 /\ affixes[1] = ""
      BY <3>1
    <3>3. \A i \in 1 .. 1 : i = 1
      OBVIOUS
    <3> QED BY <3>2, <3>3, EveryAffix
  <2> QED BY <2>1, <2>2
<1>5. CASE loader.form = "absolute"
  <2> DEFINE lib == <<"", None>>
  <2>1. Candidates(loader) = <<lib>>
    BY <1>5 DEF Candidates
  <2>2. lib \in Lib
    <3>1. \A a \in ToSet(Affixes), d \in Dirs : <<a, d>> \in Lib
      BY DEF Lib
    <3>2. None \in Dirs
      OBVIOUS
    <3> HIDE DEF Dirs
    <3> QED BY <3>1, <3>2, EveryAffix
  <2> HIDE DEF lib
  <2>3. Len(Candidates(loader)) = 1 /\ Candidates(loader)[1] = lib
    BY <2>1
  <2>4. k < 1 => k + 1 = 1
    OBVIOUS
  <2> QED BY <1>1, <2>2, <2>3, <2>4
<1>6. CASE loader.form # "absolute"
  <2>1. Candidates(loader) = c
    BY <1>6 DEF Candidates
  <2> HIDE DEF dirs, affixes, n, m, Dirs
  <2>2. n * m \in Nat /\ n * m <= 4 * (Len(LoaderPath) + 1)
    <3>1. CASE m = 1
      BY <1>1, <1>2, <1>3, <3>1
    <3>2. CASE m = 4
      BY <1>1, <1>2, <1>3, <3>2
    <3> QED BY <1>4, <3>1, <3>2
  <2>3. ASSUME NEW i \in 1 .. n * m PROVE c[i] \in Lib
    <3>1. i - 1 \in Nat /\ i - 1 < n * m
      BY <2>2
    <3>2. (i - 1) \div n \in Nat /\ n * ((i - 1) \div n) <= i - 1
      BY <1>3, <3>1, Division
    <3>3. (i - 1) \div n < m
      <4> DEFINE d == (i - 1) \div n
      <4>1. d \in Nat /\ n * d < n * m
        BY <1>3, <1>4, <2>2, <3>1, <3>2
      <4> HIDE DEF d
      <4> SUFFICES ASSUME ~(d < m) PROVE FALSE
        BY DEF d
      <4>2. n * m <= n * d
        BY <1>3, <1>4, <4>1
      <4> QED BY <1>3, <1>4, <4>1, <4>2
    <3>4. ((i - 1) \div n) + 1 \in 1 .. m
      BY <1>4, <3>2, <3>3
    <3>5. ((i - 1) % n) + 1 \in 1 .. n
      <4>1. (i - 1) % n \in 0 .. n - 1
        BY <1>3, <3>1
      <4> QED BY <1>3, <4>1
    <3>6. affixes[((i - 1) \div n) + 1] \in ToSet(Affixes) /\ dirs[((i - 1) % n) + 1] \in Dirs
      BY <1>3, <1>4, <3>4, <3>5
    <3> QED BY <3>6 DEF Lib, Dirs
  <2>4. c \in [1 .. n * m -> Lib]
    BY <2>3
  <2> HIDE DEF c
  <2>5. Len(c) = n * m
    BY <2>2, <2>4, FunctionIsSeq
  <2>6. k < n * m => k + 1 \in 1 .. n * m
    BY <2>2
  <2> QED BY <2>1, <2>2, <2>4, <2>5, <2>6
<1> QED BY <1>5, <1>6

-----------------------------------------------------------------------------

\* What the code makes of a URI of the file.
LEMMA MadeTyped ==
  ASSUME file \in ConfFiles, Origins, NEW u \in UrisOf(file)
  PROVE  /\ u \in Seq(Token) /\ u \in DOMAIN made
         /\ made[u].log = LogText(u)
         /\ made[u].sendmail.name \in Texts
<1>1. u \in Seq(Token)
  BY UrisTyped
<1>2. made[u] = MadeOf(u) /\ u \in DOMAIN made
  BY DEF Origins
<1>3. made[u].log = LogText(u) /\ made[u].sendmail.name = Text(Parse(u).uri.path)
  BY <1>2 DEF MadeOf, FileOf
<1> DEFINE T == Token \cup {Stars}
<1>4. Parse(u).uri \in Uris(T, T)
  <2>1. Len(u) \in Nat /\ \A i \in 1 .. Len(u) : u[i] \in T
    BY <1>1
  <2>2. "@" \in T
    BY DEF Token, Delimiters, Nul, Stars
  <2> HIDE DEF T
  <2> QED BY <2>1, <2>2, ParseType
<1>5. Parse(u).uri.path \in Path(T)
  BY <1>4 DEF Uris
<1>6. {Slash, "."} \subseteq T
  BY DEF Token, Delimiters, Slash, Nul, Stars
<1> HIDE DEF T
<1>7. Text(Parse(u).uri.path) \in Seq(T)
  BY <1>5, <1>6, TextType
<1> QED BY <1>1, <1>2, <1>3, <1>7 DEF Texts, T

\* The source that is at hand.
LEMMA AtHand ==
  ASSUME IInv, TInv
  PROVE  /\ file \in ConfFiles
         /\ pc \in Busy => Opened \in Given(file)
         /\ pc = "loaders" /\ at # NoDomain => Source \in Given(file)
<1>1. file \in ConfFiles
  BY DEF IInv, Pending
<1>2. clone \in Seq(Given(file)) /\ \A n \in DOMAIN sources : sources[n] \in Seq(Given(file))
  BY DEF TInv, Origins
<1>3. pc \in Busy => at[2] \in DOMAIN clone
  BY DEF TInv, Ranges
<1>4. pc = "loaders" /\ at # NoDomain => at[1] \in DOMAIN sources /\ at[2] \in DOMAIN sources[at[1]]
  BY DEF IInv, Searched
<1> QED BY <1>1, <1>2, <1>3, <1>4 DEF Opened, Source

LEMMA TypedInit == Init => TInv
<1> SUFFICES ASSUME Init PROVE TInv
  OBVIOUS
<1> USE DEF Init
<1>2. Origins
  BY DEF Origins
<1>3. Len(LoaderPath) \in Nat
  BY LoadingAssumption DEF LoadingAssumption
<1>4. Ranges
  <2>1. 0 \in 0 .. 4 * (Len(LoaderPath) + 1)
    BY <1>3
  <2> QED BY <2>1 DEF Ranges, Busy
<1>5. Results
  BY DEF Results, Handles
<1> QED BY <1>2, <1>4, <1>5 DEF TInv

\* The text that is logged of the source at hand.
LEMMA LoggedKeeps ==
  ASSUME IInv, TInv, NEW s \in Given(file)
  PROVE  made[s.uri].log \in {<<>>} \cup {LogText(u) : u \in UrisOf(file)}
<1>1. s.uri \in UrisOf(file) /\ file \in ConfFiles
  BY AtHand DEF Given
<1> QED BY <1>1, MadeTyped DEF TInv

\* A step that does nothing to the sources but to take them into a clone.
LEMMA OriginsKeep ==
  ASSUME IInv, TInv, UNCHANGED <<file, store, made, sources>>,
         clone' \in {clone, <<>>} \cup {sources[n] : n \in DOMAIN sources},
         logged' \in {logged} \cup {made[s.uri].log : s \in Given(file)}
  PROVE  Origins'
<1>1. clone' \in Seq(Given(file))
  <2>1. <<>> \in Seq(Given(file))
    OBVIOUS
  <2> QED BY <2>1 DEF TInv, Origins
<1>2. logged' \in {<<>>} \cup {LogText(u) : u \in UrisOf(file)}
  BY LoggedKeeps DEF TInv, Origins
<1> QED BY <1>1, <1>2 DEF TInv, Origins

LEMMA ResultsKeep ==
  ASSUME TInv, UNCHANGED <<made, handle, read, data>>, DOMAIN sources' = DOMAIN sources
  PROVE  Results'
<1>1. Handles' = Handles
  BY DEF Handles
<1> QED BY <1>1 DEF TInv, Results

LEMMA GetTyped == ASSUME IInv, TInv, Get PROVE TInv'
<1> DEFINE T == {Sections[i].title : i \in Configured}
<1>1. /\ pc = "get" /\ pc' = "loaders" /\ at = NoDomain
      /\ sources' = [n \in T |-> SourcesOf(SectionOf(n))]
      /\ data' = [n \in DOMAIN sources' |-> [result |-> "new", names |-> {}]]
      /\ UNCHANGED <<file, store, made, at, tried, clone, handle, read, logged, silent>>
  BY DEF Get, IInv, Pending
<1>2. ASSUME NEW n \in T PROVE SourcesOf(SectionOf(n)) \in Seq(Given(file))
  <2>1. PICK i \in Configured : SectionOf(n) = Sections[i]
    <3>1. \E i \in Configured : Sections[i].title = n BY <1>2
    <3> QED BY <3>1 DEF SectionOf
  <2>2. Sections[i] \in ToSet(Sections)
    BY DEF Configured, ToSet
  <2> QED BY <2>1, <2>2, AtHand, SectionsGiven
<1> HIDE DEF T
<1>3. Origins'
  BY <1>1, <1>2 DEF TInv, Origins
<1>4. Ranges'
  BY <1>1 DEF TInv, Ranges, Busy
<1>5. Results'
  <2>1. Handles' = Handles
    BY <1>1 DEF Handles
  <2>2. [result |-> "new", names |-> {}] \in Outcome
    BY DEF Outcome
  <2>3. DOMAIN data' = DOMAIN sources' /\ \A n \in DOMAIN data' : data'[n] \in Outcome
    BY <1>1, <2>2
  <2> QED BY <1>1, <2>1, <2>3 DEF TInv, Results
<1> QED BY <1>3, <1>4, <1>5 DEF TInv

LEMMA TryLibraryTyped == ASSUME IInv, TInv, TryLibrary PROVE TInv'
<1> DEFINE d == at[1]
           i == at[2]
           lib == Candidates(Source.loader)[tried + 1]
           t(found) == Tried(sources[d][i], lib, found)
<1>1. /\ pc = "loaders" /\ at # NoDomain /\ pc' = pc
      /\ tried < Len(Candidates(Source.loader))
      /\ UNCHANGED <<file, store, made, pc, todo, clone, handle, read, data, logged, silent>>
  BY DEF TryLibrary
<1>2. PICK found \in 0 .. 3 :
        /\ sources' = [sources EXCEPT ![d][i] = t(found)]
        /\ tried' = IF Kept(found) THEN 0 ELSE tried + 1
        /\ at' = IF Kept(found) THEN NextSource ELSE at
  BY DEF TryLibrary
<1>3. /\ d \in DOMAIN sources /\ i \in DOMAIN sources[d] /\ sources[d] \in Seq(Given(file))
      /\ sources[d][i] \in Given(file) /\ tried \in Nat
  BY <1>1, AtHand DEF IInv, Searched, Pending, TInv, Origins, Source
<1>4. /\ Len(Candidates(Source.loader)) \in 0 .. 4 * (Len(LoaderPath) + 1) /\ lib \in Lib
  BY <1>1, <1>3, CandidatesTyped
<1> HIDE DEF lib
<1>5. t(found) \in Given(file)
  <2>1. sources[d][i] \in Sources /\ sources[d][i].uri \in UrisOf(file)
    BY <1>3 DEF Given
  <2>2. NoLibrary \in Lib
    BY DEF Lib
  <2>3. \A s \in Sources : Tried(s, lib, found) \in Sources /\ Tried(s, lib, found).uri = s.uri
    BY <1>4, <2>2 DEF Tried, Sources
  <2> QED BY <2>1, <2>3 DEF Given
<1> DEFINE s == [sources[d] EXCEPT ![i] = t(found)]
<1>6. s \in Seq(Given(file))
  BY <1>3, <1>5
<1>7. DOMAIN sources' = DOMAIN sources /\ sources'[d] = s
      /\ \A n \in DOMAIN sources : n # d => sources'[n] = sources[n]
  BY <1>2, <1>3
<1> HIDE DEF s, t, d, i
<1>8. Origins'
  <2>1. \A n \in DOMAIN sources' : sources'[n] \in Seq(Given(file'))
    BY <1>1, <1>6, <1>7 DEF TInv, Origins
  <2> QED BY <1>1, <2>1 DEF TInv, Origins
<1>9. Ranges'
  <2>1. tried' \in 0 .. 4 * (Len(LoaderPath) + 1)
    <3>1. Len(LoaderPath) \in Nat
      BY LoadingAssumption DEF LoadingAssumption
    <3> QED BY <1>1, <1>2, <1>3, <1>4, <3>1
  <2> QED BY <1>1, <2>1 DEF TInv, Ranges, Busy
<1>10. Results'
  BY <1>1, <1>7, ResultsKeep
<1> QED BY <1>8, <1>9, <1>10 DEF TInv

LEMMA NotFoundTyped == ASSUME IInv, TInv, NotFound PROVE TInv'
<1>1. /\ pc = "loaders" /\ at # NoDomain /\ pc' = "failed"
      /\ logged' = made[Source.uri].log
      /\ sources' = <<>> /\ data' = <<>> /\ at' = NoDomain /\ tried' = 0
      /\ UNCHANGED <<file, store, made, todo, clone, handle, read, silent>>
  BY DEF NotFound
<1>2. DOMAIN sources' = {} /\ DOMAIN data' = {}
  BY <1>1
<1>3. logged' \in {<<>>} \cup {LogText(u) : u \in UrisOf(file)}
  BY <1>1, AtHand, LoggedKeeps
<1>4. Origins'
  BY <1>1, <1>2, <1>3 DEF TInv, Origins
<1>5. Len(LoaderPath) \in Nat
  BY LoadingAssumption DEF LoadingAssumption
<1>6. Ranges'
  BY <1>1, <1>5 DEF TInv, Ranges, Busy
<1>7. Results'
  <2>1. Handles' = Handles
    BY <1>1 DEF Handles
  <2> QED BY <1>1, <1>2, <2>1 DEF TInv, Results
<1> QED BY <1>4, <1>6, <1>7 DEF TInv

\* The other steps before the first load, and those between two loads.
LEMMA BeforeTyped ==
  ASSUME IInv, TInv,
         GetFails \/ LoadersLoaded \/ Publish \/ \E n \in todo : FirstOfDomain(n) \/ CloneFails(n)
  PROVE  TInv'
<1>1. /\ UNCHANGED <<file, store, made, sources, clone, handle, read, data, logged, silent>>
      /\ tried' \in {tried, 0}
  BY DEF GetFails, LoadersLoaded, Publish, FirstOfDomain, CloneFails, confVars
<1>2. Origins'
  BY <1>1, OriginsKeep
<1>3. Results'
  BY <1>1, ResultsKeep
<1>4. Ranges'
  <2>1. tried' \in 0 .. 4 * (Len(LoaderPath) + 1) /\ silent' \in BOOLEAN
    <3>1. Len(LoaderPath) \in Nat
      BY LoadingAssumption DEF LoadingAssumption
    <3> QED BY <1>1, <3>1 DEF TInv, Ranges
  <2>2. CASE GetFails
    BY <2>1, <2>2 DEF GetFails, IInv, Pending, Ranges, Busy
  <2>3. CASE LoadersLoaded
    BY <2>1, <2>3 DEF LoadersLoaded, Ranges, Busy
  <2>4. CASE Publish
    BY <2>1, <2>4 DEF Publish, IInv, Pending, Ranges, Busy
  <2>5. CASE \E n \in todo : FirstOfDomain(n) \/ CloneFails(n)
    BY <2>1, <2>5 DEF FirstOfDomain, CloneFails, confVars, Ranges, Busy
  <2> QED BY <2>1, <2>2, <2>3, <2>4, <2>5
<1> QED BY <1>2, <1>3, <1>4 DEF TInv

LEMMA CloneTyped == ASSUME IInv, TInv, NEW n \in todo, Clone(n) PROVE TInv'
<1>1. /\ pc = "refresh" /\ pc' = "open" /\ clone' = sources[n] /\ read' = {}
      /\ at' = <<n, 1>> /\ at'[1] = n /\ at'[2] = 1 /\ todo' = todo \ {n}
      /\ UNCHANGED <<confVars, handle, data, logged, silent>>
  BY DEF Clone
<1>2. UNCHANGED <<file, store, made, sources, tried>>
  BY <1>1 DEF confVars
<1>3. n \in DOMAIN sources
  BY <1>1 DEF IInv, Pending
<1>4. Origins'
  BY <1>1, <1>2, <1>3, OriginsKeep
<1>5. Ranges'
  <2>1. 1 \in DOMAIN clone' /\ n \notin todo'
    BY <1>1, <1>3 DEF IInv, Shape, Listed
  <2> QED BY <1>1, <1>2, <2>1 DEF TInv, Ranges
<1>6. Results'
  <2>1. Handles' = Handles
    BY <1>2 DEF Handles
  <2> QED BY <1>1, <1>2, <2>1 DEF TInv, Results
<1> QED BY <1>4, <1>5, <1>6 DEF TInv

LEMMA SourceEndsTyped ==
  ASSUME IInv, TInv, pc \in {"open", "bind", "read"}, NEW failed \in BOOLEAN, SourceEnds(failed)
  PROVE  TInv'
<1> DEFINE more == After(failed) = "open"
           entry == [result |-> IF failed THEN "failed" ELSE "loaded",
                     names |-> IF failed THEN {} ELSE read]
<1>1. /\ handle' = NoHandle /\ pc' \in {"open", "refresh"} /\ (more <=> pc' = "open")
      /\ at' = IF more THEN <<at[1], at[2] + 1>> ELSE NoDomain
      /\ clone' = IF more THEN clone ELSE <<>>
      /\ read' = IF more THEN read ELSE {}
      /\ data' = IF more THEN data ELSE [data EXCEPT ![at[1]] = entry]
      /\ logged' = IF failed THEN made[Opened.uri].log ELSE logged
      /\ UNCHANGED <<confVars, todo, silent>>
      /\ more => at[2] < Len(clone)
  BY DEF SourceEnds, Released, After
<1>2. UNCHANGED <<file, store, made, sources, tried, todo, silent>>
  BY <1>1 DEF confVars
<1>3. /\ Opened \in Given(file) /\ at[1] \in DOMAIN sources
      /\ at[1] \notin todo /\ at[2] \in DOMAIN clone /\ Listed(clone)
  BY AtHand DEF TInv, Ranges, IInv, Working, Shape, Busy
<1> HIDE DEF more, entry
<1>4. Origins'
  <2>1. clone' \in {clone, <<>>} /\ logged' \in {logged, made[Opened.uri].log}
    BY <1>1
  <2> QED BY <1>2, <1>3, <2>1, OriginsKeep
<1>5. Ranges'
  <2>1. CASE more
    <3>1. at'[1] = at[1] /\ at'[2] = at[2] + 1
      <4>1. at' = <<at[1], at[2] + 1>>
        BY <1>1, <2>1
      <4> QED BY <4>1
    <3>2. at[2] + 1 \in DOMAIN clone
      BY <1>1, <1>3, <2>1 DEF Listed
    <3> QED BY <1>1, <1>2, <1>3, <2>1, <3>1, <3>2 DEF TInv, Ranges
  <2>2. CASE ~more
    BY <1>1, <1>2, <2>2 DEF TInv, Ranges, Busy
  <2> QED BY <2>1, <2>2
<1>6. Results'
  <2>1. Handles' = Handles /\ handle' \in Handles
    BY <1>1, <1>2 DEF Handles
  <2>2. read' \subseteq STRING
    BY <1>1 DEF TInv, Results
  <2>3. entry \in Outcome
    BY DEF TInv, Results, entry, Outcome
  <2>4. DOMAIN data' = DOMAIN sources' /\ \A n \in DOMAIN data' : data'[n] \in Outcome
    BY <1>1, <1>2, <1>3, <2>3 DEF TInv, Results
  <2> QED BY <2>1, <2>2, <2>4 DEF Results
<1> QED BY <1>4, <1>5, <1>6 DEF TInv

\* A step that changes no more than the handle and what was read.
LEMMA HandleTyped ==
  ASSUME IInv, TInv, UNCHANGED <<confVars, todo, at, clone, data, logged>>,
         pc \in Busy, pc' \in Busy, handle' \in Handles, read' \subseteq STRING, silent' \in BOOLEAN
  PROVE  TInv'
<1>1. UNCHANGED <<file, store, made, sources, tried>>
  BY DEF confVars
<1>2. Origins'
  BY <1>1, OriginsKeep
<1>3. Ranges'
  BY <1>1 DEF TInv, Ranges, Busy
<1>4. Results'
  <2>1. Handles' = Handles
    BY <1>1 DEF Handles
  <2> QED BY <1>1, <2>1 DEF TInv, Results
<1> QED BY <1>2, <1>3, <1>4 DEF TInv

SendmailHandles == [loader : {"sendmail"}, name : Texts, left : Seq(Value)]

Targets == {made[u].ldap : u \in DOMAIN made}

LdapHandles ==
    [loader : {"ldap"}, target : Targets,
     left : Seq(Seq(Seq(Value))), attributes : Seq(Seq(Value)), values : Seq(Value)]

LEMMA HandlesAre == Handles = {NoHandle} \cup SendmailHandles \cup LdapHandles
BY DEF Handles, SendmailHandles, LdapHandles, Targets

LEMMA LoaderTells ==
  ASSUME TInv
  PROVE  /\ handle \in Handles
         /\ handle.loader = "sendmail" => handle \in SendmailHandles
         /\ handle.loader = "ldap" => handle \in LdapHandles
<1>1. handle \in Handles
  BY DEF TInv, Results
<1>2. NoHandle.loader = None /\ None \notin {"sendmail", "ldap"}
  BY DEF NoHandle, None
<1>3. \A h \in SendmailHandles : h.loader = "sendmail"
  BY DEF SendmailHandles
<1>4. \A h \in LdapHandles : h.loader = "ldap"
  BY DEF LdapHandles
<1> QED BY <1>1, <1>2, <1>3, <1>4, HandlesAre

LEMMA OpensTyped == ASSUME IInv, TInv, Opens PROVE TInv'
<1>1. /\ pc \in {"open", "bind"} /\ pc \in Busy /\ handle \in Handles /\ read \subseteq STRING
      /\ silent \in BOOLEAN
  BY DEF Opens, OpenFile, OpenDirectory, NoAttributes, CannotOpen, Bind, NoFilter, Busy, TInv,
     Results, Ranges
<1>2. store.lines \in Seq(Value) /\ store.entries \in Seq(Seq(Seq(Value)))
  BY LoadingAssumption DEF LoadingAssumption, TInv, Origins
<1>3. Opened.uri \in DOMAIN made /\ made[Opened.uri].sendmail.name \in Texts
  BY <1>1, AtHand, MadeTyped DEF Given, TInv
<1>4. CASE OpenFile
  <2>1. Lines(made[Opened.uri].sendmail.name) \in Seq(Value)
    BY <1>2, EmptySeq DEF Lines
  <2>2. handle' \in SendmailHandles
    BY <1>3, <1>4, <2>1 DEF OpenFile, SendmailHandles
  <2> QED BY <1>1, <1>4, <2>2, HandleTyped, HandlesAre DEF OpenFile, Busy
<1>5. CASE OpenDirectory
  <2>1. <<>> \in Seq(Seq(Value)) /\ <<>> \in Seq(Value)
    OBVIOUS
  <2>2. handle' \in LdapHandles
    BY <1>2, <1>3, <1>5, <2>1 DEF OpenDirectory, LdapHandles, Targets
  <2> QED BY <1>1, <1>5, <2>2, HandleTyped, HandlesAre DEF OpenDirectory, Busy
<1>6. CASE NoAttributes
  BY <1>1, <1>6, HandleTyped DEF NoAttributes, Busy
<1>7. CASE CannotOpen
  BY <1>7, SourceEndsTyped DEF CannotOpen
<1>8. CASE Bind
  BY <1>1, <1>8, HandleTyped DEF Bind, Busy
<1>9. CASE NoFilter
  BY <1>1, <1>9, HandleTyped DEF NoFilter, Busy
<1> QED BY <1>4, <1>5, <1>6, <1>7, <1>8, <1>9 DEF Opens

LEMMA TakenTyped == ASSUME TInv, NEW v \in Value PROVE Taken(v) \subseteq STRING
BY DEF TInv, Results, Taken, Value

LEMMA ReadsTyped == ASSUME IInv, TInv, Reads PROVE TInv'
<1>1. /\ pc = "read" /\ pc \in Busy /\ handle \in Handles /\ read \subseteq STRING
      /\ silent \in BOOLEAN
  BY DEF Reads, ReadLine, EndOfFile, TakeValue, EmptyValue, NextAttribute, NextEntry,
     SearchResult, Waiting, Reading, Busy, TInv, Results, Ranges
<1>2. CASE ReadLine
  <2>1. handle \in SendmailHandles /\ handle.left \in Seq(Value)
    BY <1>2, LoaderTells DEF ReadLine, SendmailHandles
  <2>2. Head(handle.left) \in Value /\ Tail(handle.left) \in Seq(Value)
    BY <1>2, <2>1, HeadAndTail DEF ReadLine
  <2>3. handle' \in SendmailHandles /\ read' \subseteq STRING
    BY <1>1, <1>2, <2>1, <2>2, TakenTyped DEF ReadLine, SendmailHandles
  <2> QED BY <1>1, <1>2, <2>3, HandleTyped, HandlesAre DEF ReadLine
<1>3. CASE TakeValue
  <2>1. handle \in LdapHandles /\ handle.values \in Seq(Value)
    BY <1>3, LoaderTells DEF TakeValue, Reading, LdapHandles
  <2>2. Head(handle.values) \in Value /\ Tail(handle.values) \in Seq(Value)
    BY <1>3, <2>1, HeadAndTail DEF TakeValue
  <2>3. handle' \in LdapHandles /\ read' \subseteq STRING
    BY <1>1, <1>3, <2>1, <2>2, TakenTyped DEF TakeValue, AfterValue, LdapHandles
  <2> QED BY <1>1, <1>3, <2>3, HandleTyped, HandlesAre DEF TakeValue
<1>4. CASE NextAttribute
  <2>1. handle \in LdapHandles /\ handle.attributes \in Seq(Seq(Value))
    BY <1>4, LoaderTells DEF NextAttribute, Reading, LdapHandles
  <2>2. Head(handle.attributes) \in Seq(Value) /\ Tail(handle.attributes) \in Seq(Seq(Value))
    BY <1>4, <2>1, HeadAndTail DEF NextAttribute
  <2>3. handle' \in LdapHandles
    BY <1>4, <2>1, <2>2 DEF NextAttribute, LdapHandles
  <2> QED BY <1>1, <1>4, <2>3, HandleTyped, HandlesAre DEF NextAttribute
<1>5. CASE NextEntry
  <2>1. handle \in LdapHandles /\ handle.left \in Seq(Seq(Seq(Value)))
    BY <1>5, LoaderTells DEF NextEntry, Waiting, Reading, LdapHandles
  <2>2. Head(handle.left) \in Seq(Seq(Value)) /\ Tail(handle.left) \in Seq(Seq(Seq(Value)))
    BY <1>5, <2>1, HeadAndTail DEF NextEntry
  <2>3. handle' \in LdapHandles
    BY <1>5, <2>1, <2>2 DEF NextEntry, LdapHandles
  <2> QED BY <1>1, <1>5, <2>3, HandleTyped, HandlesAre DEF NextEntry
<1>6. CASE EndOfFile \/ EmptyValue \/ SearchResult
  BY <1>1, <1>6, SourceEndsTyped DEF EndOfFile, EmptyValue, SearchResult
<1> QED BY <1>2, <1>3, <1>4, <1>5, <1>6 DEF Reads

LEMMA StepsTyped == ASSUME IInv, TInv, Steps PROVE TInv'
<1>1. CASE Get
  BY <1>1, GetTyped
<1>2. CASE TryLibrary
  BY <1>2, TryLibraryTyped
<1>3. CASE NotFound
  BY <1>3, NotFoundTyped
<1>4. CASE GetFails \/ LoadersLoaded \/ Publish
  BY <1>4, BeforeTyped
<1>5. CASE \E n \in todo : FirstOfDomain(n) \/ Clone(n) \/ CloneFails(n)
  BY <1>5, BeforeTyped, CloneTyped
<1>6. CASE Opens
  BY <1>6, OpensTyped
<1>7. CASE Reads
  BY <1>7, ReadsTyped
<1> QED BY <1>1, <1>2, <1>3, <1>4, <1>5, <1>6, <1>7 DEF Steps

LEMMA SilenceTyped == ASSUME IInv, TInv, FallsSilent \/ UNCHANGED vars PROVE TInv'
<1>1. /\ UNCHANGED <<file, store, made, sources, tried, pc, todo, at, clone, handle, read, data, logged>>
      /\ silent' \in {silent, TRUE}
  BY DEF FallsSilent, confVars, vars
<1>2. Origins'
  BY <1>1, OriginsKeep
<1>3. Results'
  BY <1>1, ResultsKeep
<1>4. Ranges'
  BY <1>1 DEF TInv, Ranges
<1> QED BY <1>2, <1>3, <1>4 DEF TInv

LEMMA TypeInvariance == Spec => []TInv
<1>1. Init => TInv
  BY TypedInit
<1>2. IInv /\ TInv /\ [Next]_vars => TInv'
  <2> SUFFICES ASSUME IInv, TInv, [Next]_vars PROVE TInv'
    OBVIOUS
  <2>1. CASE Steps
    BY <2>1, StepsTyped
  <2>2. CASE SourceFails
    BY <2>2, SourceEndsTyped DEF SourceFails
  <2>3. CASE FallsSilent \/ UNCHANGED vars
    BY <2>3, SilenceTyped
  <2> QED BY <2>1, <2>2, <2>3 DEF Next
<1> QED BY <1>1, <1>2, Invariance, PTL DEF Spec

LEMMA LogTyped == ASSUME TInv, file \in ConfFiles PROVE logged \in Texts
<1>1. \A u \in UrisOf(file) : LogText(u) \in Texts
  <2> SUFFICES ASSUME NEW u \in UrisOf(file) PROVE LogText(u) \in Texts
    OBVIOUS
  <2>1. u \in Seq(Token)
    BY UrisTyped
  <2>2. ToSet(u) \subseteq Token
    BY <2>1 DEF ToSet
  <2>3. Public(u) \subseteq Token
    BY <2>2 DEF Public, ToSet
  <2>4. Added \subseteq Token \cup {Stars}
    BY DEF Added, Token, Delimiters, Nul, Stars, Digit, Slash, Escape
  <2>5. LogText(u) \in Seq(Public(u) \cup Added) /\ Public(u) \cup Added \subseteq Token \cup {Stars}
    BY <2>1, <2>3, <2>4, LogShowsPublic
  <2> QED BY <2>5, SeqMonotonic DEF Texts
<1>2. <<>> \in Texts
  BY DEF Texts
<1> QED BY <1>1, <1>2 DEF TInv, Origins

LEMMA TypeFollows == ASSUME IInv, TInv PROVE TypeOK
<1>1. file \in ConfFiles /\ store \in Stores
  BY DEF IInv, Pending, TInv, Origins
<1>2. Given(file) \subseteq Sources
  BY DEF Given
<1>3. clone \in Seq(Sources) /\ \A n \in DOMAIN sources : sources[n] \in Seq(Sources)
  BY <1>2, SeqMonotonic DEF TInv, Origins
<1>4. todo \subseteq DOMAIN sources \/ pc = "failed"
  BY DEF IInv, Pending, TInv, Ranges, Busy
<1>5. ASSUME at # NoDomain PROVE at[1] \in DOMAIN sources \ todo /\ at[2] \in DOMAIN sources[at[1]]
  <2>1. pc = "loaders" \/ pc \in Busy
    BY <1>5 DEF IInv, Pending, TInv, Ranges, Busy
  <2> QED BY <1>5, <2>1 DEF IInv, Searched, Working, TInv, Ranges
<1>6. /\ DOMAIN data = DOMAIN sources /\ handle \in Handles /\ read \subseteq STRING
      /\ \A n \in DOMAIN data :
            data[n] \in [result : {"new", "failed", "loaded"}, names : SUBSET STRING]
  BY DEF TInv, Results, Outcome
<1>7. /\ pc \in {"get", "loaders", "refresh", "open", "bind", "read",
                 "published", "failed", "crashed"}
      /\ tried \in 0 .. 4 * (Len(LoaderPath) + 1) /\ silent \in BOOLEAN
  BY DEF TInv, Ranges
<1> QED BY <1>1, <1>3, <1>4, <1>5, <1>6, <1>7, LogTyped DEF TypeOK

\* For every configuration and all contents of the sources, every variable has its
\* type: a library is of the search order, the domain and the source at hand are
\* there, and what a handle still has to deliver is of its loader.
THEOREM Typing == Spec => []TypeOK
<1>1. IInv /\ TInv => TypeOK
  BY TypeFollows
<1> QED BY <1>1, Invariance, TypeInvariance, PTL

LEMMA HiddenFollows == ASSUME IInv, TInv PROVE UserinfoHidden
<1> DEFINE Shown == (UNION {Public(u) : u \in UrisOf(file)}) \cup Added
<1>1. ASSUME NEW u \in UrisOf(file) PROVE ToSet(LogText(u)) \subseteq Shown
  <2>1. u \in Seq(Token)
    BY UrisTyped DEF IInv, Pending
  <2>2. LogText(u) \in Seq(Public(u) \cup Added)
    BY <2>1, LogShowsPublic
  <2>3. ToSet(LogText(u)) \subseteq Public(u) \cup Added
    BY <2>2 DEF ToSet
  <2> QED BY <2>3
<1>2. ToSet(logged) \subseteq Shown
  BY <1>1, NothingLeft DEF TInv, Origins
<1> QED BY <1>2 DEF UserinfoHidden

\* For every text of a URI, of whatever length: what is logged of the sources of a
\* configuration shows nothing of their user information (Source::log()).
THEOREM CredentialsNotLogged == Spec => []UserinfoHidden
<1>1. IInv /\ TInv => UserinfoHidden
  BY HiddenFollows
<1> QED BY <1>1, Invariance, TypeInvariance, PTL

-----------------------------------------------------------------------------
(* A path that is printed as it was written *)

LEMMA OneMore ==
  ASSUME NEW n \in Nat, NEW i \in 1 .. n, NEW j \in i .. n, j # n
  PROVE  j + 1 \in 1 .. n
OBVIOUS

LEMMA SameSegment ==
  ASSUME NEW m \in Nat, NEW n \in Nat, 1 .. m = 1 .. n
  PROVE  m = n
BY Segment

\* A text that begins with f delimiters and has no name of a directory, no empty
\* name after them, and no delimiter at its end.
Tidy(t, f) ==
    /\ f \in 1 .. Len(t) /\ \A i \in 1 .. f : t[i] = Slash
    /\ \A i \in 1 .. Len(t) : t[i] \notin {".", ".."}
    /\ \A i \in f .. Len(t) - 1 : t[i] # Slash \/ t[i + 1] # Slash
    /\ f < Len(t) => t[Len(t)] # Slash

\* The first and the last character of each name.
Begins(t) == {i \in 1 .. Len(t) : t[i] # Slash /\ (i = 1 \/ t[i - 1] = Slash)}

NameEnd(t, i) == CHOOSE j \in i .. Len(t) :
                     (j = Len(t) \/ t[j + 1] = Slash) /\ \A k \in i .. j : t[k] # Slash

LEMMA BeginsFinite ==
  ASSUME NEW t, Len(t) \in Nat
  PROVE  Begins(t) \subseteq Nat /\ IsFiniteSet(Begins(t))
<1>1. Begins(t) \subseteq 1 .. Len(t)
  BY DEF Begins
<1>2. IsFiniteSet(1 .. Len(t))
  BY Segment
<1> QED BY <1>1, <1>2, FS_Subset

LEMMA NameEnds ==
  ASSUME NEW t, Len(t) \in Nat, NEW i \in Begins(t)
  PROVE  /\ NameEnd(t, i) \in i .. Len(t)
         /\ NameEnd(t, i) = Len(t) \/ t[NameEnd(t, i) + 1] = Slash
         /\ \A k \in i .. NameEnd(t, i) : t[k] # Slash
<1> DEFINE E == {j \in Nat : j \in i .. Len(t) /\ (j = Len(t) \/ t[j + 1] = Slash)}
<1>1. i \in 1 .. Len(t) /\ t[i] # Slash
  BY DEF Begins
<1>2. Len(t) \in E
  BY <1>1
<1>3. PICK j \in E : \A k \in E : j <= k
  BY <1>2, LeastNumber
<1>4. \A k \in i .. j : t[k] # Slash
  <2> SUFFICES ASSUME NEW k \in i .. j, k # i PROVE t[k] # Slash
    BY <1>1
  <2>1. k - 1 \in Nat /\ k - 1 \in i .. Len(t) /\ ~(j <= k - 1) /\ (k - 1) + 1 = k
    BY <1>1
  <2>2. k - 1 \notin E
    BY <1>3, <2>1
  <2> QED BY <2>1, <2>2
<1>5. \E e \in i .. Len(t) : (e = Len(t) \/ t[e + 1] = Slash) /\ \A k \in i .. e : t[k] # Slash
  BY <1>3, <1>4
<1> QED BY <1>5 DEF NameEnd

\* The names of a text, by their first and last characters.
LEMMA NamesByPlace ==
  ASSUME NEW t, Len(t) \in Nat, DOMAIN t = 1 .. Len(t)
  PROVE  Names(t) = [n \in 1 .. Cardinality(Begins(t)) |->
                        SubSeq(t, Nth(Begins(t), n), NameEnd(t, Nth(Begins(t), n)))]
<1> DEFINE IsSlash(i) == i \notin DOMAIN t \/ t[i] = Slash
           begins == {i \in DOMAIN t : ~IsSlash(i) /\ IsSlash(i - 1)}
           EndOf(i) == CHOOSE j \in i .. Len(t) :
                          IsSlash(j + 1) /\ \A k \in i .. j : ~IsSlash(k)
           nth(n) == CHOOSE i \in begins : Cardinality({k \in begins : k <= i}) = n
<1>1. Names(t) = [n \in 1 .. Cardinality(begins) |-> SubSeq(t, nth(n), EndOf(nth(n)))]
  BY DEF Names
<1>2. begins = Begins(t)
  <2>1. \A i \in 1 .. Len(t) : i - 1 \notin 1 .. Len(t) <=> i = 1
    OBVIOUS
  <2> QED BY <2>1 DEF Begins
<1>3. \A n : nth(n) = Nth(Begins(t), n)
  <2> HIDE DEF begins
  <2> QED BY <1>2 DEF Nth
<1>4. ASSUME NEW i \in Begins(t) PROVE EndOf(i) = NameEnd(t, i)
  <2>1. i \in 1 .. Len(t)
    BY DEF Begins
  <2>2. \A j \in i .. Len(t) : IsSlash(j + 1) <=> (j = Len(t) \/ t[j + 1] = Slash)
    <3> SUFFICES ASSUME NEW j \in i .. Len(t)
                 PROVE  IsSlash(j + 1) <=> (j = Len(t) \/ t[j + 1] = Slash)
      OBVIOUS
    <3>1. CASE j = Len(t)
      <4>1. j + 1 \notin 1 .. Len(t)
        BY <3>1
      <4> QED BY <3>1, <4>1
    <3>2. CASE j # Len(t)
      <4>1. j + 1 \in 1 .. Len(t)
        <5> HIDE DEF IsSlash, begins, EndOf, nth
        <5> QED BY <2>1, <3>2, OneMore
      <4> QED BY <3>2, <4>1
    <3> QED BY <3>1, <3>2
  <2>3. \A j \in i .. Len(t) : \A k \in i .. j : ~IsSlash(k) <=> t[k] # Slash
    BY <2>1
  <2> DEFINE P(j) == IsSlash(j + 1) /\ \A k \in i .. j : ~IsSlash(k)
             Q(j) == (j = Len(t) \/ t[j + 1] = Slash) /\ \A k \in i .. j : t[k] # Slash
  <2>4. \A j \in i .. Len(t) : P(j) <=> Q(j)
    BY <2>2, <2>3
  <2>5. EndOf(i) = (CHOOSE j \in i .. Len(t) : P(j)) /\ NameEnd(t, i) = (CHOOSE j \in i .. Len(t) : Q(j))
    BY DEF NameEnd
  <2> HIDE DEF P, Q, EndOf
  <2>6. {j \in i .. Len(t) : P(j)} = {j \in i .. Len(t) : Q(j)}
    BY <2>4
  <2> QED BY <2>4, <2>5
<1>5. Cardinality(Begins(t)) \in Nat
      /\ \A n \in 1 .. Cardinality(Begins(t)) : Nth(Begins(t), n) \in Begins(t)
  BY BeginsFinite, Places
<1> HIDE DEF begins, nth, EndOf
<1> QED BY <1>1, <1>2, <1>3, <1>4, <1>5

\* In a tidy text the names follow each other, with one delimiter in between.
LEMMA TidyNames ==
  ASSUME NEW t, Len(t) \in Nat, NEW f, Tidy(t, f)
  PROVE  LET N == Cardinality(Begins(t))
             First(k) == Nth(Begins(t), k)
         IN /\ N \in Nat /\ (N = 0 <=> f = Len(t))
            /\ N # 0 => First(1) = f + 1 /\ NameEnd(t, First(N)) = Len(t)
            /\ \A k \in 1 .. N - 1 : /\ t[NameEnd(t, First(k)) + 1] = Slash
                                     /\ First(k + 1) = NameEnd(t, First(k)) + 2
<1> DEFINE B == Begins(t)
           N == Cardinality(B)
           First(k) == Nth(B, k)
<1>1. B \subseteq Nat /\ IsFiniteSet(B)
  BY BeginsFinite
<1>2. /\ f \in 1 .. Len(t) /\ \A i \in 1 .. f : t[i] = Slash
      /\ \A i \in f .. Len(t) - 1 : t[i] # Slash \/ t[i + 1] # Slash
      /\ f < Len(t) => t[Len(t)] # Slash
  BY DEF Tidy
<1>3. \A i \in B : i \in f + 1 .. Len(t)
  <2> SUFFICES ASSUME NEW i \in B PROVE i \in f + 1 .. Len(t)
    OBVIOUS
  <2>1. i \in 1 .. Len(t) /\ t[i] # Slash
    BY DEF Begins
  <2>2. i \notin 1 .. f
    BY <1>2, <2>1
  <2> QED BY <1>2, <2>1, <2>2
<1>4. f < Len(t) => f + 1 \in B
  <2> SUFFICES ASSUME f < Len(t) PROVE f + 1 \in B
    OBVIOUS
  <2>1. f \in f .. Len(t) - 1 /\ f + 1 \in 1 .. Len(t) /\ (f + 1) - 1 = f /\ f \in 1 .. f
    BY <1>2
  <2>2. t[f] = Slash /\ t[f + 1] # Slash
    BY <1>2, <2>1
  <2> QED BY <2>1, <2>2 DEF Begins
<1>5. ASSUME NEW i \in B, NameEnd(t, i) # Len(t)
      PROVE  /\ t[NameEnd(t, i) + 1] = Slash /\ NameEnd(t, i) + 2 \in B
             /\ i < NameEnd(t, i) + 2
             /\ \A z \in B : z <= i \/ NameEnd(t, i) + 2 <= z
  <2> DEFINE j == NameEnd(t, i)
  <2>1. /\ j \in i .. Len(t) /\ t[j + 1] = Slash /\ \A k \in i .. j : t[k] # Slash
    BY <1>5, NameEnds
  <2> HIDE DEF j
  <2>2. i \in f + 1 .. Len(t) /\ j # Len(t)
    BY <1>3, <1>5 DEF j
  <2>3. f < Len(t) /\ j + 1 # Len(t)
    BY <1>2, <2>1, <2>2
  <2>4. j + 1 \in f .. Len(t) - 1 /\ (j + 1) + 1 = j + 2 /\ j + 2 \in 1 .. Len(t) /\ (j + 2) - 1 = j + 1
    BY <1>2, <2>1, <2>2, <2>3
  <2>5. t[j + 2] # Slash
    BY <1>2, <2>1, <2>4
  <2>6. j + 2 \in B
    BY <2>1, <2>4, <2>5 DEF Begins
  <2>7. ASSUME NEW z \in B, ~(z <= i), ~(j + 2 <= z) PROVE FALSE
    <3>1. z \in 1 .. Len(t) /\ t[z] # Slash /\ (z = 1 \/ t[z - 1] = Slash)
      BY DEF Begins
    <3>2. z = j + 1 \/ (z \in i + 1 .. j /\ z # 1 /\ z - 1 \in i .. j)
      BY <1>2, <2>1, <2>2, <2>7, <3>1
    <3> QED BY <2>1, <3>1, <3>2
  <2>8. i < j + 2
    BY <1>2, <2>1, <2>2
  <2> QED BY <2>1, <2>6, <2>7, <2>8 DEF j
<1>6. ASSUME NEW i \in B, NameEnd(t, i) = Len(t) PROVE \A z \in B : z <= i
  <2> SUFFICES ASSUME NEW z \in B, ~(z <= i) PROVE FALSE
    OBVIOUS
  <2>1. z \in 1 .. Len(t) /\ t[z] # Slash /\ (z = 1 \/ t[z - 1] = Slash)
    BY DEF Begins
  <2>2. \A k \in i .. Len(t) : t[k] # Slash
    BY <1>6, NameEnds
  <2>3. i \in f + 1 .. Len(t)
    BY <1>3
  <2>4. z # 1 /\ z - 1 \in i .. Len(t)
    BY <1>2, <2>1, <2>3
  <2> QED BY <2>1, <2>2, <2>4
<1> HIDE DEF B
<1>7. /\ N \in Nat
      /\ \A x \in B : Place(B, x) \in 1 .. N /\ Nth(B, Place(B, x)) = x
      /\ \A k \in 1 .. N : First(k) \in B /\ Place(B, First(k)) = k
  BY <1>1, Places
<1>8. \A i \in B, y \in B :
        i < y /\ (\A z \in B : z <= i \/ y <= z) => Place(B, y) = Place(B, i) + 1
  BY <1>1, NextPlace
<1>9. \A i \in B : /\ (\A z \in B : i <= z) => Place(B, i) = 1
                   /\ (\A z \in B : z <= i) => Place(B, i) = N
  BY <1>1, NextPlace
<1> HIDE DEF N
<1>10. N = 0 <=> f = Len(t)
  <2>1. CASE f < Len(t)
    <3>1. f + 1 \in B /\ Place(B, f + 1) \in 1 .. N
      BY <1>4, <1>7, <2>1
    <3> QED BY <1>2, <1>7, <2>1, <3>1
  <2>2. CASE f = Len(t)
    <3>1. B = {}
      BY <1>2, <1>3, <2>2
    <3>2. N # 0 => 1 \in 1 .. N
      BY <1>7
    <3> QED BY <1>7, <2>2, <3>1, <3>2
  <2> QED BY <1>2, <2>1, <2>2
<1>11. ASSUME N # 0 PROVE First(1) = f + 1 /\ NameEnd(t, First(N)) = Len(t)
  <2>1. f + 1 \in B
    BY <1>2, <1>4, <1>10, <1>11
  <2>2. \A z \in B : f + 1 <= z
    BY <1>2, <1>3
  <2>3. First(1) = f + 1
    BY <1>7, <1>9, <2>1, <2>2
  <2>4. N \in 1 .. N
    BY <1>7, <1>11
  <2>5. First(N) \in B /\ Place(B, First(N)) = N
    BY <1>7, <2>4
  <2>6. NameEnd(t, First(N)) = Len(t)
    <3> SUFFICES ASSUME NameEnd(t, First(N)) # Len(t) PROVE FALSE
      OBVIOUS
    <3> DEFINE next == NameEnd(t, First(N)) + 2
    <3>1. next \in B /\ Place(B, next) = N + 1
      BY <1>5, <1>8, <2>5
    <3>2. Place(B, next) \in 1 .. N
      BY <1>7, <3>1
    <3> QED BY <1>7, <3>1, <3>2
  <2> QED BY <2>3, <2>6
<1>12. ASSUME NEW k \in 1 .. N - 1
       PROVE  /\ t[NameEnd(t, First(k)) + 1] = Slash
              /\ First(k + 1) = NameEnd(t, First(k)) + 2
  <2>1. k \in 1 .. N /\ k # N
    BY <1>7
  <2>2. First(k) \in B /\ Place(B, First(k)) = k
    BY <1>7, <2>1
  <2>3. NameEnd(t, First(k)) # Len(t)
    BY <1>6, <1>9, <2>1, <2>2
  <2> DEFINE next == NameEnd(t, First(k)) + 2
  <2>4. t[NameEnd(t, First(k)) + 1] = Slash /\ next \in B /\ Place(B, next) = k + 1
    BY <1>5, <1>8, <2>2, <2>3
  <2> HIDE DEF next
  <2>5. First(k + 1) = next
    BY <1>7, <2>4
  <2> QED BY <2>4, <2>5 DEF next
<1> QED BY <1>7, <1>10, <1>11, <1>12 DEF N, B

\* Names that are none of a directory are kept as they are.
LEMMA NormalizedNames ==
  ASSUME NEW T, NEW names \in Seq(Seq(T)),
         \A i \in 1 .. Len(names) : names[i] \notin {Dot, DotDot}
  PROVE  Normalized(FALSE, names) = names
<1>1. PICK left \in [0 .. Len(names) -> Seq(Seq(T))] :
        /\ left[0] = <<>> /\ Normalized(FALSE, names) = left[Len(names)]
        /\ \A i \in 1 .. Len(names) : left[i] = WithName(FALSE, left[i - 1], names[i])
  BY NormalizedSteps
<1>2. Len(names) \in Nat
  OBVIOUS
<1>3. \A i \in 1 .. Len(names) : left[i] = Append(left[i - 1], names[i])
  BY <1>1 DEF WithName
<1>4. \A i \in 1 .. Len(names) : Append(SubSeq(names, 1, i - 1), names[i]) = SubSeq(names, 1, i)
  <2> SUFFICES ASSUME NEW i \in 1 .. Len(names)
               PROVE  Append(SubSeq(names, 1, i - 1), names[i]) = SubSeq(names, 1, i)
    OBVIOUS
  <2>1. 1 \in 1 .. Len(names) /\ i \in 1 .. Len(names)
    BY <1>2
  <2>2. SubSeq(names, 1, i) = SubSeq(names, 1, i - 1) \o <<names[i]>>
    BY <2>1, SubSeqRecursiveSecond
  <2>3. SubSeq(names, 1, i - 1) \in Seq(Seq(T)) /\ names[i] \in Seq(T)
    <3>1. \A k \in 1 .. i - 1 : names[k] \in Seq(T)
      OBVIOUS
    <3>2. i - 1 \in Int
      OBVIOUS
    <3> QED BY <3>1, <3>2, SubSeqProperties
  <2> QED BY <2>2, <2>3
<1>5. \A i \in 0 .. Len(names) : left[i] = SubSeq(names, 1, i)
  <2> DEFINE U == {i \in Nat : i <= Len(names) /\ left[i] # SubSeq(names, 1, i)}
  <2>0. \A i \in 0 .. Len(names) : i \in Nat /\ i <= Len(names)
    BY <1>2
  <2> SUFFICES ASSUME U # {} PROVE FALSE
    BY <2>0
  <2>1. PICK i \in U : \A k \in U : i <= k
    BY LeastNumber
  <2>2. i # 0
    BY <1>1, <2>1, SubSeqEmpty
  <2>3. i - 1 \in Nat /\ i - 1 <= Len(names) /\ i \in 1 .. Len(names) /\ ~(i <= i - 1)
    BY <1>2, <2>1, <2>2
  <2>4. left[i - 1] = SubSeq(names, 1, i - 1)
    BY <2>1, <2>3
  <2> QED BY <1>3, <1>4, <2>1, <2>3, <2>4
<1>6. Len(names) \in 0 .. Len(names)
  BY <1>2
<1> QED BY <1>1, <1>5, <1>6, SubSeqFull

\* A tidy text is printed as it is, with one delimiter at its beginning.
LEMMA TidyPath ==
  ASSUME NEW T, NEW t \in Seq(T), NEW f, Tidy(t, f)
  PROVE  Text(PathOf(t)) = SubSeq(t, f, Len(t)) /\ ~PathOf(t).relative
<1> DEFINE B == Begins(t)
           N == Cardinality(B)
           First(k) == Nth(B, k)
           Last1(k) == NameEnd(t, First(k))
           names == Names(t)
           parts == [i \in DOMAIN names |-> IF i = 1 THEN names[i] ELSE <<Slash>> \o names[i]]
<1>1. Len(t) \in Nat /\ DOMAIN t = 1 .. Len(t) /\ \A i \in 1 .. Len(t) : t[i] \in T
  OBVIOUS
<1>2. /\ N \in Nat /\ (N = 0 <=> f = Len(t))
      /\ N # 0 => First(1) = f + 1 /\ Last1(N) = Len(t)
      /\ \A k \in 1 .. N - 1 : t[Last1(k) + 1] = Slash /\ First(k + 1) = Last1(k) + 2
  BY <1>1, TidyNames
<1>3. \A k \in 1 .. N : First(k) \in B /\ First(k) \in 1 .. Len(t) /\ Last1(k) \in First(k) .. Len(t)
  <2>1. \A k \in 1 .. N : First(k) \in B
    BY <1>1, BeginsFinite, Places
  <2>2. \A i \in B : i \in 1 .. Len(t) /\ NameEnd(t, i) \in i .. Len(t)
    BY <1>1, NameEnds DEF Begins
  <2> HIDE DEF B, N, First
  <2> QED BY <2>1, <2>2
<1>4. names = [n \in 1 .. N |-> SubSeq(t, First(n), Last1(n))]
  BY <1>1, NamesByPlace
<1>5. names \in Seq(Seq(T)) /\ Len(names) = N
  <2>1. names \in Seq(Seq(T))
    BY NamesType
  <2> HIDE DEF names, N, First, Last1
  <2>2. DOMAIN names = 1 .. N
    BY <1>4
  <2>3. DOMAIN names = 1 .. Len(names) /\ Len(names) \in Nat
    BY <2>1, LenProperties
  <2>4. N \in Nat
    BY <1>2
  <2>5. 1 .. N = 1 .. Len(names)
    BY <2>2, <2>3
  <2>6. N = Len(names)
    BY <2>3, <2>4, <2>5, SameSegment
  <2> QED BY <2>1, <2>6
<1>6. f \in 1 .. Len(t) /\ t[f] = Slash /\ t[1] = Slash /\ \A i \in 1 .. Len(t) : t[i] \notin {".", ".."}
  <2>1. f \in 1 .. Len(t) /\ \A i \in 1 .. f : t[i] = Slash
    BY DEF Tidy
  <2>2. 1 \in 1 .. f /\ f \in 1 .. f
    BY <1>1, <2>1
  <2> QED BY <2>1, <2>2 DEF Tidy
<1> HIDE DEF names
<1>7. \A k \in 1 .. N : names[k] \notin {Dot, DotDot}
  <2> SUFFICES ASSUME NEW k \in 1 .. N PROVE names[k] \notin {Dot, DotDot}
    OBVIOUS
  <2>1. names[k] = SubSeq(t, First(k), Last1(k)) /\ First(k) \in 1 .. Len(t) /\ Last1(k) \in First(k) .. Len(t)
    BY <1>3, <1>4
  <2> HIDE DEF First, Last1
  <2>2. \A i \in First(k) .. Last1(k) : t[i] \in T
    BY <1>1, <2>1
  <2>3. 1 \in 1 .. Last1(k) - First(k) + 1 /\ First(k) + 1 - 1 = First(k)
    BY <1>1, <2>1
  <2>4. names[k][1] = t[First(k)]
    BY <2>1, <2>2, <2>3, SubSeqProperties
  <2>5. Dot[1] = "." /\ DotDot[1] = ".."
    BY DEF Dot, DotDot
  <2>6. t[First(k)] \notin {".", ".."}
    BY <1>6, <2>1
  <2> QED BY <2>4, <2>5, <2>6
<1>8. PathOf(t) = [relative |-> FALSE, names |-> names]
  <2>1. (t = <<>> \/ t[1] # Slash) = FALSE
    BY <1>1, <1>6
  <2>2. Normalized(FALSE, names) = names
    <3> HIDE DEF N
    <3> QED BY <1>5, <1>7, NormalizedNames
  <2> QED BY <2>1, <2>2 DEF PathOf, names
<1>9. Text(PathOf(t)) = <<Slash>> \o FlattenSeq(parts) /\ ~PathOf(t).relative
  BY <1>8 DEF Text
<1>10. CASE N = 0
  <2>1. parts = <<>> /\ f = Len(t)
    BY <1>2, <1>5, <1>10
  <2>2. FlattenSeq(parts) = <<>>
    <3>1. Len(<<>>) = 0
      OBVIOUS
    <3> HIDE DEF parts
    <3> QED BY <2>1, <3>1 DEF FlattenSeq
  <2>3. SubSeq(t, f, Len(t)) = <<Slash>>
    <3> HIDE DEF parts, N
    <3>1. Len(t) \in 1 .. Len(t) /\ Len(t) \in Len(t) .. Len(t) /\ Len(t) < Len(t) + 1
      BY <1>1, <1>6, <2>1
    <3>2. SubSeq(t, Len(t), Len(t)) = <<t[Len(t)]>> \o SubSeq(t, Len(t) + 1, Len(t))
      BY <3>1, SubSeqRecursiveFirst
    <3>3. SubSeq(t, Len(t) + 1, Len(t)) = <<>>
      BY <1>1, <3>1, SubSeqEmpty
    <3>4. <<t[Len(t)]>> \o <<>> = <<t[Len(t)]>>
      OBVIOUS
    <3> QED BY <1>6, <2>1, <3>2, <3>3, <3>4
  <2>4. <<Slash>> \o <<>> = <<Slash>>
    OBVIOUS
  <2> QED BY <1>9, <2>2, <2>3, <2>4
<1>11. CASE N # 0
  <2>1. N \in Nat \ {0} /\ 1 \in 1 .. N /\ N \in 1 .. N
    BY <1>2, <1>11
  <2>2. Slash \in T /\ <<Slash>> \in Seq(T)
    BY <1>1, <1>6
  <2>3. \A k \in 1 .. N : /\ names[k] = SubSeq(t, First(k), Last1(k)) /\ names[k] \in Seq(T)
                          /\ parts[k] = IF k = 1 THEN names[k] ELSE <<Slash>> \o names[k]
                          /\ parts[k] \in Seq(T)
    <3> HIDE DEF N, First, Last1
    <3>1. \A k \in 1 .. N : k \in DOMAIN names
      BY <1>4
    <3>2. \A k \in 1 .. N : names[k] = SubSeq(t, First(k), Last1(k))
      BY <1>4
    <3>3. \A k \in 1 .. N : names[k] \in Seq(T)
      BY <1>5, ElementOfSeq
    <3> QED BY <2>2, <3>1, <3>2, <3>3, ConcatProperties
  <2>4. parts \in Seq(Seq(T)) /\ Len(parts) = N
    <3>1. DOMAIN parts = 1 .. N
      BY <1>4
    <3> HIDE DEF N, First, Last1
    <3>2. parts = [k \in 1 .. N |-> parts[k]]
      BY <3>1
    <3> HIDE DEF parts
    <3>3. parts \in [1 .. N -> Seq(T)]
      BY <2>3, <3>2
    <3> QED BY <2>1, <3>3, FunctionIsSeq
  <2> HIDE DEF parts, N, First, Last1
  <2>5. PICK flat \in [1 .. N -> Seq(T)] :
          /\ flat[1] = parts[1] /\ FlattenSeq(parts) = flat[N]
          /\ \A i \in 2 .. N : flat[i] = flat[i - 1] \o parts[i]
    <3>1. Len(parts) # 0
      BY <2>1, <2>4
    <3>2. \E flat \in [1 .. Len(parts) -> Seq(T)] :
            /\ flat[1] = parts[1] /\ FlattenSeq(parts) = flat[Len(parts)]
            /\ \A i \in 2 .. Len(parts) : flat[i] = flat[i - 1] \o parts[i]
      BY <2>4, <3>1, FlattenSteps
    <3> QED BY <2>4, <3>2
  <2>6. \A k \in 1 .. N : flat[k] = SubSeq(t, f + 1, Last1(k))
    <3> DEFINE U == {k \in Nat : k \in 1 .. N /\ flat[k] # SubSeq(t, f + 1, Last1(k))}
    <3>0. \A k \in 1 .. N : k \in Nat
      BY <2>1
    <3> SUFFICES ASSUME U # {} PROVE FALSE
      BY <3>0
    <3>1. PICK k \in U : \A j \in U : k <= j
      BY LeastNumber
    <3>2. k # 1
      BY <1>2, <1>11, <2>1, <2>3, <2>5, <3>1
    <3>3. k \in 2 .. N /\ k - 1 \in Nat /\ k - 1 \in 1 .. N /\ k - 1 \in 1 .. N - 1 /\ ~(k <= k - 1)
          /\ (k - 1) + 1 = k
      BY <2>1, <3>1, <3>2
    <3> DEFINE b == Last1(k - 1)
               c == Last1(k)
    <3>4. flat[k - 1] = SubSeq(t, f + 1, b)
      BY <3>1, <3>3
    <3>5. t[b + 1] = Slash /\ First(k) = b + 2
      BY <1>2, <3>3
    <3>6. b \in 1 .. Len(t) /\ c \in b + 2 .. Len(t)
      <4>1. b \in First(k - 1) .. Len(t) /\ First(k - 1) \in 1 .. Len(t) /\ c \in First(k) .. Len(t)
        BY <1>3, <3>1, <3>3
      <4> HIDE DEF b, c
      <4> QED BY <1>1, <3>5, <4>1
    <3>7. parts[k] = <<Slash>> \o SubSeq(t, b + 2, c)
      BY <2>3, <3>1, <3>2, <3>5
    <3> HIDE DEF b, c
    <3>8. parts[k] = SubSeq(t, b + 1, c)
      <4>1. b + 1 \in 1 .. Len(t) /\ c \in b + 1 .. Len(t) /\ (b + 1) + 1 = b + 2
        BY <1>1, <3>6
      <4>2. SubSeq(t, b + 1, c) = <<t[b + 1]>> \o SubSeq(t, (b + 1) + 1, c)
        BY <4>1, SubSeqRecursiveFirst
      <4> QED BY <3>5, <3>7, <4>1, <4>2
    <3>9. f <= b
      <4> DEFINE V == {j \in Nat : j \in 1 .. N /\ ~(f <= Last1(j))}
      <4>1. First(1) = f + 1 /\ \A j \in 1 .. N : Last1(j) \in First(j) .. Len(t)
        BY <1>2, <1>3, <1>11
      <4> SUFFICES ASSUME V # {} PROVE FALSE
        BY <3>3 DEF b
      <4>2. PICK j \in V : \A l \in V : j <= l
        BY LeastNumber
      <4>3. CASE j = 1
        BY <1>6, <2>1, <4>1, <4>2, <4>3
      <4>4. CASE j # 1
        <5>1. j - 1 \in Nat /\ j - 1 \in 1 .. N /\ j - 1 \in 1 .. N - 1 /\ ~(j <= j - 1)
              /\ (j - 1) + 1 = j
          BY <2>1, <4>2, <4>4
        <5>2. f <= Last1(j - 1)
          BY <4>2, <5>1
        <5>3. First(j) = Last1(j - 1) + 2
          BY <1>2, <5>1
        <5>4. /\ First(j) \in 1 .. Len(t) /\ Last1(j) \in First(j) .. Len(t)
              /\ First(j - 1) \in 1 .. Len(t) /\ Last1(j - 1) \in First(j - 1) .. Len(t)
          BY <1>3, <4>2, <5>1
        <5> QED BY <1>1, <1>6, <4>2, <5>2, <5>3, <5>4
      <4> QED BY <4>3, <4>4
    <3>10. SubSeq(t, f + 1, b) \o SubSeq(t, b + 1, c) = SubSeq(t, f + 1, c)
      <4>1. f + 1 \in 1 .. Len(t) + 1 /\ b \in (f + 1) - 1 .. Len(t) /\ c \in b .. Len(t)
        BY <1>1, <1>6, <3>6, <3>9
      <4> QED BY <4>1, ConcatAdjacentSubSeq
    <3>11. flat[k] = SubSeq(t, f + 1, c)
      BY <2>5, <3>3, <3>4, <3>8, <3>10
    <3> QED BY <3>1, <3>11 DEF c
  <2>7. FlattenSeq(parts) = SubSeq(t, f + 1, Len(t))
    BY <1>2, <1>11, <2>1, <2>5, <2>6
  <2>8. SubSeq(t, f, Len(t)) = <<t[f]>> \o SubSeq(t, f + 1, Len(t))
    <3>1. f \in 1 .. Len(t) /\ Len(t) \in f .. Len(t)
      BY <1>1, <1>6
    <3> QED BY <3>1, SubSeqRecursiveFirst
  <2> QED BY <1>6, <1>9, <2>7, <2>8 DEF parts
<1> QED BY <1>10, <1>11

-----------------------------------------------------------------------------
(* What the parser finds *)

LEMMA FirstOfIs ==
  ASSUME NEW u \in Seq(Token), NEW p \in 1 .. Len(u) + 1, NEW stops,
         NEW q \in p .. Len(u) + 1, TokenAt(u, q) \in stops \cup {Nul},
         \A i \in p .. q - 1 : u[i] \notin stops
  PROVE  FirstOf(u, p, stops) = q
<1> DEFINE s == FirstOf(u, p, stops)
<1>1. /\ s \in p .. Len(u) + 1 /\ TokenAt(u, s) \in stops \cup {Nul}
      /\ \A i \in p .. s - 1 : u[i] \notin stops
  <2> HIDE DEF s
  <2> QED BY FirstOfStops DEF s
<1> HIDE DEF s
<1>2. \A i \in 1 .. Len(u) : TokenAt(u, i) = u[i] /\ u[i] # Nul
  BY TokensApart DEF TokenAt
<1>3. CASE s < q
  <2>1. s \in p .. q - 1 /\ s \in 1 .. Len(u)
    BY <1>1, <1>3
  <2> QED BY <1>1, <1>2, <2>1
<1>4. CASE q < s
  <2>1. q \in p .. s - 1 /\ q \in 1 .. Len(u)
    BY <1>1, <1>4
  <2> QED BY <1>2, <1>1, <2>1
<1> QED BY <1>1, <1>3, <1>4 DEF s

\* The characters of a part, one by one.
LEMMA BetweenAt ==
  ASSUME NEW T, NEW u, NEW p \in Nat, NEW q \in Nat, p <= q, \A i \in p .. q - 1 : u[i] \in T
  PROVE  /\ Between(u, p, q) \in Seq(T) /\ Len(Between(u, p, q)) = q - p
         /\ \A i \in 1 .. q - p : Between(u, p, q)[i] = u[p + i - 1]
         /\ \A i \in p .. q - 1 : u[i] \in ToSet(Between(u, p, q))
<1> DEFINE b == SubSeq(u, p, q - 1)
<1>1. p \in Int /\ q - 1 \in Int /\ q - 1 - p + 1 = q - p /\ (p <= q - 1 \/ q - p = 0)
  OBVIOUS
<1>2. /\ b \in Seq(T) /\ Len(b) = IF p <= q - 1 THEN q - 1 - p + 1 ELSE 0
      /\ \A i \in 1 .. q - 1 - p + 1 : b[i] = u[p + i - 1]
  BY <1>1, SubSeqProperties
<1> HIDE DEF b
<1>3. Len(b) = q - p /\ \A i \in 1 .. q - p : b[i] = u[p + i - 1]
  BY <1>1, <1>2
<1>4. ASSUME NEW i \in p .. q - 1 PROVE u[i] \in ToSet(b)
  <2>1. i - p + 1 \in 1 .. q - p /\ p + (i - p + 1) - 1 = i
    OBVIOUS
  <2>2. b[i - p + 1] = u[i] /\ i - p + 1 \in DOMAIN b
    BY <1>2, <1>3, <2>1
  <2> QED BY <2>2 DEF ToSet
<1> QED BY <1>2, <1>3, <1>4 DEF Between, b

\* The parts of a URI with an authority, as RFC 3986 has them.
Colon(u) == FirstOf(u, 1, {":"})
AuthorityEnd(u) == FirstOf(u, Colon(u) + 3, {Slash, "?", "#"})
AtSign(u) == FirstOf(u, Colon(u) + 3, {"@"})
HasUserinfo(u) == AtSign(u) < AuthorityEnd(u)
HostBegin(u) == IF HasUserinfo(u) THEN AtSign(u) + 1 ELSE Colon(u) + 3
HostEnd(u) ==
    LET c == FirstOf(u, HostBegin(u), {":"}) IN IF c < AuthorityEnd(u) THEN c ELSE AuthorityEnd(u)
PathEnd(u) == FirstOf(u, AuthorityEnd(u), {"?", "#"})

LEMMA Layout ==
  ASSUME NEW u \in Seq(Token), HasAuthority(u)
  PROVE  /\ Len(u) \in Nat /\ Colon(u) \in 1 .. Len(u) /\ Colon(u) + 2 <= Len(u)
         /\ Skip(u, 1, schemeChar) = Colon(u) /\ AtAuthority(u, Colon(u))
         /\ AuthorityEnd(u) \in Colon(u) + 3 .. Len(u) + 1
         /\ TokenAt(u, AuthorityEnd(u)) \in {Slash, "?", "#", Nul}
         /\ \A i \in Colon(u) + 3 .. AuthorityEnd(u) - 1 : u[i] \notin {Slash, "?", "#"}
         /\ AtSign(u) \in Colon(u) + 3 .. Len(u) + 1
         /\ \A i \in Colon(u) + 3 .. AtSign(u) - 1 : u[i] # "@"
         /\ HasUserinfo(u) => AtSign(u) <= Len(u) /\ u[AtSign(u)] = "@"
         /\ PathEnd(u) \in AuthorityEnd(u) .. Len(u) + 1
         /\ TokenAt(u, PathEnd(u)) \in {"?", "#", Nul}
         /\ \A i \in AuthorityEnd(u) .. PathEnd(u) - 1 : u[i] \notin {"?", "#"}
<1> DEFINE first == Colon(u) + 3
           end == AuthorityEnd(u)
           at1 == AtSign(u)
<1>1. /\ Len(u) \in Nat /\ Colon(u) \in 1 .. Len(u) /\ Colon(u) + 2 <= Len(u)
      /\ Skip(u, 1, schemeChar) = Colon(u) /\ AtAuthority(u, Colon(u))
  BY SchemeFound DEF Colon
<1>2. first \in 1 .. Len(u) + 1 /\ first \in Nat
  BY <1>1
<1> HIDE DEF first
<1>3. /\ end \in first .. Len(u) + 1 /\ TokenAt(u, end) \in {Slash, "?", "#"} \cup {Nul}
      /\ \A i \in first .. end - 1 : u[i] \notin {Slash, "?", "#"}
  BY <1>1, <1>2, FirstOfStops DEF AuthorityEnd, first
<1>4. /\ at1 \in first .. Len(u) + 1 /\ TokenAt(u, at1) \in {"@"} \cup {Nul}
      /\ \A i \in first .. at1 - 1 : u[i] \notin {"@"}
  BY <1>1, <1>2, FirstOfStops DEF AtSign, first
<1> HIDE DEF end, at1
<1>5. HasUserinfo(u) => at1 <= Len(u) /\ u[at1] = "@"
  <2> SUFFICES ASSUME at1 < end PROVE at1 <= Len(u) /\ u[at1] = "@"
    BY DEF HasUserinfo, end, at1
  <2>1. at1 \in 1 .. Len(u)
    BY <1>1, <1>2, <1>3, <1>4
  <2>2. TokenAt(u, at1) = u[at1] /\ u[at1] # Nul
    BY <2>1, TokensApart DEF TokenAt
  <2> QED BY <1>4, <2>1, <2>2
<1>6. end \in 1 .. Len(u) + 1
  BY <1>1, <1>2, <1>3
<1>7. /\ PathEnd(u) \in end .. Len(u) + 1 /\ TokenAt(u, PathEnd(u)) \in {"?", "#"} \cup {Nul}
      /\ \A i \in end .. PathEnd(u) - 1 : u[i] \notin {"?", "#"}
  BY <1>1, <1>6, FirstOfStops DEF PathEnd, end
<1> QED BY <1>1, <1>3, <1>4, <1>5, <1>7 DEF end, at1, first

LEMMA WrittenParts ==
  ASSUME NEW u
  PROVE  /\ Written(u).userinfo = If(HasUserinfo(u), Between(u, Colon(u) + 3, AtSign(u)))
         /\ Written(u).host = Between(u, HostBegin(u), HostEnd(u))
         /\ LET c == FirstOf(u, HostBegin(u), {":"}) IN
            /\ Written(u).hasPort = (c < AuthorityEnd(u))
            /\ Written(u).port = Between(u, c + 1, AuthorityEnd(u))
         /\ Written(u).path = Between(u, AuthorityEnd(u), PathEnd(u))
BY DEF Written, HostBegin, HostEnd, HasUserinfo, AuthorityEnd, AtSign, PathEnd, Colon

\* The characters that the parser knows, and those that it does not.
LEMMA CharsKnown ==
  /\ Token = pcharSlash \cup {"?", "#", "[", "]"}
  /\ {"?", "#", "[", "]"} \cap pcharSlash = {}
  /\ regnameChar \subseteq userinfoChar /\ userinfoChar \subseteq pcharSlash
  /\ pcharSlash = userinfoChar \cup {"@", Slash} /\ userinfoChar = regnameChar \cup {":"}
  /\ {Slash, "?", "#", "[", "]", Nul, ":", "@"} \cap regnameChar = {}
  /\ Slash \notin {"?", "#", "[", "]", ":", "@", Nul}
BY UriAssumption DEF UriAssumption, regnameChar, userinfoChar, pcharSlash,
   unreserved, Delimiters, Nul, Digit, Escape, Slash, Stars, Token

\* A host that is a name, with nothing after it but the digits of a port: the parser
\* reads it to its end, and the port to the end of the authority.
LEMMA HostFound ==
  ASSUME NEW u \in Seq(Token), NamesHost(u)
  PROVE  /\ HostBegin(u) \in 1 .. HostEnd(u) /\ HostEnd(u) \in 1 .. AuthorityEnd(u)
         /\ Skip(u, HostBegin(u), regnameChar) = HostEnd(u)
         /\ TokenAt(u, HostBegin(u)) # "["
         /\ AuthorityEnd(u) = IF TokenAt(u, HostEnd(u)) = ":" THEN Skip(u, HostEnd(u) + 1, {Digit})
                                                            ELSE HostEnd(u)
         /\ ~Written(u).hasPort => HostEnd(u) = AuthorityEnd(u)
         /\ Written(u).host = Between(u, HostBegin(u), HostEnd(u))
<1> DEFINE h == HostBegin(u)
           e == HostEnd(u)
           end == AuthorityEnd(u)
           c == FirstOf(u, h, {":"})
<1>1. /\ Len(u) \in Nat /\ Colon(u) \in 1 .. Len(u) /\ end \in Colon(u) + 3 .. Len(u) + 1
      /\ TokenAt(u, end) \in {Slash, "?", "#", Nul}
      /\ AtSign(u) \in Colon(u) + 3 .. Len(u) + 1
  BY Layout DEF NamesHost
<1>2. h \in 1 .. end /\ h \in Nat /\ end \in Nat
  <2> HIDE DEF end
  <2>1. HasUserinfo(u) <=> AtSign(u) < end
    BY DEF HasUserinfo, end
  <2> QED BY <1>1, <2>1 DEF HostBegin
<1>3. /\ Written(u).host = Between(u, h, e) /\ Written(u).port = Between(u, c + 1, end)
      /\ Written(u).hasPort = (c < end) /\ e = IF c < end THEN c ELSE end
  BY WrittenParts DEF HostEnd
<1>4. ToSet(Between(u, h, e)) \subseteq regnameChar /\ ToSet(Between(u, c + 1, end)) \subseteq {Digit}
  BY <1>3 DEF NamesHost
<1> HIDE DEF h, e, end
<1>5. /\ c \in h .. Len(u) + 1 /\ TokenAt(u, c) \in {":"} \cup {Nul}
      /\ \A i \in h .. c - 1 : u[i] \notin {":"}
  <2>1. h \in 1 .. Len(u) + 1
    BY <1>1, <1>2
  <2> HIDE DEF c
  <2> QED BY <1>1, <2>1, FirstOfStops DEF c
<1> HIDE DEF c
<1>6. e \in h .. end /\ e \in 1 .. end /\ e \in Nat /\ h <= e /\ c \in Nat
  BY <1>1, <1>2, <1>3, <1>5
<1>7. \A i \in 1 .. Len(u) : u[i] \in Token /\ u[i] # Nul /\ TokenAt(u, i) = u[i]
  BY TokensApart DEF TokenAt
<1>8. \A i \in h .. e - 1 : u[i] \in regnameChar
  <2>1. \A i \in h .. e - 1 : i \in 1 .. Len(u)
    BY <1>1, <1>2, <1>6
  <2>2. \A i \in h .. e - 1 : u[i] \in Token
    BY <1>7, <2>1
  <2>3. \A i \in h .. e - 1 : u[i] \in ToSet(Between(u, h, e))
    BY <1>2, <1>6, <2>2, BetweenAt
  <2> QED BY <1>4, <2>3
<1>9. TokenAt(u, end) \notin regnameChar /\ TokenAt(u, end) \notin {":", "[", Digit}
  <2>1. Digit \notin {Slash, "?", "#", Nul}
    BY DEF Digit, Slash, Nul
  <2> QED BY <1>1, <2>1, CharsKnown DEF Nul
<1>10. ASSUME c < end
       PROVE  e = c /\ TokenAt(u, e) = ":" /\ Skip(u, e + 1, {Digit}) = end
  <2>1. e = c /\ c \in 1 .. Len(u)
    BY <1>1, <1>2, <1>3, <1>5, <1>10
  <2>2. TokenAt(u, c) = ":"
    BY <1>5, <1>7, <2>1
  <2> DEFINE f == c + 1
  <2>3. f \in Nat /\ f <= end /\ f \in 1 .. Len(u) + 1 /\ end \in f .. Len(u) + 1
    BY <1>1, <1>2, <1>10, <2>1
  <2>4. \A i \in f .. end - 1 : i \in 1 .. Len(u)
    BY <1>1, <1>2, <2>3
  <2>5. ToSet(Between(u, f, end)) \subseteq {Digit}
    BY <1>4
  <2> HIDE DEF f
  <2>6. \A i \in f .. end - 1 : u[i] \in ToSet(Between(u, f, end))
    <3>1. \A i \in f .. end - 1 : u[i] \in Token
      BY <1>7, <2>4
    <3>2. f \in Nat
      BY <2>3
    <3>3. end \in Nat
      BY <1>2
    <3>4. f <= end
      BY <2>3
    <3>5. /\ Between(u, f, end) \in Seq(Token) /\ Len(Between(u, f, end)) = end - f
          /\ \A i \in 1 .. end - f : Between(u, f, end)[i] = u[f + i - 1]
          /\ \A i \in f .. end - 1 : u[i] \in ToSet(Between(u, f, end))
      BY <3>1, <3>2, <3>3, <3>4, BetweenAt
    <3> QED BY <3>5
  <2>7. \A i \in f .. end - 1 : u[i] \in {Digit}
    BY <2>5, <2>6
  <2>8. TokenAt(u, end) \notin {Digit}
    BY <1>9
  <2>9. Skip(u, f, {Digit}) = end
    BY <1>1, <2>3, <2>7, <2>8, SkipIs, CharsApart
  <2> QED BY <2>1, <2>2, <2>9 DEF f
<1>11. ASSUME ~(c < end) PROVE e = end /\ TokenAt(u, e) # ":"
  BY <1>3, <1>9, <1>11
<1>12. TokenAt(u, e) \notin regnameChar /\ TokenAt(u, e) # "["
  <2>1. ":" \notin regnameChar /\ ":" # "["
    BY CharsKnown
  <2> QED BY <1>9, <1>10, <1>11, <2>1
<1>13. Skip(u, h, regnameChar) = e
  <2>1. h \in 1 .. Len(u) + 1 /\ e \in h .. Len(u) + 1
    BY <1>1, <1>2, <1>6
  <2> QED BY <1>1, <1>8, <1>12, <2>1, SkipIs, CharsApart
<1>14. TokenAt(u, h) # "["
  <2>1. CASE h = e
    BY <1>12, <2>1
  <2>2. CASE h # e
    <3>1. h \in h .. e - 1 /\ h \in 1 .. Len(u)
      BY <1>1, <1>2, <1>6, <2>2
    <3>2. TokenAt(u, h) = u[h] /\ u[h] \in regnameChar
      BY <1>7, <1>8, <3>1
    <3> QED BY <3>2, CharsKnown
  <2> QED BY <2>1, <2>2
<1>15. h \in 1 .. e
  BY <1>2, <1>6
<1>16. end = IF TokenAt(u, e) = ":" THEN Skip(u, e + 1, {Digit}) ELSE e
  BY <1>10, <1>11
<1>17. ~Written(u).hasPort => e = end
  BY <1>3, <1>11
<1> QED BY <1>3, <1>6, <1>13, <1>14, <1>15, <1>16, <1>17 DEF h, e, end

\* The parser takes as the path what RFC 3986 does, unless it stops at a bracket.
LEMMA PathFound ==
  ASSUME NEW u \in Seq(Token), HasAuthority(u), NEW uri,
         \/ Rest(u, AuthorityEnd(u), uri).result = "ok"
         \/ ToSet(Written(u).path) \subseteq pcharSlash
  PROVE  /\ Skip(u, AuthorityEnd(u), pcharSlash) = PathEnd(u)
         /\ \A i \in AuthorityEnd(u) .. PathEnd(u) - 1 : u[i] \in pcharSlash
<1> DEFINE end == AuthorityEnd(u)
           path == Skip(u, end, pcharSlash)
<1>1. /\ Len(u) \in Nat /\ Colon(u) \in 1 .. Len(u) /\ end \in Colon(u) + 3 .. Len(u) + 1
      /\ PathEnd(u) \in end .. Len(u) + 1 /\ TokenAt(u, PathEnd(u)) \in {"?", "#", Nul}
      /\ \A i \in end .. PathEnd(u) - 1 : u[i] \notin {"?", "#"}
  BY Layout
<1>2. Written(u).path = Between(u, end, PathEnd(u))
  BY WrittenParts
<1>3. Rest(u, end, uri).result = "ok" =>
        LET query == IF TokenAt(u, path) = "?" THEN Skip(u, path + 1, queryChar) ELSE path
        IN (IF TokenAt(u, query) = "#" THEN Skip(u, query + 1, queryChar) ELSE query) = Len(u) + 1
  BY DEF Rest, Parsed
<1>4. \/ Rest(u, end, uri).result = "ok"
      \/ ToSet(Written(u).path) \subseteq pcharSlash
  OBVIOUS
<1> HIDE DEF end
<1>5. end \in 1 .. Len(u) + 1 /\ end \in Nat /\ PathEnd(u) \in Nat /\ end <= PathEnd(u)
  BY <1>1
<1>6. \A i \in 1 .. Len(u) : TokenAt(u, i) = u[i] /\ u[i] \in Token /\ u[i] # Nul
  BY TokensApart DEF TokenAt
<1>7. CASE ToSet(Written(u).path) \subseteq pcharSlash
  <2>1. \A i \in end .. PathEnd(u) - 1 : i \in 1 .. Len(u)
    BY <1>1, <1>5
  <2>2. \A i \in end .. PathEnd(u) - 1 : u[i] \in Token
    BY <1>6, <2>1
  <2>3. \A i \in end .. PathEnd(u) - 1 : u[i] \in ToSet(Between(u, end, PathEnd(u)))
    BY <1>5, <2>2, BetweenAt
  <2>4. \A i \in end .. PathEnd(u) - 1 : u[i] \in pcharSlash
    BY <1>2, <1>7, <2>3
  <2>5. TokenAt(u, PathEnd(u)) \notin pcharSlash
    BY <1>1, CharsApart
  <2>6. path = PathEnd(u)
    BY <1>1, <1>5, <2>4, <2>5, SkipIs, CharsApart
  <2> QED BY <2>4, <2>6 DEF end
<1>8. CASE Rest(u, end, uri).result = "ok"
  <2>1. /\ path \in end .. Len(u) + 1 /\ TokenAt(u, path) \notin pcharSlash
        /\ \A i \in end .. path - 1 : u[i] \in pcharSlash
    <3> HIDE DEF path
    <3> QED BY <1>1, <1>5, SkipStops, CharsApart DEF path
  <2> HIDE DEF path
  <2>2. TokenAt(u, path) \in {"?", "#", Nul}
    <3>1. CASE path = Len(u) + 1
      <4>1. ~(path <= Len(u))
        BY <1>1, <3>1
      <4> QED BY <4>1 DEF TokenAt
    <3>2. CASE path # Len(u) + 1
      <4>1. path \in 1 .. Len(u)
        BY <1>1, <1>5, <2>1, <3>2
      <4>2. TokenAt(u, path) \in {"?", "#", "[", "]"}
        BY <1>6, <2>1, <4>1, CharsKnown
      <4>3. TokenAt(u, path) \in {"?", "#"}
        <5> SUFFICES ASSUME TokenAt(u, path) \notin {"?", "#"} PROVE FALSE
          OBVIOUS
        <5> QED BY <1>3, <1>8, <3>2
      <4> QED BY <4>3
    <3> QED BY <3>1, <3>2
  <2>3. \A i \in end .. path - 1 : u[i] \notin {"?", "#"}
    BY <2>1, CharsApart
  <2>4. PathEnd(u) = path
    BY <1>5, <2>1, <2>2, <2>3, FirstOfIs DEF PathEnd, end
  <2> QED BY <2>1, <2>4 DEF end, path
<1> QED BY <1>4, <1>7, <1>8 DEF end

\* A URI with its user information, its host and its port.
With(uri, info, host, port) == [SplitUser(uri, info) EXCEPT !.host = host, !.port = port]

\* The user information of the authority at p, if the parser finds any before q.
InfoBefore(u, p, q) == IF TokenAt(u, q) = "@" THEN Between(u, p + 2, q) ELSE <<>>

\* The port behind a host that ends at e: where it ends, and its value.
PortEnd(u, e) == IF TokenAt(u, e) = ":" THEN Skip(u, e + 1, {Digit}) ELSE e
PortRead(u, e) == IF PortEnd(u, e) = e THEN 0 ELSE Port(PortEnd(u, e) - e - 1)
TooLarge(u, e) == PortRead(u, e) > 65535

LEMMA PortType ==
  ASSUME NEW u, Len(u) \in Nat, NEW e \in 1 .. Len(u) + 1
  PROVE  PortRead(u, e) \in Ports
<1> DEFINE z == PortEnd(u, e)
<1>1. CASE TokenAt(u, e) = ":"
  <2>1. e <= Len(u)
    BY <1>1 DEF TokenAt, Nul
  <2>2. e + 1 \in 1 .. Len(u) + 1
    BY <2>1
  <2>3. z \in e + 1 .. Len(u) + 1
    BY <1>1, <2>2, SkipStops, CharsApart DEF PortEnd
  <2>4. z # e /\ z - e - 1 \in Nat
    BY <2>3
  <2> QED BY <2>4 DEF PortRead, Ports
<1>2. CASE TokenAt(u, e) # ":"
  BY <1>2 DEF PortRead, PortEnd, Ports
<1> QED BY <1>1, <1>2

\* The authority, by the places that the parser finds.
LEMMA AuthorityAt ==
  ASSUME NEW u, NEW p, NEW uri, NEW q, NEW h, NEW e,
         Skip(u, p + 2, userinfoChar) = q, HostFrom(TokenAt(u, q) = "@", p, q) = h,
         Skip(u, h, regnameChar) = e
  PROVE  /\ TokenAt(u, h) = "[" => Authority(u, p, uri).result # "ok"
         /\ TokenAt(u, h) # "[" /\ TooLarge(u, e) => Authority(u, p, uri).result # "ok"
         /\ TokenAt(u, h) # "[" /\ ~TooLarge(u, e) =>
               Authority(u, p, uri) =
                   Rest(u, PortEnd(u, e),
                        With(uri, InfoBefore(u, p, q), Between(u, h, e), PortRead(u, e)))
<1> DEFINE Q == Skip(u, p + 2, userinfoChar)
           given == TokenAt(u, Q) = "@"
           info == IF given THEN Between(u, p + 2, Q) ELSE <<>>
           H == HostFrom(given, p, Q)
           E == Skip(u, H, regnameChar)
           Z == IF TokenAt(u, E) = ":" THEN Skip(u, E + 1, {Digit}) ELSE E
           port == IF Z = E THEN 0 ELSE Port(Z - E - 1)
           known == [SplitUser(uri, info) EXCEPT !.host = Between(u, H, E), !.port = port]
           closed == \E i \in H + 1 .. Len(u) : u[i] = "]"
           large == port > 65535
<1>1. Authority(u, p, uri) =
        IF TokenAt(u, H) = "["
        THEN IF closed THEN Throws(uri) ELSE Parsed(FALSE, Empty)
        ELSE IF large THEN Parsed(FALSE, Empty)
        ELSE Rest(u, Z, known)
  BY DEF Authority, Q, given, info, H, E, Z, port, known, closed, large
<1> HIDE DEF closed, large
<1>2. Q = q
  OBVIOUS
<1> HIDE DEF Q
<1>3. H = h
  BY <1>2
<1> HIDE DEF H
<1>4. E = e
  BY <1>3
<1> HIDE DEF E
<1>5. Z = PortEnd(u, e)
  BY <1>4 DEF PortEnd
<1> HIDE DEF Z
<1>6. port = PortRead(u, e)
  BY <1>4, <1>5 DEF PortRead
<1>7. info = InfoBefore(u, p, q)
  BY <1>2 DEF InfoBefore
<1> HIDE DEF port, info, given
<1>8. known = With(uri, InfoBefore(u, p, q), Between(u, h, e), PortRead(u, e))
  BY <1>3, <1>4, <1>6, <1>7 DEF known, With
<1> HIDE DEF known
<1>9. large <=> TooLarge(u, e)
  BY <1>6 DEF TooLarge, large
<1>10. Throws(uri).result # "ok" /\ Parsed(FALSE, Empty).result # "ok"
  BY DEF Throws, Parsed
<1>11. CASE TokenAt(u, h) = "["
  <2>1. Authority(u, p, uri) \in {Throws(uri), Parsed(FALSE, Empty)}
    BY <1>1, <1>3, <1>11
  <2>2. Authority(u, p, uri).result # "ok"
    BY <1>10, <2>1
  <2> QED BY <1>11, <2>2
<1>12. CASE TokenAt(u, h) # "["
  <2>1. Authority(u, p, uri) = IF TooLarge(u, e) THEN Parsed(FALSE, Empty) ELSE Rest(u, Z, known)
    BY <1>1, <1>3, <1>9, <1>12
  <2>2. CASE TooLarge(u, e)
    <3>1. Authority(u, p, uri) = Parsed(FALSE, Empty)
      BY <2>1, <2>2
    <3> QED BY <1>10, <1>12, <2>2, <3>1
  <2>3. CASE ~TooLarge(u, e)
    <3>1. Authority(u, p, uri) = Rest(u, Z, known)
      BY <2>1, <2>3
    <3> QED BY <1>5, <1>8, <1>12, <2>3, <3>1
  <2> QED BY <2>2, <2>3
<1> QED BY <1>11, <1>12

\* Where the parser is behind the user information.
LEMMA AuthorityBegins ==
  ASSUME NEW u \in Seq(Token), HasAuthority(u), HasUserinfo(u),
         \A i \in Colon(u) + 3 .. AtSign(u) - 1 : u[i] \in userinfoChar
  PROVE  LET uri == [Empty EXCEPT !.scheme = Between(u, 1, Colon(u))] IN
         /\ Parse(u) = Authority(u, Colon(u) + 1, uri)
         /\ Skip(u, Colon(u) + 1 + 2, userinfoChar) = AtSign(u) /\ TokenAt(u, AtSign(u)) = "@"
         /\ HostFrom(TokenAt(u, AtSign(u)) = "@", Colon(u) + 1, AtSign(u)) = HostBegin(u)
         /\ InfoBefore(u, Colon(u) + 1, AtSign(u)) = Written(u).userinfo
         /\ Written(u).userinfo \in Seq(userinfoChar)
<1> DEFINE p == Colon(u) + 1
           uri == [Empty EXCEPT !.scheme = Between(u, 1, Colon(u))]
<1>1. /\ Len(u) \in Nat /\ Colon(u) \in 1 .. Len(u) /\ Colon(u) + 2 <= Len(u)
      /\ Skip(u, 1, schemeChar) = Colon(u) /\ AtAuthority(u, Colon(u))
      /\ AtSign(u) \in Colon(u) + 3 .. Len(u) + 1
      /\ AtSign(u) <= Len(u) /\ u[AtSign(u)] = "@"
  BY Layout
<1>2. p + 2 = Colon(u) + 3 /\ p + 1 = Colon(u) + 2
  BY <1>1
<1>3. Parse(u) = Authority(u, p, uri)
  BY <1>1, <1>2 DEF Parse, AtAuthority
<1>4. Skip(u, p + 2, userinfoChar) = AtSign(u) /\ TokenAt(u, AtSign(u)) = "@"
  <2>1. p + 2 \in 1 .. Len(u) + 1 /\ AtSign(u) \in p + 2 .. Len(u) + 1
    BY <1>1
  <2>2. TokenAt(u, AtSign(u)) = "@"
    BY <1>1 DEF TokenAt
  <2>3. \A i \in p + 2 .. AtSign(u) - 1 : u[i] \in userinfoChar
    BY <1>2
  <2> HIDE DEF p
  <2> QED BY <1>1, <2>1, <2>2, <2>3, SkipIs, CharsApart
<1>5. Written(u).userinfo = Between(u, p + 2, AtSign(u)) /\ HostBegin(u) = AtSign(u) + 1
  BY <1>2, WrittenParts DEF If, HostBegin
<1>6. Written(u).userinfo \in Seq(userinfoChar)
  <2>1. Colon(u) + 3 \in Nat /\ AtSign(u) \in Nat
    BY <1>1
  <2> QED BY <1>2, <1>5, <2>1, BetweenType
<1> HIDE DEF p, uri
<1>7. HostFrom(TokenAt(u, AtSign(u)) = "@", p, AtSign(u)) = HostBegin(u)
  BY <1>4, <1>5 DEF HostFrom
<1>8. InfoBefore(u, p, AtSign(u)) = Written(u).userinfo
  BY <1>4, <1>5 DEF InfoBefore
<1> QED BY <1>3, <1>4, <1>6, <1>7, <1>8 DEF p, uri

\* What the parser makes of a URI whose authority names a host and a user; a port
\* that is too large makes it fail.
LEMMA AuthorityIs ==
  ASSUME NEW u \in Seq(Token), NamesHost(u), HasUserinfo(u),
         \A i \in Colon(u) + 3 .. AtSign(u) - 1 : u[i] \in userinfoChar,
         Parse(u).result = "ok" \/ ~Written(u).hasPort
  PROVE  \E port \in Ports :
           Parse(u) = Rest(u, AuthorityEnd(u),
                           With([Empty EXCEPT !.scheme = Between(u, 1, Colon(u))],
                                Written(u).userinfo, Written(u).host, port))
<1> DEFINE p == Colon(u) + 1
           at1 == AtSign(u)
           h == HostBegin(u)
           e == HostEnd(u)
           z == AuthorityEnd(u)
           uri == [Empty EXCEPT !.scheme = Between(u, 1, Colon(u))]
<1>1. HasAuthority(u)
  BY DEF NamesHost
<1>2. /\ Parse(u) = Authority(u, p, uri)
      /\ Skip(u, p + 2, userinfoChar) = at1
      /\ HostFrom(TokenAt(u, at1) = "@", p, at1) = h
      /\ InfoBefore(u, p, at1) = Written(u).userinfo
  BY <1>1, AuthorityBegins
<1>3. /\ h \in 1 .. e /\ e \in 1 .. z
      /\ Skip(u, h, regnameChar) = e
      /\ TokenAt(u, h) # "["
      /\ z = IF TokenAt(u, e) = ":" THEN Skip(u, e + 1, {Digit}) ELSE e
      /\ ~Written(u).hasPort => e = z
      /\ Written(u).host = Between(u, h, e)
  BY HostFound
<1>4. Len(u) \in Nat /\ z \in 1 .. Len(u) + 1
  BY <1>1, Layout
<1> HIDE DEF p, at1, h, e, z, uri
<1>5. z = PortEnd(u, e)
  BY <1>3 DEF PortEnd
<1>6. /\ TooLarge(u, e) => Authority(u, p, uri).result # "ok"
      /\ ~TooLarge(u, e) =>
            Authority(u, p, uri) =
                Rest(u, PortEnd(u, e), With(uri, InfoBefore(u, p, at1), Between(u, h, e), PortRead(u, e)))
  <2>1. Skip(u, p + 2, userinfoChar) = at1
    BY <1>2
  <2>2. HostFrom(TokenAt(u, at1) = "@", p, at1) = h
    BY <1>2
  <2>3. Skip(u, h, regnameChar) = e
    BY <1>3
  <2>4. TokenAt(u, h) # "["
    BY <1>3
  <2> QED BY ONLY <2>1, <2>2, <2>3, <2>4, AuthorityAt
<1>7. PortRead(u, e) \in Ports
  <2>1. e \in 1 .. Len(u) + 1
    BY <1>3, <1>4
  <2> QED BY <1>4, <2>1, PortType
<1>8. ~TooLarge(u, e)
  <2>1. CASE Parse(u).result = "ok"
    BY <1>2, <1>6, <2>1
  <2>2. CASE ~Written(u).hasPort
    <3>1. PortRead(u, e) = 0
      BY <1>3, <1>5, <2>2 DEF PortRead
    <3> QED BY <3>1 DEF TooLarge
  <2> QED BY <2>1, <2>2
<1>9. Parse(u) = Rest(u, z, With(uri, Written(u).userinfo, Written(u).host, PortRead(u, e)))
  BY <1>2, <1>3, <1>5, <1>6, <1>8
<1> QED BY <1>7, <1>9 DEF uri, z

\* The scheme of a URI with an authority.
LEMMA SchemeRead ==
  ASSUME NEW u \in Seq(Token), HasAuthority(u)
  PROVE  /\ Between(u, 1, Colon(u)) \in Seq(schemeChar) /\ Between(u, 1, Colon(u)) # <<>>
         /\ [Empty EXCEPT !.scheme = Between(u, 1, Colon(u))] \in Uris(Token, Token)
<1> DEFINE c == Colon(u)
<1>1. /\ Len(u) \in Nat /\ c \in 1 .. Len(u) /\ Skip(u, 1, schemeChar) = c
      /\ AtAuthority(u, c)
  BY Layout
<1> HIDE DEF c
<1>2. 1 \in 1 .. Len(u) + 1 /\ c \in Nat /\ 1 <= c
  BY <1>1
<1>3. \A i \in 1 .. c - 1 : u[i] \in schemeChar
  BY <1>1, <1>2, SkipStops, CharsApart
<1>4. c # 1
  BY CharsApart, <1>1 DEF AtAuthority
<1>5. Between(u, 1, c) \in Seq(schemeChar) /\ Len(Between(u, 1, c)) = c - 1
  <2>1. /\ Between(u, 1, c) \in Seq(schemeChar) /\ Len(Between(u, 1, c)) = c - 1
        /\ \A i \in 1 .. c - 1 : Between(u, 1, c)[i] = u[1 + i - 1]
        /\ \A i \in 1 .. c - 1 : u[i] \in ToSet(Between(u, 1, c))
    BY <1>2, <1>3, BetweenAt
  <2> QED BY <2>1
<1>6. Between(u, 1, c) # <<>>
  <2>1. Len(<<>>) = 0
    OBVIOUS
  <2> QED BY <1>2, <1>4, <1>5, <2>1
<1>7. Between(u, 1, c) \in Seq(Token)
  <2>1. schemeChar \subseteq Token
    BY CharsKnown DEF schemeChar, regnameChar, unreserved
  <2> QED BY <1>5, <2>1, SeqMonotonic
<1>8. Empty \in Uris(Token, Token)
  BY EmptyType
<1> QED BY <1>5, <1>6, <1>7, <1>8 DEF Uris, c

\* Without user information the parser takes the slashes for the path.
LEMMA SlashesArePath ==
  ASSUME NEW u \in Seq(Token), HasAuthority(u),
         TokenAt(u, Skip(u, Colon(u) + 3, userinfoChar)) # "@"
  PROVE  LET uri == With([Empty EXCEPT !.scheme = Between(u, 1, Colon(u))], <<>>, <<>>, 0) IN
         uri \in Uris(Token, Token) /\ Parse(u) = Rest(u, Colon(u) + 1, uri)
<1> DEFINE p == Colon(u) + 1
           uri == [Empty EXCEPT !.scheme = Between(u, 1, Colon(u))]
<1>1. /\ Len(u) \in Nat /\ Colon(u) \in 1 .. Len(u) /\ Colon(u) + 2 <= Len(u)
      /\ Skip(u, 1, schemeChar) = Colon(u) /\ AtAuthority(u, Colon(u))
  BY Layout
<1>2. p + 2 = Colon(u) + 3 /\ p + 1 = Colon(u) + 2 /\ p \in 1 .. Len(u) + 1
  BY <1>1
<1>3. Parse(u) = Authority(u, p, uri)
  BY <1>1, <1>2 DEF Parse, AtAuthority
<1>4. TokenAt(u, p) = Slash
  BY <1>1 DEF AtAuthority
<1> HIDE DEF p, uri
<1>5. Skip(u, p, regnameChar) = p
  <2>1. p \in p .. Len(u) + 1 /\ \A i \in p .. p - 1 : u[i] \in regnameChar
    BY <1>2
  <2> QED BY <1>1, <1>2, <1>4, <2>1, SkipIs, CharsApart, CharsKnown
<1>6. Slash # "[" /\ Slash # ":"
  BY DEF Slash
<1> DEFINE q == Skip(u, p + 2, userinfoChar)
<1>7. TokenAt(u, q) # "@" /\ HostFrom(TokenAt(u, q) = "@", p, q) = p
  BY <1>2 DEF HostFrom
<1>8. PortEnd(u, p) = p /\ PortRead(u, p) = 0 /\ ~TooLarge(u, p)
  <2>1. PortEnd(u, p) = p
    BY <1>4, <1>6 DEF PortEnd
  <2>2. PortRead(u, p) = 0
    BY <2>1 DEF PortRead
  <2> QED BY <2>1, <2>2 DEF TooLarge
<1>9. Authority(u, p, uri) = Rest(u, p, With(uri, InfoBefore(u, p, q), Between(u, p, p), 0))
  <2>1. q = Skip(u, p + 2, userinfoChar)
    OBVIOUS
  <2> HIDE DEF q
  <2>2. HostFrom(TokenAt(u, q) = "@", p, q) = p
    BY <1>7
  <2>3. TokenAt(u, p) # "["
    BY <1>4, <1>6
  <2>4. Authority(u, p, uri) =
           Rest(u, PortEnd(u, p),
                With(uri, InfoBefore(u, p, q), Between(u, p, p), PortRead(u, p)))
    BY ONLY <1>5, <1>8, <2>1, <2>2, <2>3, AuthorityAt
  <2> QED BY <1>8, <2>4
<1>10. InfoBefore(u, p, q) = <<>> /\ Between(u, p, p) = <<>>
  <2>1. p \in Nat /\ p - 1 < p
    BY <1>2
  <2>2. Between(u, p, p) = <<>>
    BY <2>1, SubSeqEmpty DEF Between
  <2> QED BY <1>7, <2>2 DEF InfoBefore
<1>11. With(uri, <<>>, <<>>, 0) \in Uris(Token, Token)
  <2>1. uri \in Uris(Token, Token)
    BY SchemeRead DEF uri
  <2>2. "@" \in Token /\ <<>> \in Seq(Token) /\ 0 \in Ports
    BY CharsKnown DEF Ports
  <2>3. SplitUser(uri, <<>>) \in Uris(Token, Token)
    BY <2>1, <2>2, SplitUserType
  <2> QED BY <2>2, <2>3 DEF With, Uris
<1> HIDE DEF q
<1> QED BY <1>3, <1>9, <1>10, <1>11 DEF p, uri

\* A URI that the parser accepts has no other characters in its user information
\* than may be there.
LEMMA UserinfoValid ==
  ASSUME NEW u \in Seq(Token), HasAuthority(u), HasUserinfo(u), Parse(u).result = "ok"
  PROVE  \A i \in Colon(u) + 3 .. AtSign(u) - 1 : u[i] \in userinfoChar
<1> DEFINE first == Colon(u) + 3
           q == Skip(u, first, userinfoChar)
<1>1. /\ Len(u) \in Nat /\ Colon(u) \in 1 .. Len(u) /\ Colon(u) + 2 <= Len(u)
      /\ AtAuthority(u, Colon(u))
      /\ AuthorityEnd(u) \in Colon(u) + 3 .. Len(u) + 1
      /\ \A i \in Colon(u) + 3 .. AuthorityEnd(u) - 1 : u[i] \notin {Slash, "?", "#"}
      /\ AtSign(u) \in Colon(u) + 3 .. Len(u) + 1
      /\ \A i \in Colon(u) + 3 .. AtSign(u) - 1 : u[i] # "@"
      /\ AtSign(u) <= Len(u) /\ AtSign(u) < AuthorityEnd(u)
  BY Layout DEF HasUserinfo
<1>2. first \in 1 .. Len(u) + 1
  BY <1>1
<1>3. q \in first .. Len(u) + 1 /\ TokenAt(u, q) \notin userinfoChar
      /\ \A i \in first .. q - 1 : u[i] \in userinfoChar
  <2> HIDE DEF q, first
  <2> QED BY <1>1, <1>2, SkipStops, CharsApart DEF q
<1> HIDE DEF q
<1>4. SUFFICES ASSUME q < AtSign(u) PROVE FALSE
  <2>1. AtSign(u) \in Int /\ q \in Int /\ first \in Int
    BY <1>1, <1>2, <1>3
  <2>2. \A i \in first .. AtSign(u) - 1 : ~(q < AtSign(u)) => i \in first .. q - 1
    <3> HIDE DEF first
    <3> QED BY <2>1
  <2> QED BY <1>3, <1>4, <2>2
<1>5. q \in 1 .. Len(u) /\ q \in first .. AtSign(u) - 1 /\ q \in first .. AuthorityEnd(u) - 1
  BY <1>1, <1>3, <1>4
<1>6. TokenAt(u, q) = u[q] /\ u[q] \in {"[", "]"}
  <2>1. TokenAt(u, q) = u[q] /\ u[q] \in Token
    BY <1>5 DEF TokenAt
  <2>2. u[q] \notin {Slash, "?", "#", "@"}
    BY <1>1, <1>5
  <2> QED BY <1>3, <2>1, <2>2, CharsKnown
<1>7. PICK uri : Parse(u) = Rest(u, Colon(u) + 1, uri)
  BY <1>6, SlashesArePath DEF q
<1>8. Skip(u, Colon(u) + 1, pcharSlash) = q
  <2>1. Colon(u) + 1 \in 1 .. Len(u) + 1 /\ q \in Colon(u) + 1 .. Len(u) + 1
    BY <1>1, <1>3
  <2>2. \A i \in Colon(u) + 1 .. q - 1 :
          (i \in {Colon(u) + 1, Colon(u) + 2} /\ i <= Len(u)) \/ i \in first .. q - 1
    BY <1>1, <1>3
  <2>3. TokenAt(u, Colon(u) + 1) = Slash /\ TokenAt(u, Colon(u) + 2) = Slash
    BY <1>1 DEF AtAuthority
  <2>4. Slash \in pcharSlash /\ userinfoChar \subseteq pcharSlash
    BY CharsKnown
  <2>5. \A i \in Colon(u) + 1 .. q - 1 : u[i] \in pcharSlash
    <3> SUFFICES ASSUME NEW i \in Colon(u) + 1 .. q - 1 PROVE u[i] \in pcharSlash
      OBVIOUS
    <3> HIDE DEF first
    <3>1. CASE i \in {Colon(u) + 1, Colon(u) + 2} /\ i <= Len(u)
      BY <2>3, <2>4, <3>1 DEF TokenAt
    <3>2. CASE i \in first .. q - 1
      BY <1>3, <2>4, <3>2
    <3> QED BY <2>2, <3>1, <3>2
  <2>6. TokenAt(u, q) \notin pcharSlash
    BY <1>6, CharsKnown
  <2> HIDE DEF first
  <2> QED BY <1>1, <2>1, <2>5, <2>6, SkipIs, CharsApart
<1>9. Rest(u, Colon(u) + 1, uri).result = (IF q = Len(u) + 1 THEN "ok" ELSE "invalid")
  BY <1>6, <1>8 DEF Rest, Parsed
<1> QED BY <1>1, <1>5, <1>7, <1>9

-----------------------------------------------------------------------------
(* The credentials *)

LEMMA UnescapeLength ==
  ASSUME NEW x \in Seq(Token)
  PROVE  unescape(x) \in Seq(Token) /\ Len(unescape(x)) = Len(x) /\ (unescape(x) = <<>> <=> x = <<>>)
<1>1. unescape(x) \in Seq(Token)
  <2>1. "@" \in Token
    BY CharsKnown
  <2> QED BY <2>1, UnescapeType
<1>2. DOMAIN unescape(x) = DOMAIN x
  BY DEF unescape
<1>3. Len(unescape(x)) = Len(x)
  BY <1>1, <1>2
<1>4. \A y \in Seq(Token) : y = <<>> <=> Len(y) = 0
  BY EmptySeq
<1> QED BY <1>1, <1>3, <1>4

\* The parser splits the user information where RFC 3986 has its first colon.
LEMMA CredentialsFound ==
  ASSUME NEW T, NEW I, NEW uri \in Uris(T, I), NEW info \in Seq(userinfoChar)
  PROVE  LET split == SplitUser(uri, info)
         IN <<BindDn(split), split.password>> = Credentials(info)
<1> DEFINE c == Skip(info, 1, regnameChar)
           split == SplitUser(uri, info)
           before == Between(info, 1, c)
           behind == SubSeq(info, c + 1, Len(info))
<1> SUFFICES <<BindDn(split), split.password>> = Credentials(info)
  OBVIOUS
<1>1. /\ Len(info) \in Nat /\ 1 \in 1 .. Len(info) + 1 /\ info \in Seq(Token)
      /\ \A i \in 1 .. Len(info) : info[i] \in userinfoChar
  <2>1. userinfoChar \subseteq Token
    BY CharsKnown
  <2>2. info \in Seq(Token)
    BY <2>1, SeqMonotonic
  <2> QED BY <2>2
<1>2. /\ c \in 1 .. Len(info) + 1 /\ TokenAt(info, c) \notin regnameChar
      /\ \A i \in 1 .. c - 1 : info[i] \in regnameChar
  <2> HIDE DEF c
  <2> QED BY <1>1, SkipStops, CharsApart DEF c
<1>3. split.userinfo = info /\ split.password = unescape(behind)
      /\ split.user = IF c > Len(info) THEN <<>> ELSE unescape(before)
  BY DEF SplitUser, Uris
<1> HIDE DEF c, split
<1>4. FirstOf(info, 1, {":"}) = c
  <2>1. TokenAt(info, c) \in {":"} \cup {Nul}
    <3>1. CASE c <= Len(info)
      <4>1. TokenAt(info, c) = info[c] /\ info[c] \in userinfoChar
        BY <1>1, <1>2, <3>1 DEF TokenAt
      <4> QED BY <1>2, <4>1, CharsKnown
    <3>2. CASE ~(c <= Len(info))
      BY <3>2 DEF TokenAt
    <3> QED BY <3>1, <3>2
  <2>2. \A i \in 1 .. c - 1 : info[i] \notin {":"}
    BY <1>2, CharsApart
  <2> QED BY <1>1, <1>2, <2>1, <2>2, FirstOfIs
<1>5. Credentials(info) = IF info = <<":">> THEN <<info, <<>>>>
                          ELSE <<unescape(before), unescape(behind)>>
  BY <1>4 DEF Credentials
<1>6. BindDn(split) = IF split.user = <<>> /\ split.password = <<>> THEN unescape(info) ELSE split.user
  BY <1>3 DEF BindDn
<1>7. /\ before \in Seq(Token) /\ Len(before) = c - 1
      /\ behind \in Seq(Token) /\ Len(behind) = IF c + 1 <= Len(info) THEN Len(info) - c ELSE 0
  <2>1. \A i \in 1 .. c - 1 : i \in 1 .. Len(info)
    BY <1>1, <1>2
  <2>2. \A i \in c + 1 .. Len(info) : i \in 1 .. Len(info)
    BY <1>1, <1>2
  <2>3. (\A i \in 1 .. c - 1 : info[i] \in Token) /\ \A i \in c + 1 .. Len(info) : info[i] \in Token
    BY <1>1, <2>1, <2>2
  <2>4. 1 \in Nat /\ c \in Nat /\ 1 <= c /\ c + 1 \in Int /\ Len(info) \in Int
    BY <1>1, <1>2
  <2>5. before \in Seq(Token) /\ Len(before) = c - 1
    <3>1. \A i \in 1 .. c - 1 : info[i] \in Token
      BY <2>3
    <3> QED BY <2>4, <3>1, BetweenAt
  <2>6. behind \in Seq(Token)
        /\ Len(behind) = IF c + 1 <= Len(info) THEN Len(info) - (c + 1) + 1 ELSE 0
    BY <2>3, <2>4, SubSeqProperties
  <2>7. Len(info) - (c + 1) + 1 = Len(info) - c
    BY <2>4
  <2> QED BY <2>5, <2>6, <2>7
<1>8. CASE c > Len(info)
  <2>1. c = Len(info) + 1 /\ c - 1 = Len(info) /\ ~(c + 1 <= Len(info))
    BY <1>1, <1>2, <1>8
  <2>2. before = info
    <3>1. before = SubSeq(info, 1, Len(info))
      BY <2>1 DEF Between
    <3> HIDE DEF before
    <3> QED BY <1>1, <3>1, SubSeqFull
  <2> HIDE DEF before, behind
  <2>3. behind = <<>>
    BY <1>7, <2>1, EmptySeq
  <2>4. unescape(<<>>) = <<>>
    BY EmptySeq, UnescapeLength
  <2>5. info # <<":">>
    <3> SUFFICES ASSUME info = <<":">> PROVE FALSE
      OBVIOUS
    <3>1. Len(info) = 1 /\ info[1] = ":" /\ 1 \in 1 .. c - 1
      BY <1>2, <2>1
    <3> QED BY <1>2, <3>1, CharsApart
  <2> QED BY <1>3, <1>5, <1>6, <1>8, <2>2, <2>3, <2>4, <2>5
<1>9. CASE c <= Len(info)
  <2> HIDE DEF before, behind
  <2>1. split.user = unescape(before)
    BY <1>1, <1>2, <1>3, <1>9
  <2>2. /\ unescape(before) = <<>> <=> c = 1
        /\ unescape(behind) = <<>> <=> c = Len(info)
    <3>1. Len(before) = 0 <=> c = 1
      BY <1>2, <1>7
    <3>2. Len(behind) = 0 <=> c = Len(info)
      BY <1>1, <1>2, <1>7, <1>9
    <3>3. (before = <<>> <=> Len(before) = 0) /\ (behind = <<>> <=> Len(behind) = 0)
      BY <1>7, EmptySeq
    <3> QED BY <1>7, <3>1, <3>2, <3>3, UnescapeLength
  <2>3. info = <<":">> <=> c = 1 /\ c = Len(info)
    <3>1. ASSUME info = <<":">> PROVE c = 1 /\ c = Len(info)
      <4>1. Len(info) = 1 /\ info[1] = ":"
        BY <3>1
      <4> QED BY <1>2, <1>9, <4>1
    <3>2. ASSUME c = 1, c = Len(info) PROVE info = <<":">>
      <4>1. Len(info) = 1 /\ TokenAt(info, 1) = info[1]
        BY <3>2 DEF TokenAt
      <4>2. info[1] = ":"
        BY <1>1, <1>2, <3>2, <4>1, CharsKnown
      <4> QED BY <1>1, <4>1, <4>2
    <3> QED BY <3>1, <3>2
  <2>4. CASE info = <<":">>
    <3>1. unescape(info) = info
      <4>1. Len(info) = 1 /\ info[1] = ":" /\ DOMAIN info = {1}
        BY <2>4
      <4>2. ":" # Escape
        BY DEF Escape
      <4>3. unescape(info) = [i \in DOMAIN info |-> info[i]]
        BY <4>1, <4>2 DEF unescape
      <4> QED BY <1>1, <4>3
    <3> QED BY <1>3, <1>5, <1>6, <2>1, <2>2, <2>3, <2>4, <3>1
  <2>5. CASE info # <<":">>
    BY <1>3, <1>5, <1>6, <2>1, <2>2, <2>3, <2>5
  <2> QED BY <2>4, <2>5
<1>10. c > Len(info) \/ c <= Len(info)
  BY <1>1, <1>2
<1> QED BY <1>8, <1>9, <1>10

-----------------------------------------------------------------------------
(* What is printed is read back *)

\* The parts of a URI that has no user information, by their places: the authority ends
\* at e, and its host at b.
LEMMA PartsRead ==
  ASSUME NEW v \in Seq(Token), NEW c \in 1 .. Len(v), NEW e \in c + 3 .. Len(v) + 1,
         NEW b \in c + 3 .. e, NEW q \in e .. Len(v) + 1,
         v[c] = ":", \A i \in 1 .. c - 1 : v[i] # ":",
         TokenAt(v, e) \in {Slash, "?", "#", Nul}, \A i \in c + 3 .. e - 1 : v[i] \in userinfoChar,
         \A i \in c + 3 .. b - 1 : v[i] # ":", b # e => v[b] = ":",
         TokenAt(v, q) \in {"?", "#", Nul}, \A i \in e .. q - 1 : v[i] \in pcharSlash
  PROVE  Written(v).host = Between(v, c + 3, b) /\ Written(v).path = Between(v, e, q)
<1> DEFINE first == c + 3
<1>1. /\ Len(v) \in Nat /\ 1 \in 1 .. Len(v) + 1 /\ c \in Nat /\ c \in 1 .. Len(v) + 1
      /\ e \in Nat /\ first \in 1 .. Len(v) + 1 /\ e \in 1 .. Len(v) + 1 /\ e \in first .. Len(v) + 1
      /\ b \in first .. e /\ b \in first .. Len(v) + 1
  OBVIOUS
<1>2. Colon(v) = c
  <2>1. TokenAt(v, c) \in {":"} \cup {Nul}
    BY <1>1 DEF TokenAt
  <2>2. \A i \in 1 .. c - 1 : v[i] \notin {":"}
    OBVIOUS
  <2> QED BY <1>1, <2>1, <2>2, FirstOfIs DEF Colon
<1>3. \A i \in first .. e - 1 : v[i] \in userinfoChar
  OBVIOUS
<1>4. \A i \in first .. b - 1 : v[i] # ":"
  OBVIOUS
<1> HIDE DEF first
<1>5. \A i \in first .. e - 1 : v[i] \notin {Slash, "?", "#", "@", Nul}
  BY <1>3, CharsKnown, CharsApart
<1>6. AuthorityEnd(v) = e
  <2>1. TokenAt(v, e) \in {Slash, "?", "#"} \cup {Nul}
    OBVIOUS
  <2>2. \A i \in first .. e - 1 : v[i] \notin {Slash, "?", "#"}
    BY <1>5
  <2>3. FirstOf(v, first, {Slash, "?", "#"}) = e
    BY <1>1, <2>1, <2>2, FirstOfIs
  <2> QED BY <1>2, <2>3 DEF AuthorityEnd, first
<1>7. ~(AtSign(v) < e)
  <2> DEFINE s == FirstOf(v, first, {"@"})
  <2>1. s \in first .. Len(v) + 1 /\ TokenAt(v, s) \in {"@"} \cup {Nul}
    <3> HIDE DEF s
    <3> QED BY <1>1, FirstOfStops DEF s
  <2>2. AtSign(v) = s
    BY <1>2 DEF AtSign, first
  <2> HIDE DEF s
  <2> SUFFICES ASSUME s < e PROVE FALSE
    BY <2>2
  <2>3. s \in first .. e - 1 /\ s <= Len(v)
    BY <1>1, <2>1
  <2> QED BY <1>5, <2>1, <2>3 DEF TokenAt
<1>8. HostBegin(v) = first
  BY <1>2, <1>6, <1>7 DEF HostBegin, HasUserinfo, first
<1>9. HostEnd(v) = b
  <2> DEFINE s == FirstOf(v, first, {":"})
  <2>1. HostEnd(v) = IF s < e THEN s ELSE e
    BY <1>6, <1>8 DEF HostEnd
  <2>2. s \in first .. Len(v) + 1 /\ TokenAt(v, s) \in {":"} \cup {Nul}
    <3> HIDE DEF s
    <3> QED BY <1>1, FirstOfStops DEF s
  <2>3. CASE b # e
    <3>1. b < e /\ b <= Len(v) /\ v[b] = ":"
      BY <1>1, <2>3
    <3>2. TokenAt(v, b) \in {":"} \cup {Nul}
      BY <3>1 DEF TokenAt
    <3>3. \A i \in first .. b - 1 : v[i] \notin {":"}
      BY <1>4
    <3>4. s = b
      BY <1>1, <3>2, <3>3, FirstOfIs
    <3> HIDE DEF s
    <3> QED BY <2>1, <3>1, <3>4
  <2>4. CASE b = e
    <3> HIDE DEF s
    <3>1. ~(s < e)
      <4> SUFFICES ASSUME s < e PROVE FALSE
        OBVIOUS
      <4>1. s \in first .. e - 1 /\ s \in first .. b - 1 /\ s <= Len(v)
        BY <1>1, <2>2, <2>4
      <4> QED BY <1>4, <1>5, <2>2, <4>1 DEF TokenAt
    <3> QED BY <2>1, <2>4, <3>1
  <2> QED BY <2>3, <2>4
<1>10. PathEnd(v) = q
  <2>1. TokenAt(v, q) \in {"?", "#"} \cup {Nul}
    OBVIOUS
  <2>2. \A i \in e .. q - 1 : v[i] \notin {"?", "#"}
    BY CharsKnown
  <2> QED BY <1>1, <1>6, <2>1, <2>2, FirstOfIs DEF PathEnd
<1>11. Written(v).host = Between(v, first, b)
  BY <1>8, <1>9, WrittenParts
<1>12. Written(v).path = Between(v, e, q)
  BY <1>6, <1>10, WrittenParts
<1> QED BY <1>11, <1>12 DEF first

\* Where the parts of v are, which is a, h, p and t behind each other.
Placed(v, a, h, p, t) ==
    LET e == Len(a) + Len(h) + 1
        q == e + Len(p)
    IN /\ Len(v) = Len(a) + Len(h) + Len(p) + Len(t)
       /\ \A i \in 1 .. Len(a) : v[i] = a[i]
       /\ Between(v, Len(a) + 1, e) = h /\ Between(v, e, q) = p
       /\ \A i \in 1 .. Len(h) : v[Len(a) + i] = h[i]
       /\ \A i \in 1 .. Len(p) : v[Len(a) + Len(h) + i] = p[i]
       /\ \A i \in 1 .. Len(t) : v[Len(a) + Len(h) + Len(p) + i] = t[i]

LEMMA PartsPlaced ==
  ASSUME NEW T, NEW a \in Seq(T), NEW h \in Seq(T), NEW p \in Seq(T), NEW t \in Seq(T)
  PROVE  ((a \o h) \o p) \o t \in Seq(T) /\ Placed(((a \o h) \o p) \o t, a, h, p, t)
<1> DEFINE ah == a \o h
           ahp == ah \o p
           v == ahp \o t
           e == Len(a) + Len(h) + 1
           q == e + Len(p)
<1>1. Len(a) \in Nat /\ Len(h) \in Nat /\ Len(p) \in Nat /\ Len(t) \in Nat
  BY LenProperties
<1>2. /\ ah \in Seq(T) /\ Len(ah) = Len(a) + Len(h)
      /\ \A i \in 1 .. Len(a) + Len(h) : ah[i] = IF i <= Len(a) THEN a[i] ELSE h[i - Len(a)]
  BY ConcatProperties
<1> HIDE DEF ah
<1>3. /\ ahp \in Seq(T) /\ Len(ahp) = Len(ah) + Len(p)
      /\ \A i \in 1 .. Len(ah) + Len(p) : ahp[i] = IF i <= Len(ah) THEN ah[i] ELSE p[i - Len(ah)]
  <2>1. ah \in Seq(T)
    BY <1>2
  <2> QED BY <2>1, ConcatProperties
<1> HIDE DEF ahp
<1>4. /\ v \in Seq(T) /\ Len(v) = Len(ahp) + Len(t)
      /\ \A i \in 1 .. Len(ahp) + Len(t) : v[i] = IF i <= Len(ahp) THEN ahp[i] ELSE t[i - Len(ahp)]
  <2>1. ahp \in Seq(T)
    BY <1>3
  <2> QED BY <2>1, ConcatProperties
<1> HIDE DEF v
<1>5. ASSUME NEW i \in 1 .. Len(a) PROVE v[i] = a[i]
  <2>1. /\ i \in 1 .. Len(a) + Len(h) /\ i \in 1 .. Len(ah) + Len(p) /\ i \in 1 .. Len(ahp) + Len(t)
        /\ i <= Len(a) /\ i <= Len(ah) /\ i <= Len(ahp)
    BY <1>1, <1>2, <1>3
  <2> QED BY <1>2, <1>3, <1>4, <2>1
<1>6. ASSUME NEW i \in 1 .. Len(h) PROVE v[Len(a) + i] = h[i]
  <2> DEFINE j == Len(a) + i
  <2>1. /\ j \in 1 .. Len(a) + Len(h) /\ j \in 1 .. Len(ah) + Len(p) /\ j \in 1 .. Len(ahp) + Len(t)
        /\ ~(j <= Len(a)) /\ j <= Len(ah) /\ j <= Len(ahp) /\ j - Len(a) = i
    BY <1>1, <1>2, <1>3
  <2> HIDE DEF j
  <2>2. v[j] = h[i]
    BY <1>2, <1>3, <1>4, <2>1
  <2> QED BY <2>2 DEF j
<1>7. ASSUME NEW i \in 1 .. Len(p) PROVE v[Len(a) + Len(h) + i] = p[i]
  <2> DEFINE j == Len(a) + Len(h) + i
  <2>1. /\ j \in 1 .. Len(ah) + Len(p) /\ j \in 1 .. Len(ahp) + Len(t)
        /\ ~(j <= Len(ah)) /\ j <= Len(ahp) /\ j - Len(ah) = i
    BY <1>1, <1>2, <1>3
  <2> HIDE DEF j
  <2>2. v[j] = p[i]
    BY <1>3, <1>4, <2>1
  <2> QED BY <2>2 DEF j
<1>8. ASSUME NEW i \in 1 .. Len(t) PROVE v[Len(a) + Len(h) + Len(p) + i] = t[i]
  <2> DEFINE j == Len(a) + Len(h) + Len(p) + i
  <2>1. j \in 1 .. Len(ahp) + Len(t) /\ ~(j <= Len(ahp)) /\ j - Len(ahp) = i
    BY <1>1, <1>2, <1>3
  <2> HIDE DEF j
  <2>2. v[j] = t[i]
    BY <1>4, <2>1
  <2> QED BY <2>2 DEF j
<1>9. \A i \in 1 .. Len(v) : v[i] \in T
  BY <1>4
<1>10. ASSUME NEW x \in Seq(T), NEW f \in Nat, f + Len(x) <= Len(v),
              \A i \in 1 .. Len(x) : v[f + i] = x[i]
       PROVE  Between(v, f + 1, f + 1 + Len(x)) = x
  <2>1. Len(x) \in Nat /\ Len(v) \in Nat
    BY <1>4, LenProperties
  <2> DEFINE from == f + 1
             to == f + 1 + Len(x)
             b == Between(v, from, to)
  <2>2. /\ from \in Nat /\ to \in Nat /\ from <= to /\ to - from = Len(x)
        /\ \A i \in from .. to - 1 : i \in 1 .. Len(v)
        /\ \A i \in 1 .. Len(x) : from + i - 1 = f + i
    BY <1>10, <2>1
  <2> HIDE DEF from, to
  <2>3. \A i \in from .. to - 1 : v[i] \in T
    BY <1>9, <2>2
  <2>4. /\ b \in Seq(T) /\ Len(b) = to - from
        /\ \A i \in 1 .. to - from : b[i] = v[from + i - 1]
    <3>1. from \in Nat /\ to \in Nat
      BY <2>2
    <3>2. from <= to
      BY <2>2
    <3>3. /\ Between(v, from, to) \in Seq(T) /\ Len(Between(v, from, to)) = to - from
          /\ \A i \in 1 .. to - from : Between(v, from, to)[i] = v[from + i - 1]
          /\ \A i \in from .. to - 1 : v[i] \in ToSet(Between(v, from, to))
      BY <2>3, <3>1, <3>2, BetweenAt
    <3> QED BY <3>3
  <2> HIDE DEF b
  <2>5. Len(b) = Len(x) /\ \A i \in 1 .. Len(b) : b[i] = x[i]
    BY <1>10, <2>2, <2>4
  <2> QED BY <2>4, <2>5, SeqEqual DEF b, from, to
<1>11. Between(v, Len(a) + 1, e) = h
  <2>1. Len(a) + Len(h) <= Len(v) /\ Len(a) + 1 + Len(h) = e
    BY <1>1, <1>2, <1>3, <1>4
  <2> HIDE DEF e
  <2> QED BY <1>1, <1>6, <1>10, <2>1
<1>12. Between(v, e, q) = p
  <2> DEFINE f == Len(a) + Len(h)
  <2>1. f \in Nat /\ f + Len(p) <= Len(v) /\ f + 1 = e /\ f + 1 + Len(p) = q
    BY <1>1, <1>2, <1>3, <1>4
  <2>2. \A i \in 1 .. Len(p) : v[f + i] = p[i]
    BY <1>7
  <2> HIDE DEF e, q, f
  <2> QED BY <1>10, <2>1, <2>2
<1>13. Len(v) = Len(a) + Len(h) + Len(p) + Len(t)
  BY <1>1, <1>2, <1>3, <1>4
<1>14. v \in Seq(T)
  BY <1>4
<1>15. Placed(v, a, h, p, t)
  BY <1>5, <1>6, <1>7, <1>8, <1>11, <1>12, <1>13 DEF Placed
<1> QED BY <1>14, <1>15 DEF v, ahp, ah

\* The c-th of a is its first colon, with two others behind it; p is a path, and t
\* begins with the delimiter of a query or a fragment.
Fit(a, c, p, t) ==
    /\ c \in Nat \ {0} /\ Len(a) = c + 2 /\ a[c] = ":" /\ \A i \in 1 .. c - 1 : a[i] # ":"
    /\ Len(p) # 0 => p[1] = Slash
    /\ Len(t) # 0 => t[1] \in {"?", "#"}

\* What is printed of a port.
PortTexts == {<<>>, <<":", Digit>>}

\* A host, the digits of a port, a path and what may come behind them are read where
\* they are put.
LEMMA ReadBack ==
  ASSUME NEW c, NEW a \in Seq(Token), NEW host \in Seq(regnameChar),
         NEW d \in PortTexts, NEW p \in Seq(pcharSlash),
         NEW t \in Seq(Token), Fit(a, c, p, t)
  PROVE  /\ Written(((a \o (host \o d)) \o p) \o t).host = host
         /\ Written(((a \o (host \o d)) \o p) \o t).path = p
<1> DEFINE h == host \o d
           l == Len(host)
           b == c + 3 + l
           m == Len(h)
           n == Len(p)
           k == Len(t)
           e == Len(a) + m + 1
           q == e + n
           v == ((a \o h) \o p) \o t
<1>1. c \in Nat \ {0} /\ Len(a) = c + 2 /\ a[c] = ":" /\ \A i \in 1 .. c - 1 : a[i] # ":"
  BY DEF Fit
<1>2. /\ h \in Seq(userinfoChar) /\ l \in Nat /\ Len(h) \in Nat /\ l <= Len(h)
      /\ \A i \in 1 .. l : h[i] = host[i] /\ host[i] \in regnameChar
      /\ l # Len(h) => h[l + 1] = ":"
  <2>1. host \in Seq(userinfoChar) /\ Digit \in userinfoChar /\ ":" \in userinfoChar
    <3>1. regnameChar \subseteq userinfoChar /\ ":" \in userinfoChar /\ Digit \in regnameChar
      BY CharsKnown DEF regnameChar, unreserved
    <3> QED BY <3>1, SeqMonotonic
  <2>2. d \in Seq(userinfoChar) /\ Len(d) \in Nat /\ (Len(d) # 0 => d[1] = ":")
    <3>1. CASE d = <<>>
      BY <3>1
    <3>2. CASE d = <<":", Digit>>
      BY <2>1, <3>2
    <3> QED BY <3>1, <3>2 DEF PortTexts
  <2>3. /\ h \in Seq(userinfoChar) /\ Len(h) = Len(host) + Len(d)
        /\ \A i \in 1 .. Len(host) + Len(d) : h[i] = IF i <= Len(host) THEN host[i] ELSE d[i - Len(host)]
    BY <2>1, <2>2, ConcatProperties
  <2> HIDE DEF h
  <2>4. l \in Nat
    BY LenProperties
  <2>5. \A i \in 1 .. l : i <= Len(host) /\ i \in 1 .. Len(host) + Len(d)
    BY <2>2, <2>4
  <2>6. \A i \in 1 .. l : h[i] = host[i] /\ host[i] \in regnameChar
    BY <2>3, <2>5, ElementOfSeq
  <2>7. ASSUME l # Len(h) PROVE h[l + 1] = ":"
    <3>1. /\ l + 1 \in 1 .. Len(host) + Len(d) /\ ~(l + 1 <= Len(host))
          /\ (l + 1) - Len(host) = 1 /\ Len(d) # 0
      BY <2>2, <2>3, <2>4, <2>7
    <3> QED BY <2>2, <2>3, <3>1
  <2> QED BY <2>2, <2>3, <2>4, <2>6, <2>7
<1> HIDE DEF h, l
<1>3. h \in Seq(Token) /\ p \in Seq(Token)
  <2>1. pcharSlash \subseteq Token /\ userinfoChar \subseteq Token
    BY CharsKnown
  <2> QED BY <1>2, <2>1, SeqMonotonic
<1>4. /\ v \in Seq(Token) /\ Len(v) = Len(a) + Len(h) + Len(p) + Len(t)
      /\ \A i \in 1 .. Len(a) : v[i] = a[i]
      /\ Between(v, Len(a) + 1, e) = h /\ Between(v, e, q) = p
      /\ \A i \in 1 .. Len(h) : v[Len(a) + i] = h[i]
      /\ \A i \in 1 .. Len(p) : v[Len(a) + Len(h) + i] = p[i]
      /\ \A i \in 1 .. Len(t) : v[Len(a) + Len(h) + Len(p) + i] = t[i]
  <2>1. h \in Seq(Token)
    BY <1>3
  <2>2. p \in Seq(Token)
    BY <1>3
  <2>3. v \in Seq(Token) /\ Placed(v, a, h, p, t)
    BY <2>1, <2>2, PartsPlaced
  <2> QED BY <2>3 DEF Placed
<1> HIDE DEF v
<1>5. m \in Nat /\ n \in Nat /\ k \in Nat
  BY LenProperties
<1>6. Len(v) = c + 2 + m + n + k
  BY <1>1, <1>4
<1>7. v[c] = ":" /\ \A i \in 1 .. c - 1 : v[i] # ":"
  <2>1. c \in 1 .. Len(a) /\ \A i \in 1 .. c - 1 : i \in 1 .. Len(a)
    BY <1>1
  <2> QED BY <1>1, <1>4, <2>1
<1>8. e = c + 3 + m /\ q = c + 3 + m + n
  BY <1>1, <1>5
<1>9. \A i \in 1 .. m : v[c + 2 + i] = h[i] /\ h[i] \in userinfoChar
  <2>1. h \in Seq(userinfoChar)
    BY <1>2
  <2> QED BY <1>1, <1>4, <2>1, ElementOfSeq
<1>10. \A i \in 1 .. n : v[c + 2 + m + i] = p[i] /\ p[i] \in pcharSlash
  BY <1>1, <1>4, ElementOfSeq
<1>11. \A i \in 1 .. k : v[c + 2 + m + n + i] = t[i]
  BY <1>1, <1>4
<1>12. Between(v, e, q) = p
  <2> HIDE DEF e, q
  <2> QED BY <1>4
<1>13. v \in Seq(Token)
  BY <1>4
<1>14. (n # 0 => p[1] = Slash) /\ (k # 0 => t[1] \in {"?", "#"})
  BY DEF Fit
<1>15. b \in c + 3 .. e /\ b \in Nat /\ m = Len(h) /\ l <= m /\ l \in Nat
  BY <1>1, <1>2, <1>8
<1> HIDE DEF m, n, k, e, q
<1>16. ASSUME NEW i \in c + 3 .. e - 1 PROVE v[i] \in userinfoChar
  <2> DEFINE j == i - (c + 2)
  <2>1. j \in 1 .. m /\ c + 2 + j = i
    BY <1>1, <1>5, <1>8
  <2> HIDE DEF j
  <2>2. v[c + 2 + j] = h[j] /\ h[j] \in userinfoChar
    BY <1>9, <2>1
  <2> QED BY <2>1, <2>2
<1>17. /\ \A i \in c + 3 .. b - 1 : v[i] # ":"
       /\ b # e => v[b] = ":"
       /\ Between(v, c + 3, b) = host
  <2>1. ASSUME NEW i \in c + 3 .. b - 1 PROVE v[i] = host[i - (c + 2)] /\ v[i] \in regnameChar
    <3> DEFINE j == i - (c + 2)
    <3>1. j \in 1 .. l /\ j \in 1 .. m /\ c + 2 + j = i
      BY <1>1, <1>15
    <3> HIDE DEF j
    <3>2. v[c + 2 + j] = h[j] /\ h[j] = host[j] /\ host[j] \in regnameChar
      BY <1>9, <1>2, <3>1
    <3> QED BY <3>1, <3>2 DEF j
  <2>2. \A i \in c + 3 .. b - 1 : v[i] # ":"
    BY <2>1, CharsApart
  <2>3. ASSUME b # e PROVE v[b] = ":"
    <3>1. l # m /\ l + 1 \in 1 .. m /\ c + 2 + (l + 1) = b
      <4>1. c \in Nat
        BY <1>1
      <4>2. l \in Nat /\ m \in Nat /\ l <= m
        BY <1>15, <1>5
      <4>3. e = c + 3 + m /\ l # m
        BY <1>8, <2>3
      <4> QED BY <4>1, <4>2, <4>3
    <3>2. v[c + 2 + (l + 1)] = h[l + 1]
      BY <1>9, <3>1
    <3>3. h[l + 1] = ":"
      BY <1>2, <1>15, <3>1
    <3> QED BY <3>1, <3>2, <3>3
  <2>4. Between(v, c + 3, b) = host
    <3> DEFINE f == c + 3
               x == Between(v, f, b)
    <3>1. /\ f \in Nat /\ b \in Nat /\ f <= b /\ b - f = l
          /\ \A i \in 1 .. l : f + i - 1 \in c + 3 .. b - 1 /\ (f + i - 1) - (c + 2) = i
      BY <1>1, <1>15
    <3>2. \A i \in f .. b - 1 : v[i] \in regnameChar
      BY <2>1
    <3>3. \A i \in 1 .. l : v[f + i - 1] = host[i]
      BY <2>1, <3>1
    <3> HIDE DEF f, b
    <3>4. /\ x \in Seq(regnameChar) /\ Len(x) = b - f
          /\ \A i \in 1 .. b - f : x[i] = v[f + i - 1]
      <4>1. f \in Nat
        BY <3>1
      <4>2. b \in Nat
        BY <3>1
      <4>3. f <= b
        BY <3>1
      <4>4. /\ Between(v, f, b) \in Seq(regnameChar) /\ Len(Between(v, f, b)) = b - f
            /\ \A i \in 1 .. b - f : Between(v, f, b)[i] = v[f + i - 1]
            /\ \A i \in f .. b - 1 : v[i] \in ToSet(Between(v, f, b))
        BY <3>2, <4>1, <4>2, <4>3, BetweenAt
      <4> QED BY <4>4
    <3> HIDE DEF x
    <3>5. Len(x) = Len(host) /\ \A i \in 1 .. Len(x) : x[i] = host[i]
      BY <3>1, <3>3, <3>4 DEF l
    <3>6. x \in Seq(regnameChar)
      BY <3>4
    <3> QED BY <3>5, <3>6, SeqEqual DEF x, f
  <2> QED BY <2>2, <2>3, <2>4
<1>18. ASSUME NEW i \in e .. q - 1 PROVE v[i] \in pcharSlash
  <2> DEFINE j == i - (c + 2 + m)
  <2>1. j \in 1 .. n /\ c + 2 + m + j = i
    BY <1>1, <1>5, <1>8
  <2> HIDE DEF j
  <2>2. v[c + 2 + m + j] = p[j] /\ p[j] \in pcharSlash
    BY <1>10, <2>1
  <2> QED BY <2>1, <2>2
<1>19. TokenAt(v, q) \in {"?", "#", Nul}
  <2>1. CASE k = 0
    <3>1. ~(q <= Len(v))
      BY <1>1, <1>5, <1>6, <1>8, <2>1
    <3> QED BY <3>1 DEF TokenAt
  <2>2. CASE k # 0
    <3>1. q <= Len(v) /\ 1 \in 1 .. k /\ q = c + 2 + m + n + 1
      BY <1>1, <1>5, <1>6, <1>8, <2>2
    <3>2. v[c + 2 + m + n + 1] = t[1]
      BY <1>11, <3>1
    <3>3. v[q] = t[1]
      BY <3>1, <3>2
    <3> QED BY <1>14, <2>2, <3>1, <3>3 DEF TokenAt
  <2> QED BY <2>1, <2>2
<1>20. TokenAt(v, e) \in {Slash, "?", "#", Nul}
  <2>1. CASE n = 0
    <3>1. e = q
      BY <1>1, <1>5, <1>8, <2>1
    <3> QED BY <1>19, <3>1
  <2>2. CASE n # 0
    <3>1. e <= Len(v) /\ 1 \in 1 .. n /\ e = c + 2 + m + 1
      BY <1>1, <1>5, <1>6, <1>8, <2>2
    <3>2. v[c + 2 + m + 1] = p[1]
      BY <1>10, <3>1
    <3>3. v[e] = Slash
      BY <1>14, <2>2, <3>1, <3>2
    <3> QED BY <3>1, <3>3 DEF TokenAt
  <2> QED BY <2>1, <2>2
<1>21. c \in 1 .. Len(v) /\ e \in c + 3 .. Len(v) + 1 /\ q \in e .. Len(v) + 1
  BY <1>1, <1>5, <1>6, <1>8
<1> HIDE DEF b
<1>22. Written(v).host = Between(v, c + 3, b) /\ Written(v).path = Between(v, e, q)
  <2>1. c \in 1 .. Len(v)
    BY <1>21
  <2>2. e \in c + 3 .. Len(v) + 1
    BY <1>21
  <2>3. q \in e .. Len(v) + 1
    BY <1>21
  <2>4. \A i \in 1 .. c - 1 : v[i] # ":"
    BY <1>7
  <2>5. \A i \in c + 3 .. e - 1 : v[i] \in userinfoChar
    BY <1>16
  <2>6. \A i \in e .. q - 1 : v[i] \in pcharSlash
    BY <1>18
  <2>7. v[c] = ":"
    BY <1>7
  <2>8. b \in c + 3 .. e
    BY <1>15
  <2>9. (\A i \in c + 3 .. b - 1 : v[i] # ":") /\ (b # e => v[b] = ":")
    BY <1>17
  <2> QED BY <1>13, <1>19, <1>20, <2>1, <2>2, <2>3, <2>4, <2>5, <2>6, <2>7, <2>8, <2>9, PartsRead
<1> QED BY <1>12, <1>22, <1>17 DEF v, h

\* What is printed of a URI without user information.
LEMMA PrintedAs ==
  ASSUME NEW uri, uri.userinfo = <<>>, uri.scheme # <<>>
  PROVE  Printed(uri) = (uri.scheme \o <<":">>)
                        \o If(uri.host # <<>> \/ uri.port # 0 \/ ~uri.path.relative,
                              <<Slash, Slash>> \o uri.host \o If(uri.port # 0, <<":", Digit>>))
                        \o If(~IsEmpty(uri.path) \/ ~uri.path.relative, Text(uri.path))
                        \o If(uri.query # <<>>, <<"?">> \o uri.query)
                        \o If(uri.fragment # <<>>, <<"#">> \o uri.fragment)
<1> DEFINE absolute == ~uri.path.relative
           port == If(uri.port # 0, <<":", Digit>>)
           scheme == If(uri.scheme # <<>>, uri.scheme \o <<":">>)
           inner == <<Slash, Slash>> \o If(uri.userinfo # <<>>, uri.userinfo \o <<"@">>)
                              \o uri.host \o port
           authority == If(uri.userinfo # <<>> \/ uri.host # <<>> \/ uri.port # 0 \/ absolute, inner)
           place == If(~IsEmpty(uri.path) \/ absolute, Text(uri.path))
           query == If(uri.query # <<>>, <<"?">> \o uri.query)
           fragment == If(uri.fragment # <<>>, <<"#">> \o uri.fragment)
<1>1. Printed(uri) = scheme \o authority \o place \o query \o fragment
  BY DEF Printed
<1>2. scheme = uri.scheme \o <<":">>
  BY DEF If
<1>3. inner = <<Slash, Slash>> \o uri.host \o port
  <2>1. If(uri.userinfo # <<>>, uri.userinfo \o <<"@">>) = <<>>
    BY DEF If
  <2>2. Slash \in Token
    BY CharsKnown
  <2>3. <<Slash, Slash>> \in Seq(Token)
    BY <2>2
  <2>4. <<Slash, Slash>> \o <<>> = <<Slash, Slash>>
    BY <2>3, ConcatEmptySeq
  <2> HIDE DEF port
  <2> QED BY <2>1, <2>4
<1> HIDE DEF inner
<1>4. authority = If(uri.host # <<>> \/ uri.port # 0 \/ ~uri.path.relative, inner)
  BY DEF If
<1> HIDE DEF scheme, authority, place, query, fragment, port
<1> QED BY <1>1, <1>2, <1>3, <1>4 DEF place, query, fragment, port

LEMMA Rejoined ==
  ASSUME NEW x \in Seq(Token), NEW y \in Seq(Token), NEW z \in Seq(Token)
  PROVE  (x \o y) \o z = x \o (y \o z)
BY ConcatAssociative

\* Without user information, the parts of a URI that is printed are read as they
\* were, if it still has an authority; a port that it has does not hide them.
LEMMA PrintedBack ==
  ASSUME NEW uri \in Uris(Token, Token), NEW text \in Seq(pcharSlash),
         uri.scheme \in Seq(schemeChar), uri.scheme # <<>>, uri.host \in Seq(regnameChar),
         uri.path = IF text = <<>> THEN NoPath ELSE PathOf(text),
         text # <<>> => text[1] = Slash,
         NEW v, v = Printed(WithUserinfo(uri, <<>>)), HasAuthority(v)
  PROVE  /\ Written(v).host = uri.host
         /\ Written(v).path = IF text = <<>> THEN <<>> ELSE Text(uri.path)
<1> DEFINE shown == WithUserinfo(uri, <<>>)
           query == If(uri.query # <<>>, <<"?">> \o uri.query)
           fragment == If(uri.fragment # <<>>, <<"#">> \o uri.fragment)
           tail == query \o fragment
           colon == uri.scheme \o <<":">>
           slashes == <<Slash, Slash>>
           d == If(uri.port # 0, <<":", Digit>>)
           place == IF text = <<>> THEN <<>> ELSE Text(uri.path)
           c == Len(uri.scheme) + 1
<1>1. /\ shown.userinfo = <<>> /\ shown.scheme = uri.scheme /\ shown.host = uri.host
      /\ shown.port = uri.port /\ shown.path = uri.path /\ shown.query = uri.query
      /\ shown.fragment = uri.fragment
  BY DEF WithUserinfo, SplitUser, Uris
<1>2. /\ uri.scheme \in Seq(Token) /\ uri.host \in Seq(Token) /\ uri.query \in Seq(Token)
      /\ uri.fragment \in Seq(Token)
  BY DEF Uris
<1>3. /\ <<":">> \in Seq(Token) /\ <<"?">> \in Seq(Token) /\ <<"#">> \in Seq(Token)
      /\ slashes \in Seq(Token) /\ <<>> \in Seq(Token) /\ Len(slashes) = 2
      /\ slashes[1] = Slash /\ slashes[2] = Slash
  <2>1. {":", "?", "#", Slash} \subseteq Token
    BY CharsKnown
  <2> QED BY <2>1
<1>4. /\ colon \in Seq(Token) /\ Len(colon) = c /\ c \in Nat \ {0} /\ colon[c] = ":"
      /\ \A i \in 1 .. c - 1 : colon[i] = uri.scheme[i] /\ colon[i] # ":"
  <2>1. Len(uri.scheme) \in Nat \ {0} /\ \A i \in 1 .. Len(uri.scheme) : uri.scheme[i] \in schemeChar
    BY EmptySeq, ElementOfSeq
  <2>2. /\ colon \in Seq(Token) /\ Len(colon) = Len(uri.scheme) + Len(<<":">>)
        /\ \A i \in 1 .. Len(uri.scheme) + Len(<<":">>) :
              colon[i] = IF i <= Len(uri.scheme) THEN uri.scheme[i] ELSE <<":">>[i - Len(uri.scheme)]
    BY <1>2, <1>3, ConcatProperties
  <2> HIDE DEF colon
  <2>3. Len(<<":">>) = 1 /\ <<":">>[1] = ":"
    OBVIOUS
  <2>4. colon[c] = ":"
    <3>1. c \in 1 .. Len(uri.scheme) + Len(<<":">>) /\ ~(c <= Len(uri.scheme)) /\ c - Len(uri.scheme) = 1
      BY <2>1, <2>3
    <3> QED BY <2>2, <2>3, <3>1
  <2>5. \A i \in 1 .. c - 1 : i \in 1 .. Len(uri.scheme) /\ i <= Len(uri.scheme)
                              /\ i \in 1 .. Len(uri.scheme) + Len(<<":">>)
    BY <2>1, <2>3
  <2>6. \A i \in 1 .. c - 1 : colon[i] = uri.scheme[i] /\ colon[i] # ":"
    BY <2>1, <2>2, <2>5, CharsApart
  <2> QED BY <2>1, <2>2, <2>3, <2>4, <2>6
<1>5. /\ query \in Seq(Token) /\ fragment \in Seq(Token) /\ tail \in Seq(Token)
      /\ Len(tail) \in Nat /\ (Len(tail) = 0 \/ tail[1] \in {"?", "#"})
  <2>1. ASSUME NEW mark \in {"?", "#"}, NEW s \in Seq(Token)
        PROVE  <<mark>> \o s \in Seq(Token) /\ Len(<<mark>> \o s) # 0 /\ (<<mark>> \o s)[1] = mark
    <3>1. <<mark>> \in Seq(Token) /\ Len(<<mark>>) = 1 /\ <<mark>>[1] = mark
      BY <1>3
    <3>2. Len(s) \in Nat
      OBVIOUS
    <3>3. 1 \in 1 .. Len(<<mark>>) + Len(s) /\ 1 <= Len(<<mark>>) /\ Len(<<mark>>) + Len(s) # 0
      BY <3>1, <3>2
    <3> QED BY <3>1, <3>3, ConcatProperties
  <2>2. query \in Seq(Token) /\ (query = <<>> \/ (Len(query) # 0 /\ query[1] = "?"))
    BY <1>2, <1>3, <2>1 DEF If
  <2>3. fragment \in Seq(Token) /\ (fragment = <<>> \/ (Len(fragment) # 0 /\ fragment[1] = "#"))
    BY <1>2, <1>3, <2>1 DEF If
  <2> HIDE DEF query, fragment
  <2>4. /\ tail \in Seq(Token) /\ Len(tail) = Len(query) + Len(fragment)
        /\ \A i \in 1 .. Len(query) + Len(fragment) :
              tail[i] = IF i <= Len(query) THEN query[i] ELSE fragment[i - Len(query)]
    BY <2>2, <2>3, ConcatProperties
  <2> HIDE DEF tail
  <2>5. Len(query) \in Nat /\ Len(fragment) \in Nat /\ Len(<<>>) = 0
    BY <2>2, <2>3, LenProperties
  <2>6. CASE query # <<>>
    <3>1. 1 \in 1 .. Len(query) + Len(fragment) /\ 1 <= Len(query)
      BY <2>2, <2>5, <2>6
    <3> QED BY <2>2, <2>3, <2>4, <2>5, <2>6, <3>1
  <2>7. CASE query = <<>> /\ fragment # <<>>
    <3>1. 1 \in 1 .. Len(query) + Len(fragment) /\ ~(1 <= Len(query)) /\ 1 - Len(query) = 1
      BY <2>3, <2>5, <2>7
    <3> QED BY <2>2, <2>3, <2>4, <2>5, <2>7, <3>1
  <2>8. CASE query = <<>> /\ fragment = <<>>
    BY <2>2, <2>3, <2>4, <2>5, <2>8
  <2> QED BY <2>6, <2>7, <2>8
<1>6. /\ place \in Seq(pcharSlash) /\ (text # <<>> => Len(place) \in Nat \ {0} /\ place[1] = Slash)
      /\ (text = <<>> => uri.path.relative /\ IsEmpty(uri.path))
      /\ (text # <<>> => ~uri.path.relative)
  <2>1. CASE text = <<>>
    <3>1. place = <<>> /\ uri.path = NoPath
      BY <2>1
    <3> HIDE DEF place
    <3>2. <<>> \in Seq(pcharSlash)
      OBVIOUS
    <3> QED BY <2>1, <3>1, <3>2 DEF NoPath, IsEmpty
  <2>2. CASE text # <<>>
    <3>1. uri.path = PathOf(text) /\ PathOf(text).relative = FALSE
      BY <2>2 DEF PathOf
    <3>2. Text(uri.path) \in Seq(pcharSlash) /\ Len(Text(uri.path)) # 0 /\ Text(uri.path)[1] = Slash
      <4>1. {Slash, "."} \subseteq pcharSlash
        BY DEF pcharSlash, userinfoChar, regnameChar, unreserved
      <4>2. PathOf(text) \in Path(pcharSlash)
        BY PathType
      <4> QED BY <3>1, <4>1, <4>2, TextType
    <3>3. place = Text(uri.path)
      BY <2>2
    <3> HIDE DEF place
    <3>4. place \in Seq(pcharSlash)
      BY <3>2, <3>3
    <3>5. Len(place) \in Nat
      BY <3>4, LenProperties
    <3> QED BY <2>2, <3>1, <3>2, <3>3, <3>4, <3>5
  <2> HIDE DEF place
  <2> QED BY <2>1, <2>2
<1> HIDE DEF tail
<1>7. pcharSlash \subseteq Token /\ regnameChar \subseteq Token
  BY CharsKnown
<1>8. place \in Seq(Token) /\ Len(place) \in Nat /\ (text = <<>> => place = <<>>)
  <2>1. place \in Seq(Token)
    BY <1>6, <1>7, SeqMonotonic
  <2> QED BY <2>1
<1>9. v = colon \o If(uri.host # <<>> \/ uri.port # 0 \/ ~uri.path.relative, slashes \o uri.host \o d)
             \o If(~IsEmpty(uri.path) \/ ~uri.path.relative, Text(uri.path)) \o query \o fragment
  <2> HIDE DEF shown
  <2>1. shown.userinfo = <<>> /\ shown.scheme # <<>>
    BY <1>1
  <2>2. Printed(shown) = (shown.scheme \o <<":">>)
                        \o If(shown.host # <<>> \/ shown.port # 0 \/ ~shown.path.relative,
                              <<Slash, Slash>> \o shown.host \o If(shown.port # 0, <<":", Digit>>))
                        \o If(~IsEmpty(shown.path) \/ ~shown.path.relative, Text(shown.path))
                        \o If(shown.query # <<>>, <<"?">> \o shown.query)
                        \o If(shown.fragment # <<>>, <<"#">> \o shown.fragment)
    BY <2>1, PrintedAs
  <2> QED BY <1>1, <2>2 DEF shown
<1>10. d \in PortTexts /\ d \in Seq(Token)
  <2>1. ":" \in Token /\ Digit \in Token
    BY CharsKnown DEF regnameChar, unreserved
  <2> QED BY <2>1 DEF If, PortTexts
<1> HIDE DEF d
<1> HIDE DEF colon, query, fragment, place, slashes, shown
<1>11. CASE uri.host # <<>> \/ uri.port # 0 \/ text # <<>>
  <2> DEFINE a == colon \o slashes
             hd == uri.host \o d
  <2>1. v = ((a \o hd) \o place) \o tail
    <3>1. v = (((colon \o (slashes \o uri.host \o d)) \o place) \o query) \o fragment
      <4>1. /\ If(uri.host # <<>> \/ uri.port # 0 \/ ~uri.path.relative, slashes \o uri.host \o d)
                   = slashes \o uri.host \o d
            /\ If(~IsEmpty(uri.path) \/ ~uri.path.relative, Text(uri.path)) = place
        BY <1>6, <1>11 DEF If, place
      <4> QED BY <4>1, <1>9
    <3>2. colon \o (slashes \o uri.host \o d) = a \o hd
      <4>1. colon \in Seq(Token)
        BY <1>4
      <4>2. slashes \in Seq(Token)
        BY <1>3
      <4>3. uri.host \in Seq(Token) /\ d \in Seq(Token)
        BY <1>2, <1>10
      <4>4. hd \in Seq(Token)
        BY <4>3, ConcatProperties
      <4>5. slashes \o uri.host \o d = slashes \o hd
        BY <4>2, <4>3, Rejoined
      <4> HIDE DEF hd
      <4>6. colon \o (slashes \o hd) = a \o hd
        BY <4>1, <4>2, <4>4, Rejoined
      <4> QED BY <4>5, <4>6
    <3>3. a \in Seq(Token) /\ hd \in Seq(Token) /\ a \o hd \in Seq(Token)
      BY <1>2, <1>3, <1>4, <1>10, ConcatProperties
    <3> DEFINE front == (a \o hd) \o place
    <3>4. front \in Seq(Token)
      BY <1>8, <3>3, ConcatProperties
    <3> HIDE DEF front, a, hd
    <3>5. (front \o query) \o fragment = front \o tail
      <4>1. query \in Seq(Token)
        BY <1>5
      <4>2. fragment \in Seq(Token)
        BY <1>5
      <4> QED BY <3>4, <4>1, <4>2, Rejoined DEF tail
    <3> QED BY <3>1, <3>2, <3>5 DEF front
  <2>2. /\ a \in Seq(Token) /\ Len(a) = c + 2 /\ a[c] = ":" /\ \A i \in 1 .. c - 1 : a[i] # ":"
    <3>1. /\ a \in Seq(Token) /\ Len(a) = Len(colon) + Len(slashes)
          /\ \A i \in 1 .. Len(colon) + Len(slashes) :
                a[i] = IF i <= Len(colon) THEN colon[i] ELSE slashes[i - Len(colon)]
      <4>1. colon \in Seq(Token) /\ slashes \in Seq(Token)
        BY <1>3, <1>4
      <4> QED BY <4>1, ConcatProperties
    <3> HIDE DEF a
    <3>2. \A i \in 1 .. c : i \in 1 .. Len(colon) + Len(slashes) /\ i <= Len(colon)
      BY <1>3, <1>4
    <3>3. c \in 1 .. c /\ \A i \in 1 .. c - 1 : i \in 1 .. c
      BY <1>4
    <3> QED BY <1>3, <1>4, <3>1, <3>2, <3>3
  <2> HIDE DEF a
  <2> HIDE DEF c
  <2>3. Written(v).host = uri.host /\ Written(v).path = place
    <3>1. c \in Nat \ {0} /\ tail \in Seq(Token) /\ (Len(tail) # 0 => tail[1] \in {"?", "#"})
      BY <1>4, <1>5
    <3>2. place \in Seq(pcharSlash) /\ (Len(place) # 0 => place[1] = Slash)
      <4>1. text = <<>> => Len(place) = 0
        BY <1>8
      <4> QED BY <1>6, <4>1
    <3> HIDE DEF tail
    <3>3. a \in Seq(Token)
      BY <2>2
    <3>4. tail \in Seq(Token)
      BY <3>1
    <3>5. place \in Seq(pcharSlash)
      BY <3>2
    <3>6. Fit(a, c, place, tail)
      BY <1>4, <2>2, <3>1, <3>2 DEF Fit
    <3>7. uri.host \in Seq(regnameChar)
      OBVIOUS
    <3> DEFINE h == uri.host
    <3> HIDE DEF h
    <3>8. h \in Seq(regnameChar)
      BY <3>7 DEF h
    <3>9. d \in PortTexts
      BY <1>10
    <3>10. /\ Written(((a \o (h \o d)) \o place) \o tail).host = h
           /\ Written(((a \o (h \o d)) \o place) \o tail).path = place
      BY ONLY <3>3, <3>4, <3>5, <3>6, <3>8, <3>9, ReadBack
    <3> QED BY <2>1, <3>10 DEF h
  <2> QED BY <2>3 DEF place
<1>12. CASE ~(uri.host # <<>> \/ uri.port # 0 \/ text # <<>>)
  <2>1. v = colon \o tail
    <3>1. v = (((colon \o <<>>) \o <<>>) \o query) \o fragment
      <4>1. /\ If(uri.host # <<>> \/ uri.port # 0 \/ ~uri.path.relative, slashes \o uri.host \o d)
                   = <<>>
            /\ If(~IsEmpty(uri.path) \/ ~uri.path.relative, Text(uri.path)) = <<>>
        BY <1>6, <1>12 DEF If
      <4> QED BY <4>1, <1>9
    <3>2. (colon \o <<>>) \o <<>> = colon
      BY <1>4, ConcatEmptySeq
    <3>3. (colon \o query) \o fragment = colon \o tail
      <4>1. colon \in Seq(Token)
        BY <1>4
      <4>2. query \in Seq(Token)
        BY <1>5
      <4>3. fragment \in Seq(Token)
        BY <1>5
      <4> QED BY <4>1, <4>2, <4>3, Rejoined DEF tail
    <3> QED BY <3>1, <3>2, <3>3
  <2>2. /\ v \in Seq(Token) /\ Len(v) = c + Len(tail)
        /\ \A i \in 1 .. c + Len(tail) : v[i] = IF i <= c THEN colon[i] ELSE tail[i - c]
    <3>1. colon \in Seq(Token)
      BY <1>4
    <3>2. tail \in Seq(Token)
      BY <1>5
    <3>3. Len(colon) = c
      BY <1>4
    <3> HIDE DEF c
    <3>4. /\ colon \o tail \in Seq(Token) /\ Len(colon \o tail) = Len(colon) + Len(tail)
          /\ \A i \in 1 .. Len(colon) + Len(tail) :
                (colon \o tail)[i] = IF i <= Len(colon) THEN colon[i] ELSE tail[i - Len(colon)]
      BY <3>1, <3>2, ConcatProperties
    <3> QED BY <2>1, <3>3, <3>4
  <2>3. c \in Nat \ {0} /\ Len(tail) \in Nat
    BY <1>4, <1>5
  <2> HIDE DEF c
  <2>4. /\ 1 \in 1 .. Len(v) + 1 /\ c \in 1 .. Len(v) + 1 /\ c <= Len(v)
        /\ c \in 1 .. c + Len(tail) /\ c <= c
        /\ \A i \in 1 .. c - 1 : i \in 1 .. c + Len(tail) /\ i <= c
    BY <2>2, <2>3
  <2>5. v[c] = ":" /\ \A i \in 1 .. c - 1 : v[i] \notin {":"}
    BY <1>4, <2>2, <2>4
  <2>6. FirstOf(v, 1, {":"}) = c
    <3>1. TokenAt(v, c) \in {":"} \cup {Nul}
      BY <2>4, <2>5 DEF TokenAt
    <3>2. v \in Seq(Token)
      BY <2>2
    <3>3. 1 \in 1 .. Len(v) + 1 /\ c \in 1 .. Len(v) + 1
      BY <2>4
    <3> QED BY ONLY <2>5, <3>1, <3>2, <3>3, FirstOfIs
  <2>7. TokenAt(v, c + 1) = Slash
    BY <2>6 DEF HasAuthority
  <2>8. TokenAt(v, c + 1) \in {"?", "#", Nul}
    <3>1. CASE Len(tail) = 0
      <4>1. ~(c + 1 <= Len(v))
        BY <2>2, <2>3, <3>1
      <4> QED BY <4>1 DEF TokenAt
    <3>2. CASE Len(tail) # 0
      <4>1. /\ c + 1 <= Len(v) /\ c + 1 \in 1 .. c + Len(tail)
            /\ ~(c + 1 <= c) /\ (c + 1) - c = 1
        BY <2>2, <2>3, <3>2
      <4>2. v[c + 1] = tail[1]
        BY <2>2, <4>1
      <4> QED BY <1>5, <3>2, <4>1, <4>2 DEF TokenAt
    <3> QED BY <3>1, <3>2
  <2> QED BY <2>7, <2>8 DEF Slash, Nul
<1> QED BY <1>11, <1>12

-----------------------------------------------------------------------------
(* The loaders *)

LEMMA RestFields ==
  ASSUME NEW u, NEW p, NEW T, NEW I, NEW uri \in Uris(T, I)
  PROVE  LET uriRead == Rest(u, p, uri).uri
             path == Skip(u, p, pcharSlash)
         IN /\ uriRead.path = IF path = p THEN NoPath ELSE PathOf(Between(u, p, path))
            /\ uriRead.scheme = uri.scheme /\ uriRead.host = uri.host /\ uriRead.port = uri.port
            /\ uriRead.userinfo = uri.userinfo /\ uriRead.user = uri.user
            /\ uriRead.password = uri.password
<1> DEFINE path == Skip(u, p, pcharSlash)
           query == IF TokenAt(u, path) = "?" THEN Skip(u, path + 1, queryChar) ELSE path
           end == IF TokenAt(u, query) = "#" THEN Skip(u, query + 1, queryChar) ELSE query
           place == IF path = p THEN NoPath ELSE PathOf(Between(u, p, path))
<1>1. Rest(u, p, uri).uri =
        [uri EXCEPT !.path = place, !.query = Between(u, path + 1, query),
                    !.fragment = Between(u, query + 1, end)]
  BY DEF Rest, Parsed
<1> HIDE DEF query, end, place
<1>2. DOMAIN uri = {"scheme", "userinfo", "user", "password", "host", "port", "path", "query",
                    "fragment"}
  BY DEF Uris
<1> HIDE DEF path
<1>3. /\ Rest(u, p, uri).uri.path = place /\ Rest(u, p, uri).uri.scheme = uri.scheme
      /\ Rest(u, p, uri).uri.host = uri.host /\ Rest(u, p, uri).uri.port = uri.port
      /\ Rest(u, p, uri).uri.userinfo = uri.userinfo /\ Rest(u, p, uri).uri.user = uri.user
      /\ Rest(u, p, uri).uri.password = uri.password
  BY <1>1, <1>2
<1> QED BY <1>3 DEF place, path

\* The path that the parser finds behind the authority.
LEMMA PathRead ==
  ASSUME NEW u \in Seq(Token), HasAuthority(u), NEW T, NEW I, NEW uri \in Uris(T, I),
         \/ Rest(u, AuthorityEnd(u), uri).result = "ok"
         \/ ToSet(Written(u).path) \subseteq pcharSlash
  PROVE  /\ Rest(u, AuthorityEnd(u), uri).uri.path =
              IF Written(u).path = <<>> THEN NoPath ELSE PathOf(Written(u).path)
         /\ Written(u).path \in Seq(pcharSlash)
         /\ Written(u).path # <<>> => Written(u).path[1] = Slash
<1> DEFINE e == AuthorityEnd(u)
           q == PathEnd(u)
           text == Written(u).path
<1>1. Skip(u, e, pcharSlash) = q /\ \A i \in e .. q - 1 : u[i] \in pcharSlash
  BY PathFound
<1>2. text = Between(u, e, q)
  BY WrittenParts
<1>3. /\ Len(u) \in Nat /\ Colon(u) \in 1 .. Len(u) /\ e \in Colon(u) + 3 .. Len(u) + 1
      /\ q \in e .. Len(u) + 1 /\ TokenAt(u, e) \in {Slash, "?", "#", Nul}
  BY Layout
<1>4. Rest(u, e, uri).uri.path = IF Skip(u, e, pcharSlash) = e THEN NoPath
                                 ELSE PathOf(Between(u, e, Skip(u, e, pcharSlash)))
  BY RestFields
<1> HIDE DEF e, q, text
<1>5. e \in Nat /\ q \in Nat /\ e <= q
  BY <1>3
<1>6. /\ text \in Seq(pcharSlash) /\ Len(text) = q - e
      /\ \A i \in 1 .. q - e : text[i] = u[e + i - 1]
  <2>1. /\ Between(u, e, q) \in Seq(pcharSlash) /\ Len(Between(u, e, q)) = q - e
        /\ \A i \in 1 .. q - e : Between(u, e, q)[i] = u[e + i - 1]
        /\ \A i \in e .. q - 1 : u[i] \in ToSet(Between(u, e, q))
    <3>1. \A i \in e .. q - 1 : u[i] \in pcharSlash
      BY <1>1
    <3>2. e \in Nat
      BY <1>5
    <3>3. q \in Nat
      BY <1>5
    <3>4. e <= q
      BY <1>5
    <3> QED BY <3>1, <3>2, <3>3, <3>4, BetweenAt
  <2> QED BY <1>2, <2>1
<1>7. text = <<>> <=> q = e
  <2>1. text = <<>> <=> Len(text) = 0
    BY <1>6, EmptySeq
  <2> QED BY <1>5, <1>6, <2>1
<1>8. Rest(u, e, uri).uri.path = IF text = <<>> THEN NoPath ELSE PathOf(text)
  BY <1>1, <1>2, <1>4, <1>7
<1>9. ASSUME text # <<>> PROVE text[1] = Slash
  <2>1. 1 \in 1 .. q - e /\ e + 1 - 1 = e /\ e \in e .. q - 1 /\ e <= Len(u)
    BY <1>3, <1>5, <1>7, <1>9
  <2>2. text[1] = u[e] /\ u[e] \in pcharSlash /\ TokenAt(u, e) = u[e]
    BY <1>1, <1>6, <2>1 DEF TokenAt
  <2> QED BY <1>3, <2>2, CharsApart
<1> QED BY <1>6, <1>8, <1>9 DEF e, text

\* What the parser makes of the user information and the host.
LEMMA WithType ==
  ASSUME NEW uri \in Uris(Token, Token), NEW info \in Seq(userinfoChar), NEW host \in Seq(Token),
         NEW port \in Ports
  PROVE  LET known == With(uri, info, host, port) IN
         /\ known \in Uris(Token, Token)
         /\ known.scheme = uri.scheme /\ known.host = host
         /\ <<BindDn(known), known.password>> = Credentials(info)
<1> DEFINE split == SplitUser(uri, info)
           known == With(uri, info, host, port)
<1>1. info \in Seq(Token) /\ "@" \in Token
  <2>1. userinfoChar \subseteq Token /\ "@" \in Token
    BY CharsKnown
  <2> QED BY <2>1, SeqMonotonic
<1>2. split \in Uris(Token, Token)
  BY <1>1, SplitUserType
<1>3. split.scheme = uri.scheme
  BY DEF SplitUser, Uris
<1>4. <<BindDn(split), split.password>> = Credentials(info)
  BY CredentialsFound
<1>5. known = [split EXCEPT !.host = host, !.port = port]
  BY DEF With
<1> HIDE DEF split, known
<1>6. known \in Uris(Token, Token)
  BY <1>2, <1>5 DEF Uris
<1>7. known.scheme = split.scheme /\ known.host = host
  BY <1>2, <1>5 DEF Uris
<1>8. known.user = split.user /\ known.password = split.password /\ known.userinfo = split.userinfo
  BY <1>2, <1>5 DEF Uris
<1>9. BindDn(known) = BindDn(split)
  BY <1>8 DEF BindDn
<1> QED BY <1>3, <1>4, <1>6, <1>7, <1>8, <1>9 DEF known

\* What the parser makes of a URI with user information and the name of a host.
LEMMA UriRead ==
  ASSUME NEW u \in Seq(Token), NamesHost(u), HasUserinfo(u),
         \A i \in Colon(u) + 3 .. AtSign(u) - 1 : u[i] \in userinfoChar,
         \/ Parse(u).result = "ok"
         \/ ~Written(u).hasPort /\ ToSet(Written(u).path) \subseteq pcharSlash
  PROVE  LET uri == Parse(u).uri IN
         /\ uri.scheme \in Seq(schemeChar) /\ uri.scheme # <<>>
         /\ uri.host = Written(u).host /\ uri.host \in Seq(regnameChar)
         /\ uri.path = IF Written(u).path = <<>> THEN NoPath ELSE PathOf(Written(u).path)
         /\ Written(u).path \in Seq(pcharSlash)
         /\ Written(u).path # <<>> => Written(u).path[1] = Slash
<1> DEFINE base == [Empty EXCEPT !.scheme = Between(u, 1, Colon(u))]
<1>1. HasAuthority(u) /\ ToSet(Written(u).host) \subseteq regnameChar
  BY DEF NamesHost
<1>2. HasUserinfo(u)
  OBVIOUS
<1>3. /\ base \in Uris(Token, Token) /\ Between(u, 1, Colon(u)) \in Seq(schemeChar)
      /\ Between(u, 1, Colon(u)) # <<>>
  BY <1>1, SchemeRead
<1>4. base.scheme = Between(u, 1, Colon(u))
  BY DEF Empty
<1>5. PICK port \in Ports :
        Parse(u) = Rest(u, AuthorityEnd(u), With(base, Written(u).userinfo, Written(u).host, port))
  BY <1>2, AuthorityIs
<1> DEFINE known == With(base, Written(u).userinfo, Written(u).host, port)
<1> HIDE DEF base
<1>6. Written(u).userinfo \in Seq(userinfoChar)
  BY <1>1, <1>2, AuthorityBegins
<1>7. Written(u).host \in Seq(regnameChar)
  <2> DEFINE h == HostBegin(u)
             e == HostEnd(u)
  <2>1. h \in 1 .. e /\ e \in 1 .. AuthorityEnd(u) /\ Skip(u, h, regnameChar) = e
        /\ Written(u).host = Between(u, h, e)
    BY HostFound
  <2>2. AuthorityEnd(u) \in Nat /\ AuthorityEnd(u) <= Len(u) + 1 /\ Len(u) \in Nat
    BY <1>1, Layout
  <2> HIDE DEF h, e
  <2>3. h \in 1 .. Len(u) + 1 /\ h \in Nat /\ e \in Nat
    BY <2>1, <2>2
  <2>4. \A i \in h .. e - 1 : u[i] \in regnameChar
    BY <2>1, <2>2, <2>3, SkipStops, CharsApart
  <2> QED BY <2>1, <2>3, <2>4, BetweenType
<1>8. Written(u).host \in Seq(Token)
  <2>1. regnameChar \subseteq Token
    BY CharsKnown
  <2> QED BY <1>7, <2>1, SeqMonotonic
<1>9. Parse(u) = Rest(u, AuthorityEnd(u), known)
  BY <1>5
<1>10. /\ known \in Uris(Token, Token) /\ known.scheme = base.scheme
       /\ known.host = Written(u).host
  BY <1>3, <1>6, <1>8, WithType
<1> HIDE DEF known
<1>11. /\ Parse(u).uri.path = IF Written(u).path = <<>> THEN NoPath ELSE PathOf(Written(u).path)
       /\ Written(u).path \in Seq(pcharSlash)
       /\ Written(u).path # <<>> => Written(u).path[1] = Slash
  <2>1. \/ Rest(u, AuthorityEnd(u), known).result = "ok"
        \/ ToSet(Written(u).path) \subseteq pcharSlash
    BY <1>9
  <2> QED BY <1>1, <1>9, <1>10, <2>1, PathRead
<1>12. Parse(u).uri.scheme = known.scheme /\ Parse(u).uri.host = known.host
  BY <1>9, <1>10, RestFields
<1> QED BY <1>3, <1>4, <1>7, <1>10, <1>11, <1>12

\* Without user information there are no credentials.
LEMMA NoCredentials == Credentials(<<>>) = <<<<>>, <<>>>> /\ unescape(<<>>) = <<>>
<1> DEFINE info == <<>>
           c == FirstOf(info, 1, {":"})
<1>1. info \in Seq(Token) /\ Len(info) = 0 /\ info # <<":">>
  BY EmptySeq
<1>2. unescape(<<>>) = <<>>
  BY <1>1, UnescapeLength
<1>3. Credentials(info) = <<unescape(Between(info, 1, c)), unescape(SubSeq(info, c + 1, Len(info)))>>
  BY <1>1 DEF Credentials
<1>4. c \in 1 .. 1
  <2> HIDE DEF c, info
  <2>1. 1 \in 1 .. Len(info) + 1 /\ Len(info) \in Nat /\ Len(info) + 1 = 1
    BY <1>1
  <2> QED BY <2>1, FirstOfStops DEF c
<1> HIDE DEF c
<1>5. c = 1
  BY <1>4
<1>6. Between(info, 1, c) = <<>> /\ SubSeq(info, c + 1, Len(info)) = <<>>
  <2>1. 1 - 1 < 1 /\ 0 < 1 + 1
    OBVIOUS
  <2> QED BY <1>1, <1>5, <2>1, SubSeqEmpty DEF Between
<1> QED BY <1>2, <1>3, <1>6

\* What the parser has of the user information stays as it is behind the authority.
LEMMA CredentialsKept ==
  ASSUME NEW u, NEW p, NEW base \in Uris(Token, Token), NEW info \in Seq(userinfoChar),
         NEW host \in Seq(Token), NEW port \in Ports,
         Parse(u) = Rest(u, p, With(base, info, host, port))
  PROVE  <<BindDn(Parse(u).uri), Parse(u).uri.password>> = Credentials(info)
<1> DEFINE known == With(base, info, host, port)
           uri == Parse(u).uri
<1>1. known \in Uris(Token, Token) /\ <<BindDn(known), known.password>> = Credentials(info)
  BY WithType
<1> HIDE DEF known
<1>2. uri.userinfo = known.userinfo /\ uri.user = known.user /\ uri.password = known.password
  BY <1>1, RestFields DEF known
<1> HIDE DEF uri
<1>3. BindDn(uri) = BindDn(known)
  BY <1>2 DEF BindDn
<1> QED BY <1>1, <1>2, <1>3 DEF uri

\* A text in which the parser finds an authority has one.
LEMMA AuthorityThere ==
  ASSUME NEW u \in Seq(Token), AtAuthority(u, Skip(u, 1, schemeChar))
  PROVE  HasAuthority(u)
<1> DEFINE s == Skip(u, 1, schemeChar)
<1>1. Len(u) \in Nat /\ 1 \in 1 .. Len(u) + 1
  OBVIOUS
<1>2. s \in 1 .. Len(u) + 1 /\ \A i \in 1 .. s - 1 : u[i] \in schemeChar
  <2> HIDE DEF s
  <2> QED BY <1>1, SkipStops, CharsApart DEF s
<1>3. /\ TokenAt(u, 1) \in Word /\ TokenAt(u, s) = ":"
      /\ TokenAt(u, s + 1) = Slash /\ TokenAt(u, s + 2) = Slash
  BY DEF AtAuthority
<1> HIDE DEF s
<1>4. FirstOf(u, 1, {":"}) = s
  <2>1. \A i \in 1 .. s - 1 : u[i] \notin {":"}
    BY <1>2, CharsApart
  <2>2. TokenAt(u, s) \in {":"} \cup {Nul}
    BY <1>3
  <2> QED BY <1>1, <1>2, <2>1, <2>2, FirstOfIs
<1>5. \A i \in 2 .. s - 1 : u[i] \in schemeChar
  <2>1. \A i \in 2 .. s - 1 : i \in 1 .. s - 1
    BY <1>2
  <2> QED BY <1>2, <2>1
<1> QED BY <1>3, <1>4, <1>5 DEF HasAuthority

\* The parser finds no user information where there is none.
LEMMA NoUserinfo ==
  ASSUME NEW u \in Seq(Token), HasAuthority(u), ~HasUserinfo(u)
  PROVE  TokenAt(u, Skip(u, Colon(u) + 3, userinfoChar)) # "@"
<1> DEFINE f == Colon(u) + 3
           q == Skip(u, f, userinfoChar)
           e == AuthorityEnd(u)
<1>1. /\ Len(u) \in Nat /\ f \in Nat /\ f \in 1 .. Len(u) + 1
      /\ e \in f .. Len(u) + 1 /\ TokenAt(u, e) \in {Slash, "?", "#", Nul}
  BY Layout
<1>2. AtSign(u) = FirstOf(u, f, {"@"}) /\ ~(AtSign(u) < e)
  BY DEF AtSign, HasUserinfo
<1> HIDE DEF f, e
<1>3. q \in f .. Len(u) + 1 /\ \A i \in f .. q - 1 : u[i] \in userinfoChar
  <2> HIDE DEF q
  <2> QED BY <1>1, SkipStops, CharsApart DEF q
<1> SUFFICES ASSUME TokenAt(u, q) = "@" PROVE FALSE
  BY DEF f
<1> HIDE DEF q
<1>4. AtSign(u) = q
  <2>1. \A i \in f .. q - 1 : u[i] \notin {"@"}
    BY <1>3, CharsApart
  <2>2. TokenAt(u, q) \in {"@"} \cup {Nul}
    OBVIOUS
  <2> QED BY <1>1, <1>2, <1>3, <2>1, <2>2, FirstOfIs
<1>5. e \in f .. q
  BY <1>1, <1>2, <1>3, <1>4
<1>6. "@" \notin {Slash, "?", "#", Nul}
  BY DEF Slash, Nul
<1>7. CASE e = q
  BY <1>1, <1>6, <1>7
<1>8. CASE e # q
  <2>1. e \in f .. q - 1 /\ e <= Len(u)
    BY <1>1, <1>3, <1>5, <1>8
  <2>2. TokenAt(u, e) = u[e] /\ u[e] \in userinfoChar
    BY <1>3, <2>1 DEF TokenAt
  <2> QED BY <1>1, <2>2, CharsApart, CharsKnown
<1> QED BY <1>7, <1>8

\* For every text that the parser accepts: the credentials are those of its user
\* information, and there are none if it has none.
LEMMA CredentialsSent ==
  ASSUME NEW u \in Seq(Token), Parse(u).result = "ok"
  PROVE  <<BindDn(Parse(u).uri), Parse(u).uri.password>> = Credentials(UserinfoOf(u))
<1> DEFINE base == [Empty EXCEPT !.scheme = Between(u, 1, Colon(u))]
<1>1. Len(u) \in Nat /\ \A i \in 1 .. Len(u) : u[i] \in Token
  OBVIOUS
<1>2. CASE HasAuthority(u) /\ HasUserinfo(u)
  <2> DEFINE p == Colon(u) + 1
             at1 == AtSign(u)
             h == HostBegin(u)
             e == Skip(u, h, regnameChar)
             info == Written(u).userinfo
             host == Between(u, h, e)
  <2>1. \A i \in Colon(u) + 3 .. AtSign(u) - 1 : u[i] \in userinfoChar
    BY <1>2, UserinfoValid
  <2>2. /\ Parse(u) = Authority(u, p, base)
        /\ Skip(u, p + 2, userinfoChar) = at1
        /\ HostFrom(TokenAt(u, at1) = "@", p, at1) = h
        /\ InfoBefore(u, p, at1) = info
        /\ info \in Seq(userinfoChar)
    BY <1>2, <2>1, AuthorityBegins
  <2>3. h \in 1 .. Len(u) + 1 /\ h \in Nat
    <3>1. h = AtSign(u) + 1
      BY <1>2 DEF HostBegin
    <3>2. AtSign(u) \in Colon(u) + 3 .. Len(u) + 1 /\ Colon(u) \in 1 .. Len(u) /\ AtSign(u) <= Len(u)
      BY <1>2, Layout
    <3> QED BY <1>1, <3>1, <3>2
  <2>4. base \in Uris(Token, Token)
    BY <1>2, SchemeRead
  <2>5. UserinfoOf(u) = info
    BY <1>2 DEF UserinfoOf
  <2> HIDE DEF p, at1, h, base, info
  <2>6. e \in h .. Len(u) + 1 /\ e \in 1 .. Len(u) + 1
    <3>1. e \in h .. Len(u) + 1
      BY <1>1, <2>3, SkipStops, CharsApart
    <3> HIDE DEF e
    <3> QED BY <1>1, <2>3, <3>1
  <2>7. Skip(u, h, regnameChar) = e
    OBVIOUS
  <2> HIDE DEF e
  <2>8. host \in Seq(Token)
    <3>1. \A i \in h .. e - 1 : i \in 1 .. Len(u)
      BY <1>1, <2>3, <2>6
    <3>2. \A i \in h .. e - 1 : u[i] \in Token
      BY <1>1, <3>1
    <3>3. e \in Nat
      BY <2>6
    <3> QED BY <2>3, <3>2, <3>3, BetweenType
  <2>9. PortRead(u, e) \in Ports
    BY <1>1, <2>6, PortType
  <2>10. /\ TokenAt(u, h) = "[" => Authority(u, p, base).result # "ok"
         /\ TokenAt(u, h) # "[" /\ TooLarge(u, e) => Authority(u, p, base).result # "ok"
         /\ TokenAt(u, h) # "[" /\ ~TooLarge(u, e) =>
               Authority(u, p, base) =
                   Rest(u, PortEnd(u, e),
                        With(base, InfoBefore(u, p, at1), Between(u, h, e), PortRead(u, e)))
    <3>1. Skip(u, p + 2, userinfoChar) = at1
      BY <2>2
    <3>2. HostFrom(TokenAt(u, at1) = "@", p, at1) = h
      BY <2>2
    <3> QED BY ONLY <2>7, <3>1, <3>2, AuthorityAt
  <2>11. Parse(u) = Rest(u, PortEnd(u, e), With(base, info, host, PortRead(u, e)))
    <3>1. Authority(u, p, base).result = "ok"
      BY <2>2
    <3> QED BY <2>2, <2>10, <3>1
  <2>12. info \in Seq(userinfoChar)
    BY <2>2
  <2> HIDE DEF host
  <2> QED BY <2>4, <2>5, <2>8, <2>9, <2>11, <2>12, CredentialsKept
<1>3. CASE HasAuthority(u) /\ ~HasUserinfo(u)
  <2>1. /\ With(base, <<>>, <<>>, 0) \in Uris(Token, Token)
        /\ Parse(u) = Rest(u, Colon(u) + 1, With(base, <<>>, <<>>, 0))
    BY <1>3, NoUserinfo, SlashesArePath
  <2>2. base \in Uris(Token, Token)
    BY <1>3, SchemeRead
  <2>3. UserinfoOf(u) = <<>>
    BY <1>3, WrittenParts DEF UserinfoOf, If
  <2>4. 0 \in Ports
    BY DEF Ports
  <2>5. <<>> \in Seq(userinfoChar) /\ <<>> \in Seq(Token)
    OBVIOUS
  <2> HIDE DEF base
  <2> QED BY <2>1, <2>2, <2>3, <2>4, <2>5, CredentialsKept
<1>4. CASE ~HasAuthority(u)
  <2> DEFINE s == Skip(u, 1, schemeChar)
             named == [Empty EXCEPT !.scheme = Between(u, 1, s)]
             uri == Parse(u).uri
  <2>1. ~AtAuthority(u, s)
    BY <1>4, AuthorityThere
  <2>2. Parse(u) = Rest(u, 1, Empty) \/ Parse(u) = Rest(u, s + 1, named)
    BY <2>1 DEF Parse, AtAuthority
  <2>3. Empty \in Uris(Token, Token)
    BY EmptyType
  <2>4. named \in Uris(Token, Token)
    <3>1. s \in 1 .. Len(u) + 1
      <4>1. 1 \in 1 .. Len(u) + 1
        BY <1>1
      <4> QED BY <1>1, <4>1, SkipStops, CharsApart
    <3> HIDE DEF s
    <3>2. \A i \in 1 .. s - 1 : u[i] \in Token
      <4>1. \A i \in 1 .. s - 1 : i \in 1 .. Len(u)
        BY <1>1, <3>1
      <4> QED BY <1>1, <4>1
    <3>3. 1 \in Nat /\ s \in Nat
      BY <3>1
    <3>4. Between(u, 1, s) \in Seq(Token)
      BY <3>2, <3>3, BetweenType
    <3> QED BY <2>3, <3>4 DEF Uris
  <2>5. /\ Empty.userinfo = <<>> /\ Empty.user = <<>> /\ Empty.password = <<>>
        /\ named.userinfo = <<>> /\ named.user = <<>> /\ named.password = <<>>
    BY DEF Empty
  <2> HIDE DEF named, s
  <2>6. uri.userinfo = <<>> /\ uri.user = <<>> /\ uri.password = <<>>
    <3>1. CASE Parse(u) = Rest(u, 1, Empty)
      BY <2>3, <2>5, <3>1, RestFields
    <3>2. CASE Parse(u) = Rest(u, s + 1, named)
      BY <2>4, <2>5, <3>2, RestFields
    <3> QED BY <2>2, <3>1, <3>2
  <2> HIDE DEF uri
  <2>7. BindDn(uri) = <<>>
    BY <2>6, NoCredentials DEF BindDn
  <2>8. UserinfoOf(u) = <<>>
    BY <1>4 DEF UserinfoOf
  <2> QED BY <2>6, <2>7, <2>8, NoCredentials DEF uri
<1> QED BY <1>2, <1>3, <1>4

\* A plain path is printed as it is written, and so is one with two slashes before it.
LEMMA PlainPath ==
  ASSUME NEW text \in Seq(pcharSlash), text # <<>>, text[1] = Slash, Plain(text)
  PROVE  Text(PathOf(text)) = text
<1>1. Len(text) \in Nat \ {0}
  BY EmptySeq
<1>2. Tidy(text, 1)
  <2>1. Last(text) = text[Len(text)]
    BY DEF Last
  <2>2. 1 \in 1 .. Len(text) /\ \A i \in 1 .. 1 : i = 1
    BY <1>1
  <2>3. DOMAIN text = 1 .. Len(text)
    OBVIOUS
  <2> QED BY <2>1, <2>2, <2>3 DEF Plain, Tidy
<1>3. Text(PathOf(text)) = SubSeq(text, 1, Len(text))
  BY <1>2, TidyPath
<1>4. SubSeq(text, 1, Len(text)) = text
  BY SubSeqFull
<1> QED BY <1>3, <1>4

LEMMA PlainBehindSlashes ==
  ASSUME NEW text \in Seq(pcharSlash), text # <<>>, text[1] = Slash, Plain(text),
         NEW t \in Seq(pcharSlash), Len(t) = Len(text) + 2, t[1] = Slash, t[2] = Slash,
         \A i \in 1 .. Len(text) : t[i + 2] = text[i]
  PROVE  Text(PathOf(t)) = text
<1> DEFINE n == Len(text)
<1>1. n \in Nat \ {0} /\ DOMAIN text = 1 .. n
  BY EmptySeq
<1>2. Last(text) = text[n]
  BY DEF Last
<1>3. /\ \A i \in 1 .. n : text[i] \notin {".", ".."}
      /\ \A i \in 1 .. n - 1 : text[i] # Slash \/ text[i + 1] # Slash
      /\ n > 1 => text[n] # Slash
  BY <1>1, <1>2 DEF Plain
<1>4. Len(t) = n + 2 /\ \A i \in 1 .. n : t[i + 2] = text[i]
  OBVIOUS
<1> HIDE DEF n
<1>5. \A i \in 3 .. n + 2 : i - 2 \in 1 .. n /\ t[i] = text[i - 2]
  <2> TAKE i \in 3 .. n + 2
  <2>1. i - 2 \in 1 .. n /\ (i - 2) + 2 = i
    BY <1>1
  <2>2. t[(i - 2) + 2] = text[i - 2]
    BY <1>4, <2>1
  <2> QED BY <2>1, <2>2
<1>6. t[3] = Slash
  <2>1. 3 \in 3 .. n + 2 /\ 3 - 2 = 1
    BY <1>1
  <2> QED BY <1>5, <2>1
<1>7. Tidy(t, 3)
  <2>1. 3 \in 1 .. Len(t) /\ \A i \in 1 .. 3 : t[i] = Slash
    <3>1. \A i \in 1 .. 3 : i = 1 \/ i = 2 \/ i = 3
      OBVIOUS
    <3> QED BY <1>1, <1>4, <1>6, <3>1
  <2>2. \A i \in 1 .. Len(t) : t[i] \notin {".", ".."}
    <3>1. \A i \in 1 .. Len(t) : i = 1 \/ i = 2 \/ i \in 3 .. n + 2
      BY <1>1, <1>4
    <3>2. Slash \notin {".", ".."}
      BY DEF Slash
    <3> QED BY <1>3, <1>5, <3>1, <3>2
  <2>3. \A i \in 3 .. Len(t) - 1 : t[i] # Slash \/ t[i + 1] # Slash
    <3> TAKE i \in 3 .. Len(t) - 1
    <3>1. /\ i \in 3 .. n + 2 /\ i + 1 \in 3 .. n + 2 /\ i - 2 \in 1 .. n - 1
          /\ (i + 1) - 2 = (i - 2) + 1
      BY <1>1, <1>4
    <3>2. text[i - 2] # Slash \/ text[(i - 2) + 1] # Slash
      BY <1>3, <3>1
    <3> QED BY <1>5, <3>1, <3>2
  <2>4. 3 < Len(t) => t[Len(t)] # Slash
    <3> HAVE 3 < Len(t)
    <3>1. n + 2 \in 3 .. n + 2 /\ (n + 2) - 2 = n /\ n > 1
      BY <1>1, <1>4
    <3> QED BY <1>3, <1>4, <1>5, <3>1
  <2> QED BY <2>1, <2>2, <2>3, <2>4 DEF Tidy
<1>8. Text(PathOf(t)) = SubSeq(t, 3, Len(t))
  BY <1>7, TidyPath
<1>9. SubSeq(t, 3, n + 2) = text
  <2> DEFINE m == n + 2
             r == SubSeq(t, 3, m)
  <2>1. m \in Int /\ 3 <= m /\ m - 3 + 1 = n /\ \A i \in 1 .. n : 3 + i - 1 = i + 2
    BY <1>1
  <2>2. \A i \in 3 .. m : t[i] \in pcharSlash
    BY <1>4
  <2> HIDE DEF m
  <2>3. m \in Int
    BY <2>1
  <2>4. 3 \in Int
    OBVIOUS
  <2>5. /\ SubSeq(t, 3, m) \in Seq(pcharSlash)
        /\ Len(SubSeq(t, 3, m)) = IF 3 <= m THEN m - 3 + 1 ELSE 0
        /\ \A i \in 1 .. m - 3 + 1 : SubSeq(t, 3, m)[i] = t[3 + i - 1]
    BY <2>2, <2>3, <2>4, SubSeqProperties
  <2> HIDE DEF r
  <2>6. r \in Seq(pcharSlash) /\ Len(r) = n /\ \A i \in 1 .. n : r[i] = t[i + 2]
    BY <2>1, <2>5 DEF r
  <2>7. \A i \in 1 .. Len(r) : r[i] = text[i]
    BY <1>4, <2>6
  <2>8. r \in Seq(pcharSlash)
    BY <2>6
  <2>9. Len(r) = Len(text)
    BY <2>6 DEF n
  <2> QED BY <2>7, <2>8, <2>9, SeqEqual DEF r, m
<1> QED BY <1>4, <1>8, <1>9

\* What the LDAP loader sends: the credentials, whatever the text, and the server and
\* the base if there are some.
LEMMA CredentialsAsked ==
  ASSUME NEW u \in Seq(Token), DirectoryOf(u).valid
  PROVE  <<DirectoryOf(u).binddn, DirectoryOf(u).password>> = Credentials(UserinfoOf(u))
<1> DEFINE uri == Parse(u).uri
           url == LdapUrl(Rebuilt(u))
<1>1. Parse(u).result = "ok" /\ u # <<>>
  BY DEF DirectoryOf
<1> HIDE DEF url, uri
<1>2. DirectoryOf(u) = IF ~url.valid THEN url
                       ELSE [valid |-> TRUE, server |-> url.server, dn |-> url.dn,
                             selects |-> url.selects, filters |-> url.filters,
                             binddn |-> BindDn(uri), password |-> uri.password]
  BY <1>1 DEF DirectoryOf, url, uri
<1>3. DirectoryOf(u).binddn = BindDn(uri) /\ DirectoryOf(u).password = uri.password
  BY <1>2
<1>4. <<BindDn(uri), uri.password>> = Credentials(UserinfoOf(u))
  BY <1>1, CredentialsSent DEF uri
<1> QED BY <1>3, <1>4

LEMMA DirectoryAsked ==
  ASSUME NEW u \in Seq(Token), NamesHost(u), UserinfoOf(u) # <<>>, DirectoryOf(u).valid
  PROVE  /\ DirectoryOf(u).server = Written(u).host
         /\ Plain(Written(u).path) => DirectoryOf(u).dn = Written(u).path
<1> DEFINE uri == Parse(u).uri
           text == Written(u).path
           v == Rebuilt(u)
           url == LdapUrl(v)
<1>1. Parse(u).result = "ok" /\ url.valid
      /\ DirectoryOf(u) = [valid |-> TRUE, server |-> url.server, dn |-> url.dn,
                           selects |-> url.selects, filters |-> url.filters,
                           binddn |-> BindDn(uri), password |-> uri.password]
  <2>1. Parse(u).result = "ok" /\ u # <<>>
    BY DEF DirectoryOf
  <2> HIDE DEF url
  <2>2. DirectoryOf(u) = IF ~url.valid THEN url
                         ELSE [valid |-> TRUE, server |-> url.server, dn |-> url.dn,
                               selects |-> url.selects, filters |-> url.filters,
                               binddn |-> BindDn(uri), password |-> uri.password]
    BY <2>1 DEF DirectoryOf, url
  <2> QED BY <2>1, <2>2
<1>2. HasAuthority(v) /\ url.server = Written(v).host /\ url.dn = Written(v).path
  <2> HIDE DEF v
  <2> QED BY <1>1 DEF LdapUrl
<1>3. HasUserinfo(u) /\ HasAuthority(u)
  BY WrittenParts DEF If, NamesHost, UserinfoOf
<1>4. /\ uri.scheme \in Seq(schemeChar) /\ uri.scheme # <<>>
      /\ uri.host = Written(u).host /\ uri.host \in Seq(regnameChar)
      /\ uri.path = IF text = <<>> THEN NoPath ELSE PathOf(text)
      /\ text \in Seq(pcharSlash)
      /\ text # <<>> => text[1] = Slash
  <2>1. \A i \in Colon(u) + 3 .. AtSign(u) - 1 : u[i] \in userinfoChar
    BY <1>1, <1>3, UserinfoValid
  <2> QED BY <1>1, <1>3, <2>1, UriRead
<1>5. uri \in Uris(Token, Token)
  <2>1. Len(u) \in Nat /\ \A i \in 1 .. Len(u) : u[i] \in Token
    OBVIOUS
  <2>2. "@" \in Token
    BY CharsKnown
  <2> QED BY <2>1, <2>2, ParseType
<1> HIDE DEF text, uri, url
<1>6. /\ Written(v).host = uri.host
      /\ Written(v).path = IF text = <<>> THEN <<>> ELSE Text(uri.path)
  <2>1. v = Printed(WithUserinfo(uri, <<>>))
    BY DEF Rebuilt, uri
  <2> HIDE DEF v
  <2>2. HasAuthority(v)
    BY <1>2
  <2>3. uri.scheme \in Seq(schemeChar)
    BY <1>4
  <2>4. uri.scheme # <<>>
    BY <1>4
  <2>5. uri.host \in Seq(regnameChar)
    BY <1>4
  <2>6. uri.path = IF text = <<>> THEN NoPath ELSE PathOf(text)
    BY <1>4
  <2>7. text \in Seq(pcharSlash)
    BY <1>4
  <2>8. text # <<>> => text[1] = Slash
    BY <1>4
  <2> QED BY <1>5, <2>1, <2>2, <2>3, <2>4, <2>5, <2>6, <2>7, <2>8, PrintedBack
<1>7. ASSUME Plain(text) PROVE Written(v).path = text
  <2>1. CASE text = <<>>
    BY <1>6, <2>1
  <2>2. CASE text # <<>>
    <3>1. text \in Seq(pcharSlash)
      BY <1>4
    <3>2. Text(PathOf(text)) = text
      BY <1>4, <1>7, <2>2, <3>1, PlainPath
    <3> QED BY <1>4, <1>6, <2>2, <3>2
  <2> QED BY <2>1, <2>2
<1> QED BY <1>1, <1>2, <1>4, <1>6, <1>7 DEF text, uri

\* The file that is read, whether or not its URI has user information.
LEMMA FileAsked ==
  ASSUME NEW u \in Seq(Token), NamesFile(u), Plain(Written(u).path)
  PROVE  FileOf(u).name = Written(u).path
<1> DEFINE text == Written(u).path
           c == Colon(u)
           e == AuthorityEnd(u)
           q == PathEnd(u)
<1>1. /\ NamesHost(u) /\ HasAuthority(u) /\ Written(u).host = <<>> /\ text # <<>>
      /\ ~Written(u).hasPort
      /\ ToSet(Written(u).userinfo) \subseteq userinfoChar /\ ToSet(text) \subseteq pcharSlash
  BY DEF NamesFile, NamesHost
<1>2. FileOf(u).name = Text(Parse(u).uri.path)
  BY DEF FileOf
<1>3. /\ Len(u) \in Nat /\ c \in 1 .. Len(u) /\ c + 2 <= Len(u) /\ AtAuthority(u, c)
      /\ e \in c + 3 .. Len(u) + 1 /\ TokenAt(u, e) \in {Slash, "?", "#", Nul}
      /\ AtSign(u) \in c + 3 .. Len(u) + 1 /\ q \in e .. Len(u) + 1
      /\ TokenAt(u, q) \in {"?", "#", Nul}
      /\ \A i \in e .. q - 1 : u[i] \notin {"?", "#"}
  BY <1>1, Layout
<1>4. text \in Seq(pcharSlash) /\ text[1] = Slash
  <2>1. Empty \in Uris(Token, Token)
    BY EmptyType
  <2> QED BY <1>1, <2>1, PathRead
<1>5. Text(PathOf(text)) = text
  BY <1>1, <1>4, PlainPath
<1> HIDE DEF c
<1>6. CASE HasUserinfo(u)
  <2>1. Written(u).userinfo = Between(u, c + 3, AtSign(u))
    BY <1>6, WrittenParts DEF If, c
  <2>2. \A i \in c + 3 .. AtSign(u) - 1 : u[i] \in userinfoChar
    <3> DEFINE f == c + 3
               g == AtSign(u)
    <3>1. /\ f \in Nat /\ g \in Nat /\ f <= g
          /\ \A i \in f .. g - 1 : i \in 1 .. Len(u)
      BY <1>3
    <3> HIDE DEF f, g
    <3>2. f \in Nat
      BY <3>1
    <3>3. g \in Nat
      BY <3>1
    <3>4. f <= g
      BY <3>1
    <3>5. \A i \in f .. g - 1 : u[i] \in Token
      BY <3>1
    <3>6. /\ Between(u, f, g) \in Seq(Token) /\ Len(Between(u, f, g)) = g - f
          /\ \A i \in 1 .. g - f : Between(u, f, g)[i] = u[f + i - 1]
          /\ \A i \in f .. g - 1 : u[i] \in ToSet(Between(u, f, g))
      BY <3>2, <3>3, <3>4, <3>5, BetweenAt
    <3>7. ToSet(Between(u, f, g)) \subseteq userinfoChar
      BY <1>1, <2>1 DEF f, g
    <3> QED BY <3>6, <3>7 DEF f, g
  <2>3. Parse(u).uri.path = IF text = <<>> THEN NoPath ELSE PathOf(text)
    BY <1>1, <1>6, <2>2, UriRead DEF c
  <2> QED BY <1>1, <1>2, <1>5, <2>3
<1>7. CASE ~HasUserinfo(u)
  <2>1. e = c + 3
    <3>1. HostBegin(u) = c + 3
      BY <1>7 DEF HostBegin, c
    <3>2. Written(u).host = Between(u, HostBegin(u), e)
      BY <1>1, HostFound
    <3>3. \A i \in c + 3 .. e - 1 : u[i] \in Token
      BY <1>3
    <3>4. c + 3 \in Nat /\ e \in Nat /\ c + 3 <= e
      BY <1>3
    <3>5. Len(Between(u, c + 3, e)) = e - (c + 3)
      <4> DEFINE f == c + 3
      <4> HIDE DEF f, e
      <4>1. f \in Nat
        BY <3>4 DEF f
      <4>2. e \in Nat
        BY <3>4
      <4>3. f <= e
        BY <3>4 DEF f
      <4>4. \A i \in f .. e - 1 : u[i] \in Token
        BY <3>3 DEF f
      <4>5. /\ Between(u, f, e) \in Seq(Token) /\ Len(Between(u, f, e)) = e - f
            /\ \A i \in 1 .. e - f : Between(u, f, e)[i] = u[f + i - 1]
            /\ \A i \in f .. e - 1 : u[i] \in ToSet(Between(u, f, e))
        BY <4>1, <4>2, <4>3, <4>4, BetweenAt
      <4> QED BY <4>5 DEF f
    <3>6. Len(Between(u, c + 3, e)) = 0
      BY <1>1, <3>1, <3>2
    <3> QED BY <3>4, <3>5, <3>6
  <2>2. text = Between(u, e, q) /\ Skip(u, e, pcharSlash) = q
        /\ \A i \in e .. q - 1 : u[i] \in pcharSlash
    BY <1>1, WrittenParts, PathFound
  <2> HIDE DEF e, q, text
  <2>3. /\ text \in Seq(pcharSlash) /\ Len(text) = q - e
        /\ \A i \in 1 .. q - e : text[i] = u[e + i - 1]
    <3>1. e \in Nat
      BY <1>3
    <3>2. q \in Nat
      BY <1>3
    <3>3. e <= q
      BY <1>3
    <3>4. \A i \in e .. q - 1 : u[i] \in pcharSlash
      BY <2>2
    <3>5. /\ Between(u, e, q) \in Seq(pcharSlash) /\ Len(Between(u, e, q)) = q - e
          /\ \A i \in 1 .. q - e : Between(u, e, q)[i] = u[e + i - 1]
          /\ \A i \in e .. q - 1 : u[i] \in ToSet(Between(u, e, q))
      BY <3>1, <3>2, <3>3, <3>4, BetweenAt
    <3> QED BY <2>2, <3>5
  <2>4. Len(text) \in Nat \ {0}
    BY <1>1, <2>3, EmptySeq
  <2>5. TokenAt(u, e) = Slash /\ TokenAt(u, c + 1) = Slash /\ TokenAt(u, c + 2) = Slash
    <3>1. 1 \in 1 .. q - e /\ e + 1 - 1 = e /\ e <= Len(u)
      BY <1>3, <2>3, <2>4
    <3> QED BY <1>3, <1>4, <2>3, <3>1 DEF TokenAt, AtAuthority
  <2>6. Skip(u, c + 3, userinfoChar) = e
    <3>1. e \in 1 .. Len(u) + 1 /\ e \in e .. Len(u) + 1 /\ \A i \in e .. e - 1 : u[i] \in userinfoChar
      BY <1>3
    <3>2. TokenAt(u, e) \notin userinfoChar
      BY <2>5, CharsApart
    <3> QED BY <1>3, <2>1, <3>1, <3>2, SkipIs, CharsApart
  <2>7. PICK uri \in Uris(Token, Token) : Parse(u) = Rest(u, c + 1, uri)
    <3>1. Slash # "@"
      BY DEF Slash
    <3>2. TokenAt(u, Skip(u, Colon(u) + 3, userinfoChar)) # "@"
      BY <2>5, <2>6, <3>1 DEF c
    <3> DEFINE known == With([Empty EXCEPT !.scheme = Between(u, 1, Colon(u))], <<>>, <<>>, 0)
    <3>3. known \in Uris(Token, Token) /\ Parse(u) = Rest(u, c + 1, known)
      BY <1>1, <3>2, SlashesArePath DEF c
    <3> HIDE DEF known
    <3> QED BY <3>3
  <2> DEFINE f == c + 1
             t == Between(u, f, q)
  <2>8. /\ f \in Nat /\ q \in Nat /\ f <= q /\ f # q /\ q - f = Len(text) + 2
        /\ f \in 1 .. Len(u) + 1 /\ q \in f .. Len(u) + 1
        /\ \A i \in f .. q - 1 : i = c + 1 \/ i = c + 2 \/ i \in e .. q - 1
        /\ c + 1 <= Len(u)
        /\ 1 \in 1 .. q - f /\ f + 1 - 1 = c + 1 /\ 2 \in 1 .. q - f /\ f + 2 - 1 = c + 2
    BY <1>3, <2>1, <2>3, <2>4
  <2>9. \A i \in 1 .. Len(text) : /\ i + 2 \in 1 .. q - f /\ i \in 1 .. q - e
                                  /\ f + (i + 2) - 1 = e + i - 1
    BY <1>3, <2>1, <2>3, <2>4
  <2>10. u[c + 1] = Slash /\ u[c + 2] = Slash
    BY <1>3, <2>5, <2>8 DEF TokenAt
  <2>11. \A i \in f .. q - 1 : u[i] \in pcharSlash
    <3>1. Slash \in pcharSlash
      BY CharsKnown
    <3> QED BY <2>2, <2>8, <2>10, <3>1
  <2> HIDE DEF f
  <2>12. Skip(u, f, pcharSlash) = q
    <3>1. TokenAt(u, q) \notin pcharSlash
      BY <1>3, CharsApart
    <3> QED BY <1>3, <2>8, <2>11, <3>1, SkipIs, CharsApart
  <2>13. /\ t \in Seq(pcharSlash) /\ Len(t) = q - f
         /\ \A i \in 1 .. q - f : t[i] = u[f + i - 1]
    <3>1. f \in Nat
      BY <2>8
    <3>2. q \in Nat
      BY <2>8
    <3>3. f <= q
      BY <2>8
    <3>4. /\ Between(u, f, q) \in Seq(pcharSlash) /\ Len(Between(u, f, q)) = q - f
          /\ \A i \in 1 .. q - f : Between(u, f, q)[i] = u[f + i - 1]
          /\ \A i \in f .. q - 1 : u[i] \in ToSet(Between(u, f, q))
      BY <2>11, <3>1, <3>2, <3>3, BetweenAt
    <3> QED BY <3>4
  <2>14. Parse(u).uri.path = PathOf(t)
    <3>1. Rest(u, f, uri).uri.path = IF Skip(u, f, pcharSlash) = f THEN NoPath
                                     ELSE PathOf(Between(u, f, Skip(u, f, pcharSlash)))
      BY RestFields
    <3> QED BY <2>7, <2>8, <2>12, <3>1 DEF f
  <2> HIDE DEF t
  <2>15. Text(PathOf(t)) = text
    <3>1. t \in Seq(pcharSlash)
      BY <2>13
    <3>2. Len(t) = Len(text) + 2
      BY <2>8, <2>13
    <3>3. t[1] = Slash /\ t[2] = Slash
      BY <2>8, <2>10, <2>13
    <3>4. \A i \in 1 .. Len(text) : t[i + 2] = text[i]
      BY <2>3, <2>9, <2>13
    <3>5. text \in Seq(pcharSlash)
      BY <1>4
    <3>6. text # <<>>
      BY <1>1
    <3>7. text[1] = Slash
      BY <1>4
    <3>8. Plain(text)
      BY DEF text
    <3> QED BY <3>1, <3>2, <3>3, <3>4, <3>5, <3>6, <3>7, <3>8, PlainBehindSlashes
  <2> QED BY <1>2, <2>14, <2>15 DEF text
<1> QED BY <1>6, <1>7

-----------------------------------------------------------------------------
(* What is asked is what the URI of the source at hand says. *)

Asked ==
    /\ pc = "bind" => handle.loader = "ldap"
    /\ pc \in {"bind", "read"} /\ handle.loader = "ldap" =>
          handle.target = DirectoryOf(Opened.uri) /\ DirectoryOf(Opened.uri).valid
    /\ pc = "read" /\ handle.loader = "sendmail" => handle.name = FileOf(Opened.uri).name

LEMMA AskedNothing ==
  ASSUME pc' \notin {"bind", "read"}
  PROVE  Asked'
BY DEF Asked

LEMMA AskedStays ==
  ASSUME Asked, pc \in {"bind", "read"}, pc' \in {pc, "read"}, UNCHANGED <<at, clone>>,
         handle'.loader = handle.loader,
         handle.loader = "ldap" => handle'.target = handle.target,
         handle.loader = "sendmail" => handle'.name = handle.name
  PROVE  Asked'
<1>1. Opened' = Opened
  BY DEF Opened
<1>2. pc = "bind" => handle.loader = "ldap"
  BY DEF Asked
<1>3. CASE handle.loader = "ldap"
  <2>1. handle.target = DirectoryOf(Opened.uri) /\ DirectoryOf(Opened.uri).valid
    BY <1>3 DEF Asked
  <2>2. Opened.uri' = Opened.uri
    BY <1>1
  <2> QED BY <1>1, <1>3, <2>1, <2>2 DEF Asked
<1>4. CASE handle.loader # "ldap"
  <2>1. pc = "read" /\ pc' = "read"
    BY <1>2, <1>4
  <2> QED BY <1>1, <1>4, <2>1 DEF Asked
<1> QED BY <1>3, <1>4

LEMMA UnmovedAsked ==
  ASSUME Asked, UNCHANGED <<pc, at, clone, handle>>
  PROVE  Asked'
<1>1. Opened' = Opened
  BY DEF Opened
<1> QED BY <1>1 DEF Asked

LEMMA EndsAsked == ASSUME NEW failed, SourceEnds(failed) PROVE Asked'
BY AskedNothing DEF SourceEnds, After

\* What the code makes of the URI of the source that is opened.
LEMMA OpenedMade ==
  ASSUME IInv, TInv, pc = "open"
  PROVE  /\ Opened.uri \in Seq(Token)
         /\ made[Opened.uri].ldap = DirectoryOf(Opened.uri)
         /\ made[Opened.uri].sendmail = FileOf(Opened.uri)
<1>1. file \in ConfFiles /\ Opened \in Given(file)
  BY AtHand DEF Busy
<1>2. Opened.uri \in UrisOf(file)
  BY <1>1 DEF Given
<1>3. made[Opened.uri] = MadeOf(Opened.uri)
  BY <1>2 DEF TInv, Origins
<1> QED BY <1>1, <1>2, <1>3, UrisTyped DEF MadeOf

LEMMA OpensAsked == ASSUME IInv, TInv, Asked, Opens PROVE Asked'
<1>1. CASE OpenFile
  <2>1. /\ pc = "open" /\ pc' = "read" /\ UNCHANGED <<at, clone>>
        /\ handle' = [loader |-> "sendmail", name |-> made[Opened.uri].sendmail.name,
                      left |-> Lines(made[Opened.uri].sendmail.name)]
    BY <1>1 DEF OpenFile
  <2>2. handle'.loader = "sendmail" /\ handle'.name = FileOf(Opened.uri).name
    BY <2>1, OpenedMade
  <2>3. Opened' = Opened
    BY <2>1 DEF Opened
  <2> QED BY <2>1, <2>2, <2>3 DEF Asked
<1>2. CASE OpenDirectory
  <2>1. /\ pc = "open" /\ pc' = "bind" /\ UNCHANGED <<at, clone>> /\ made[Opened.uri].ldap.valid
        /\ handle' = [loader |-> "ldap", target |-> made[Opened.uri].ldap,
                      left |-> store.entries, attributes |-> <<>>, values |-> <<>>]
    BY <1>2 DEF OpenDirectory
  <2>2. /\ handle'.loader = "ldap" /\ handle'.target = DirectoryOf(Opened.uri)
        /\ DirectoryOf(Opened.uri).valid
    BY <2>1, OpenedMade
  <2>3. Opened' = Opened
    BY <2>1 DEF Opened
  <2> QED BY <2>1, <2>2, <2>3 DEF Asked
<1>3. CASE NoAttributes \/ NoFilter
  BY <1>3, AskedNothing DEF NoAttributes, NoFilter
<1>4. CASE CannotOpen
  BY <1>4, EndsAsked DEF CannotOpen
<1>5. CASE Bind
  BY <1>5, AskedStays DEF Bind
<1> QED BY <1>1, <1>2, <1>3, <1>4, <1>5 DEF Opens

LEMMA ReadsAsked == ASSUME IInv, TInv, Asked, Reads PROVE Asked'
<1>1. CASE ReadLine
  <2>1. handle \in SendmailHandles
    BY <1>1, LoaderTells DEF ReadLine
  <2>2. handle'.loader = handle.loader /\ handle'.name = handle.name /\ handle.loader = "sendmail"
    BY <1>1, <2>1 DEF ReadLine, SendmailHandles
  <2> QED BY <1>1, <2>2, AskedStays DEF ReadLine
<1>2. CASE TakeValue \/ NextAttribute \/ NextEntry
  <2>1. /\ pc = "read" /\ pc' = pc /\ UNCHANGED <<at, clone>>
        /\ handle.loader = "ldap"
    BY <1>2 DEF TakeValue, NextAttribute, NextEntry, Waiting, Reading
  <2>2. handle \in LdapHandles
    BY <2>1, LoaderTells
  <2>3. handle'.loader = handle.loader /\ handle'.target = handle.target
    BY <1>2, <2>2 DEF TakeValue, NextAttribute, NextEntry, LdapHandles
  <2> QED BY <2>1, <2>3, AskedStays
<1>3. CASE EndOfFile \/ EmptyValue \/ SearchResult
  BY <1>3, EndsAsked DEF EndOfFile, EmptyValue, SearchResult
<1> QED BY <1>1, <1>2, <1>3 DEF Reads

LEMMA AskedInvariance == Spec => []Asked
<1>1. Init => Asked
  BY AskedNothing DEF Init, Asked
<1>2. IInv /\ TInv /\ Asked /\ [Next]_vars => Asked'
  <2> SUFFICES ASSUME IInv, TInv, Asked, [Next]_vars PROVE Asked'
    OBVIOUS
  <2>1. CASE GetFails \/ Get \/ NotFound \/ LoadersLoaded \/ Publish
    BY <2>1, AskedNothing DEF GetFails, Get, NotFound, LoadersLoaded, Publish
  <2>2. CASE TryLibrary
    BY <2>2, AskedNothing DEF TryLibrary
  <2>3. CASE \E n \in todo : FirstOfDomain(n) \/ Clone(n) \/ CloneFails(n)
    BY <2>3, AskedNothing DEF FirstOfDomain, Clone, CloneFails
  <2>4. CASE Opens
    BY <2>4, OpensAsked
  <2>5. CASE Reads
    BY <2>5, ReadsAsked
  <2>6. CASE SourceFails
    BY <2>6, EndsAsked DEF SourceFails
  <2>7. CASE FallsSilent \/ UNCHANGED vars
    BY <2>7, UnmovedAsked DEF FallsSilent, vars
  <2> QED BY <2>1, <2>2, <2>3, <2>4, <2>5, <2>6, <2>7 DEF Next, Steps
<1> QED BY <1>1, <1>2, Invariance, TypeInvariance, PTL DEF Spec

LEMMA AskedFollows == ASSUME IInv, TInv, Asked PROVE SourceAsAsked
<1> DEFINE u == Opened.uri
<1>1. pc \in {"bind", "read"} => u \in Seq(Token)
  <2>1. pc \in {"bind", "read"} => Opened \in Given(file) /\ file \in ConfFiles
    BY AtHand DEF Busy
  <2> QED BY <2>1, UrisTyped DEF Given
<1>2. ASSUME pc \in {"bind", "read"}, handle.loader = "ldap"
      PROVE  /\ <<handle.target.binddn, handle.target.password>> = Credentials(UserinfoOf(u))
             /\ UserinfoOf(u) # <<>> /\ NamesHost(u) =>
                   /\ handle.target.server = Written(u).host
                   /\ Plain(Written(u).path) => handle.target.dn = Written(u).path
  <2>1. handle.target = DirectoryOf(u) /\ DirectoryOf(u).valid
    BY <1>2 DEF Asked
  <2>2. u \in Seq(Token)
    BY <1>1, <1>2
  <2> HIDE DEF u
  <2> QED BY <2>1, <2>2, CredentialsAsked, DirectoryAsked
<1>3. ASSUME pc = "read", handle.loader = "sendmail", NamesFile(u), Plain(Written(u).path)
      PROVE  handle.name = Written(u).path
  <2>1. handle.name = FileOf(u).name
    BY <1>3 DEF Asked
  <2>2. u \in Seq(Token)
    BY <1>1, <1>3
  <2> HIDE DEF u
  <2> QED BY <1>3, <2>1, <2>2, FileAsked
<1> QED BY <1>2, <1>3 DEF SourceAsAsked

\* Whatever the texts of the URIs, and of whatever length. Every LDAP source, with or
\* without an authority, user information or a port: the loader sends the dn and the
\* password of its user information, and none if it has none. An LDAP source with user
\* information, and whose host is a name, with or without a port in digits: it is that
\* host that is asked, and the base is the path. A sendmail source with an empty host,
\* no port and a path: the file of that path is read. (openSource() of the loaders.)
\* Not said is which host is asked without user information, where the code does not
\* find it, nor which port.
THEOREM AskedAsWritten == Spec => []SourceAsAsked
<1>1. IInv /\ TInv /\ Asked => SourceAsAsked
  BY AskedFollows
<1> QED BY <1>1, Invariance, TypeInvariance, AskedInvariance, PTL
=============================================================================
