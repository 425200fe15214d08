------------------------------ MODULE Loading -------------------------------
(***************************************************************************)
(* From the configuration file to the names of the domains:                *)
(* Configuration::get(), the search for the loaders, and for each domain   *)
(* the loads of its sources by the two loaders of the distribution.        *)
(*                                                                         *)
(* Refresh says when a domain is loaded, and has LoadOk and LoadFails for  *)
(* what is spelled out here.  The file, the directory server and the file  *)
(* system keep their contents during a load; a library may come and go.    *)
(***************************************************************************)
EXTENDS Uri, FiniteSets

CONSTANTS
    ConfFiles,      \* the configuration files, as libconfuse delivers them
    Stores,         \* what the files and the directory may contain
    LoaderPath,     \* loader-path
    Localhost       \* the name of the default domain

Affixes == <<"", ".so", "lib", "lib.so">>
None == "none"

Loader == [program : {"sendmail", "ldap"}, form : {"name", "path", "absolute"}]

\* A name that a source delivers: with the prefix `smtp:', with characters that
\* no address has, or the empty string; and the domain it is given with.  A line
\* of a file that begins with no name is `odd'.
Value == [name : STRING, kind : {"plain", "smtp", "odd", "empty"},
          at : {"none", "local", "foreign"}]

SourceSection == [uri : Seq(Token), loader : Loader, enabled : BOOLEAN]
DomainSection == [title : STRING, enabled : BOOLEAN, sources : Seq(SourceSection)]

ASSUME LoadingAssumption ==
    /\ Localhost \in STRING
    /\ {"etc", "passwd", "aliases", "file", "ldap"} \subseteq Word
    /\ LoaderPath \in Seq(STRING)
    /\ ConfFiles \subseteq [state : {"ok", "missing", "error"}, domains : Seq(DomainSection)]
    /\ Stores \subseteq [readable : BOOLEAN, lines : Seq(Value), entries : Seq(Seq(Seq(Value)))]

Sendmail == [program |-> "sendmail", form |-> "name"]

DefaultSource(name) ==
    [uri |-> <<Slash, "etc", Slash, name>>, loader |-> Sendmail, enabled |-> TRUE]

-----------------------------------------------------------------------------
(* What is done with a URI *)

\* Mutant of LogText: the URI is logged as it is.
LogTextAsIs(u) == Printed(Parse(u).uri)

\* Source::log() does not log user info.
LogText(u) ==
    LET r == Parse(u) IN
    IF r.result = "throws" THEN <<>>
    ELSE Printed(IF r.uri.userinfo = <<>> THEN r.uri ELSE WithUserinfo(r.uri, <<Stars>>))

\* sendmail.cpp does not look at the result of parse(), and `.' is a path.
FileOf(u) ==
    LET r == Parse(u)
    IN [valid |-> r.result # "throws" /\ r.uri.scheme \in {<<>>, <<"file">>},
        name |-> Text(r.uri.path)]

\* What ldap_url_parse() makes of the URI without user information; the query is
\* attributes?scope?filter.
LdapUrl(u) ==
    LET w == Written(u)
        marks == SetToSortSeq({i \in DOMAIN u : u[i] = "?"}, <)
        Given(n) == n <= Len(marks) /\ TokenAt(u, marks[n] + 1) \notin {"?", Nul}
    IN IF ~HasAuthority(u) \/ u[1] # "ldap" THEN [valid |-> FALSE]
       ELSE [valid |-> TRUE, server |-> w.host, dn |-> w.path,
             selects |-> Given(1), filters |-> Given(3)]

Rebuilt(u) == Printed(WithUserinfo(Parse(u).uri, <<>>))

\* Mutant of BindDn: the password is not taken off.
BindDnWhole(uri) == unescape(uri.userinfo)

\* The credentials: user information without a colon is a dn.
BindDn(uri) ==
    IF uri.user = <<>> /\ uri.password = <<>> THEN unescape(uri.userinfo) ELSE uri.user

\* Where and how openSource() of ldap.cpp binds, and for what it searches.
DirectoryOf(u) ==
    IF u = <<>> \/ Parse(u).result # "ok" THEN [valid |-> FALSE]
    ELSE LET url == LdapUrl(Rebuilt(u))
             uri == Parse(u).uri
         IN IF ~url.valid THEN url
            ELSE [valid |-> TRUE, server |-> url.server, dn |-> url.dn,
                  selects |-> url.selects, filters |-> url.filters,
                  binddn |-> BindDn(uri), password |-> uri.password]

MadeOf(u) == [log |-> LogText(u), sendmail |-> FileOf(u), ldap |-> DirectoryOf(u)]

-----------------------------------------------------------------------------

VARIABLES
    file,       \* the configuration file
    store,      \* the contents of the sources
    made,       \* made[u]: what the code makes of the URI u, so that TLC does it once
    pc,         \* where get() or the load of a domain is
    sources,    \* sources[n]: the sources of domain n, with their libraries
    todo,       \* the domains that the current loop has still before it
    at,         \* <<n, i>>: source i of domain n is being processed
    tried,      \* how many libraries were tried for it
    clone,      \* the sources of the clone that is being loaded
    handle,     \* what openSource() has returned
    read,       \* recipients of the clone
    data,       \* data[n]: what became of domain n
    logged,     \* the URI that was logged last
    silent      \* the server does not answer any more

confVars == <<file, store, made, sources, tried>>
vars == <<file, store, made, pc, sources, todo, at, tried, clone, handle, read, data, logged, silent>>

NoHandle == [loader |-> None]
NoDomain == <<>>
NoLibrary == <<>>

UrisOf(f) ==
    {s.uri : s \in (UNION {ToSet(d.sources) : d \in ToSet(f.domains)})
                   \cup {DefaultSource("passwd"), DefaultSource("aliases")}}

Init ==
    /\ file \in ConfFiles
    /\ store \in Stores
    /\ made = [u \in UrisOf(file) |-> MadeOf(u)]
    /\ pc = "get"
    /\ sources = <<>>
    /\ todo = {}
    /\ at = NoDomain
    /\ tried = 0
    /\ clone = <<>>
    /\ handle = NoHandle
    /\ read = {}
    /\ data = <<>>
    /\ logged = <<>>
    /\ silent = FALSE

-----------------------------------------------------------------------------
(* Configuration::get() *)

DefaultDomain == [title |-> Localhost, enabled |-> TRUE, sources |-> <<>>]

\* A file that cannot be read is empty.
Sections ==
    IF file.state = "missing" \/ file.domains = <<>> THEN <<DefaultDomain>> ELSE file.domains

Symbols == {"openSource", "getRecipient", "closeSource"}

\* Source::Source(): the pointers are not initialized, NoLibrary stands for any value.
NewSource(s) == [uri |-> s.uri, loader |-> s.loader, dll |-> NoLibrary,
                 entry |-> [f \in Symbols |-> NoLibrary]]

SourcesOf(section) ==
    LET given == IF section.sources = <<>>
                 THEN <<DefaultSource("passwd"), DefaultSource("aliases")>>
                 ELSE section.sources
        enabled == {i \in DOMAIN given : given[i].enabled}
        Nth(k) == CHOOSE i \in enabled : Cardinality({j \in enabled : j <= i}) = k
    IN [k \in 1 .. Cardinality(enabled) |-> NewSource(given[Nth(k)])]

\* The sections that give a domain: those without a source are ignored.
Configured ==
    {i \in DOMAIN Sections : Sections[i].enabled /\ SourcesOf(Sections[i]) # <<>>}

\* libconfuse lets no two sections have one title.
SectionOf(n) == Sections[CHOOSE i \in Configured : Sections[i].title = n]

GetFails ==
    /\ pc = "get"
    /\ file.state = "error" \/ Configured = {}
    /\ pc' = "failed"
    /\ UNCHANGED <<confVars, todo, at, clone, handle, read, data, logged, silent>>

Get ==
    /\ pc = "get"
    /\ file.state # "error" /\ Configured # {}
    /\ sources' = [n \in {Sections[i].title : i \in Configured} |-> SourcesOf(SectionOf(n))]
    /\ data' = [n \in DOMAIN sources' |-> [result |-> "new", names |-> {}]]
    /\ todo' = DOMAIN sources'
    /\ pc' = "loaders"
    /\ UNCHANGED <<file, store, made, at, tried, clone, handle, read, logged, silent>>

-----------------------------------------------------------------------------
(* Domain::load_loaders() and Source::load_loader() *)

\* Where a library is looked for, in this order: None is the name by itself.
Candidates(loader) ==
    LET dirs == Append(LoaderPath, None)
        affixes == IF loader.form = "name" THEN Affixes ELSE <<"">>
        n == Len(dirs)
    IN IF loader.form = "absolute" THEN <<<<"", None>>>>
       ELSE [k \in 1 .. n * Len(affixes) |->
                <<affixes[((k - 1) \div n) + 1], dirs[((k - 1) % n) + 1]>>]

Source == sources[at[1]][at[2]]

FirstOfDomain(n) ==
    /\ pc = "loaders" /\ at = NoDomain
    /\ n \in todo
    /\ todo' = todo \ {n}
    /\ at' = <<n, 1>>
    /\ tried' = 0
    /\ UNCHANGED <<file, store, made, pc, sources, clone, handle, read, data, logged, silent>>

\* The symbols are looked up in this order.
Lookup(found) == IF found = 0 THEN {}
                 ELSE IF found = 1 THEN {"openSource"}
                 ELSE IF found = 2 THEN {"openSource", "getRecipient"} ELSE Symbols

\* Mutant of Kept: a library without one of the symbols is not closed.
KeptAlways(found) == TRUE

\* A library that has not all three is closed again.
Kept(found) == Lookup(found) = Symbols

\* The source after its library was tried, which has the first symbols, or no
\* more than its name.
Tried(s, lib, found) ==
    [uri |-> s.uri, loader |-> s.loader, dll |-> IF Kept(found) THEN lib ELSE NoLibrary,
     entry |-> [f \in Symbols |-> IF f \in Lookup(found) THEN lib ELSE s.entry[f]]]

\* Mutant of NextSource: one source too many.
NextSourcePast == <<at[1], at[2] + 1>>

NextSource == IF at[2] < Len(sources[at[1]]) THEN <<at[1], at[2] + 1>> ELSE NoDomain

\* open_loader() of the next candidate
TryLibrary ==
    /\ pc = "loaders" /\ at # NoDomain
    /\ tried < Len(Candidates(Source.loader))
    /\ LET lib == Candidates(Source.loader)[tried + 1]
       IN \E found \in 0 .. 3 :
            /\ sources' = [sources EXCEPT ![at[1]][at[2]] = Tried(@, lib, found)]
            /\ tried' = IF Kept(found) THEN 0 ELSE tried + 1
            /\ at' = IF Kept(found) THEN NextSource ELSE at
    /\ UNCHANGED <<file, store, made, pc, todo, clone, handle, read, data, logged, silent>>

\* log_throw(): load_loaders() disables the domain, and get() fails.
NotFound ==
    /\ pc = "loaders" /\ at # NoDomain
    /\ tried = Len(Candidates(Source.loader))
    /\ logged' = made[Source.uri].log
    /\ sources' = <<>> /\ data' = <<>>
    /\ at' = NoDomain /\ tried' = 0
    /\ pc' = "failed"
    /\ UNCHANGED <<file, store, made, todo, clone, handle, read, silent>>

LoadersLoaded ==
    /\ pc = "loaders" /\ at = NoDomain
    /\ todo = {}
    /\ todo' = DOMAIN sources
    /\ pc' = "refresh"
    /\ UNCHANGED <<confVars, at, clone, handle, read, data, logged, silent>>

-----------------------------------------------------------------------------
(* The loop of Globals::reload(), Domain::refresh() and Source::load_data() *)

\* The clone opens the libraries again and takes the pointers over.
Clone(n) ==
    /\ pc = "refresh"
    /\ n \in todo
    /\ todo' = todo \ {n}
    /\ clone' = sources[n]
    /\ read' = {}
    /\ at' = <<n, 1>>
    /\ pc' = "open"
    /\ UNCHANGED <<confVars, handle, data, logged, silent>>

\* A library cannot be opened again.
CloneFails(n) ==
    /\ pc = "refresh"
    /\ n \in todo
    /\ todo' = todo \ {n}
    /\ UNCHANGED <<confVars, pc, at, clone, handle, read, data, logged, silent>>

Opened == clone[at[2]]

\* Mutant of Released: a failure of getRecipient() leaves the source open.
ReleasedAtEnd(failed) == IF failed THEN handle ELSE NoHandle

\* closeSource(), or `delete h' in openSource()
Released(failed) == NoHandle

\* Mutant of After: the failure is logged, and the load goes on with the next
\* source.
AfterAnyway(failed) == IF at[2] < Len(clone) THEN "open" ELSE "refresh"

\* A failure ends the load of the domain.
After(failed) == IF ~failed /\ at[2] < Len(clone) THEN "open" ELSE "refresh"

\* The current source is done with: the last one completes the clone, which
\* replaces the domain.
SourceEnds(failed) ==
    LET more == After(failed) = "open" IN
    /\ handle' = Released(failed)
    /\ pc' = After(failed)
    /\ at' = IF more THEN <<at[1], at[2] + 1>> ELSE NoDomain
    /\ clone' = IF more THEN clone ELSE <<>>
    /\ read' = IF more THEN read ELSE {}
    /\ data' = IF more THEN data
               ELSE [data EXCEPT ![at[1]] = [result |-> IF failed THEN "failed" ELSE "loaded",
                                              names |-> IF failed THEN {} ELSE read]]
    /\ logged' = IF failed THEN made[Opened.uri].log ELSE logged
    /\ UNCHANGED <<confVars, todo, silent>>

\* The URI is not one for the loader.
CannotOpen ==
    /\ pc = "open"
    /\ ~made[Opened.uri][Opened.loader.program].valid
    /\ SourceEnds(TRUE)

\* Every call of a loader may throw: the memory, the library, the server.
SourceFails ==
    /\ pc \in {"open", "bind", "read"}
    /\ ~silent
    /\ SourceEnds(TRUE)

\* strtolower() and us_emplace(), unless the name belongs to another domain.
Taken(v) == IF v.at = "foreign" THEN read ELSE read \cup {v.name}

-----------------------------------------------------------------------------
(* loaders/sendmail.cpp *)

\* A stream on a file that cannot be read, or on a directory, is at its end.
Lines(name) == IF store.readable /\ name # Dot THEN store.lines ELSE <<>>

OpenFile ==
    /\ pc = "open" /\ Opened.loader.program = "sendmail"
    /\ made[Opened.uri].sendmail.valid
    /\ handle' = [loader |-> "sendmail", name |-> made[Opened.uri].sendmail.name,
                  left |-> Lines(made[Opened.uri].sendmail.name)]
    /\ pc' = "read"
    /\ UNCHANGED <<confVars, todo, at, clone, read, data, logged, silent>>

\* A line, which may begin with no name.
ReadLine ==
    /\ pc = "read" /\ handle.loader = "sendmail"
    /\ handle.left # <<>>
    /\ handle' = [handle EXCEPT !.left = Tail(@)]
    /\ read' = IF Head(handle.left).kind = "odd" THEN read ELSE Taken(Head(handle.left))
    /\ UNCHANGED <<confVars, pc, todo, at, clone, data, logged, silent>>

EndOfFile ==
    /\ pc = "read" /\ handle.loader = "sendmail"
    /\ handle.left = <<>>
    /\ SourceEnds(FALSE)

-----------------------------------------------------------------------------
(* loaders/ldap.cpp *)

\* openSource() up to ldap_initialize(): nothing is sent yet.
OpenDirectory ==
    /\ pc = "open" /\ Opened.loader.program = "ldap"
    /\ made[Opened.uri].ldap.valid /\ made[Opened.uri].ldap.selects
    /\ handle' = [loader |-> "ldap", target |-> made[Opened.uri].ldap,
                  left |-> store.entries, attributes |-> <<>>, values |-> <<>>]
    /\ pc' = "bind"
    /\ UNCHANGED <<confVars, todo, at, clone, read, data, logged, silent>>

\* The list of the attributes of the URL is a null pointer if there is none, and
\* is read: the process ends.
NoAttributes ==
    /\ pc = "open" /\ Opened.loader.program = "ldap"
    /\ made[Opened.uri].ldap.valid /\ ~made[Opened.uri].ldap.selects
    /\ pc' = "crashed"
    /\ UNCHANGED <<confVars, todo, at, clone, handle, read, data, logged, silent>>

\* ldap_sasl_bind_s() and ldap_search_ext()
Bind ==
    /\ pc = "bind" /\ ~silent
    /\ handle.target.filters
    /\ pc' = "read"
    /\ UNCHANGED <<confVars, todo, at, clone, handle, read, data, logged, silent>>

\* Nor is there a filter if the URL has none: a string is assigned from a null
\* pointer, after the bind.
NoFilter ==
    /\ pc = "bind" /\ ~silent
    /\ ~handle.target.filters
    /\ pc' = "crashed"
    /\ UNCHANGED <<confVars, todo, at, clone, handle, read, data, logged, silent>>

Reading == pc = "read" /\ handle.loader = "ldap"

\* Mutant of AfterValue: an unusable value is not passed.
AfterValueStuck(values) == IF Head(values).kind = "odd" THEN values ELSE Tail(values)

\* h->value++
AfterValue(values) == Tail(values)

TakeValue ==
    /\ Reading /\ handle.values # <<>>
    /\ Head(handle.values).kind # "empty"
    /\ handle' = [handle EXCEPT !.values = AfterValue(@)]
    /\ read' = IF Head(handle.values).kind = "odd" THEN read ELSE Taken(Head(handle.values))
    /\ UNCHANGED <<confVars, pc, todo, at, clone, data, logged, silent>>

\* An empty value is returned like the end of the search.
EmptyValue ==
    /\ Reading /\ handle.values # <<>>
    /\ Head(handle.values).kind = "empty"
    /\ SourceEnds(FALSE)

NextAttribute ==
    /\ Reading /\ handle.values = <<>> /\ handle.attributes # <<>>
    /\ handle' = [handle EXCEPT !.values = Head(handle.attributes), !.attributes = Tail(@)]
    /\ UNCHANGED <<confVars, pc, todo, at, clone, read, data, logged, silent>>

Waiting == Reading /\ handle.values = <<>> /\ handle.attributes = <<>>

\* ldap_result(): an entry.  A message that is none has no attributes either.
NextEntry ==
    /\ Waiting /\ ~silent
    /\ handle.left # <<>>
    /\ handle' = [handle EXCEPT !.attributes = Head(handle.left), !.left = Tail(@)]
    /\ UNCHANGED <<confVars, pc, todo, at, clone, read, data, logged, silent>>

SearchResult ==
    /\ Waiting /\ ~silent
    /\ handle.left = <<>>
    /\ SourceEnds(FALSE)

\* The server stops to answer: ldap_result() has no timeout, and the network
\* timeout of 5 seconds is for the connection.
FallsSilent ==
    /\ pc = "bind" \/ Waiting
    /\ ~silent
    /\ silent' = TRUE
    /\ UNCHANGED <<confVars, pc, todo, at, clone, handle, read, data, logged>>

-----------------------------------------------------------------------------

Publish ==
    /\ pc = "refresh"
    /\ todo = {}
    /\ pc' = "published"
    /\ UNCHANGED <<confVars, todo, at, clone, handle, read, data, logged, silent>>

Reads == ReadLine \/ EndOfFile \/ TakeValue \/ EmptyValue \/ NextAttribute
         \/ NextEntry \/ SearchResult

Opens == OpenFile \/ OpenDirectory \/ NoAttributes \/ CannotOpen \/ Bind \/ NoFilter

Steps ==
    \/ GetFails \/ Get
    \/ \E n \in todo : FirstOfDomain(n) \/ Clone(n) \/ CloneFails(n)
    \/ TryLibrary \/ NotFound \/ LoadersLoaded
    \/ Opens \/ Reads \/ Publish

Next == Steps \/ SourceFails \/ FallsSilent

\* The thread that loads runs, and a server that is not silent answers.
Spec == Init /\ [][Next]_vars /\ WF_vars(Steps)

-----------------------------------------------------------------------------
(* Properties *)

Lib == {NoLibrary} \cup {<<a, d>> : a \in ToSet(Affixes), d \in ToSet(LoaderPath) \cup {None}}

Sources == [uri : Seq(Token), loader : Loader, dll : Lib, entry : [Symbols -> Lib]]

Texts == Seq(Token \cup {Stars})

Handles ==
    {NoHandle}
    \cup [loader : {"sendmail"}, name : Texts, left : Seq(Value)]
    \cup [loader : {"ldap"}, target : {made[u].ldap : u \in DOMAIN made},
          left : Seq(Seq(Seq(Value))), attributes : Seq(Seq(Value)), values : Seq(Value)]

\* Every variable has its type, and what is being processed is in its range.
TypeOK ==
    /\ file \in ConfFiles
    /\ store \in Stores
    /\ pc \in {"get", "loaders", "refresh", "open", "bind", "read",
               "published", "failed", "crashed"}
    /\ \A n \in DOMAIN sources : sources[n] \in Seq(Sources)
    /\ DOMAIN data = DOMAIN sources
    /\ todo \subseteq DOMAIN sources \/ pc = "failed"
    /\ at # NoDomain => at[1] \in DOMAIN sources \ todo /\ at[2] \in DOMAIN sources[at[1]]
    /\ tried \in 0 .. 4 * (Len(LoaderPath) + 1)
    /\ clone \in Seq(Sources)
    /\ handle \in Handles
    /\ read \subseteq STRING
    /\ \A n \in DOMAIN data :
          data[n] \in [result : {"new", "failed", "loaded"}, names : SUBSET STRING]
    /\ logged \in Texts
    /\ silent \in BOOLEAN

\* The three functions of a loader are those of one library, which is open.
Usable(s) == s.dll # NoLibrary /\ \A f \in Symbols : s.entry[f] = s.dll

\* No function of a loader is called that is missing or belongs to a library that
\* was closed; the source that openSource() has opened is closed exactly once,
\* whatever fails in between; and a configuration that is published has a
\* domain, each with a source.
LoaderProtocol ==
    /\ pc \in {"open", "bind", "read"} => \A i \in DOMAIN clone : Usable(clone[i])
    /\ handle = NoHandle => pc \notin {"bind", "read"}
    /\ handle # NoHandle => pc \in {"bind", "read", "crashed"}
    /\ clone # <<>> <=> pc \in {"open", "bind", "read", "crashed"}
    /\ pc = "published" =>
          /\ DOMAIN sources # {}
          /\ \A n \in DOMAIN sources :
                sources[n] # <<>> /\ \A i \in DOMAIN sources[n] : Usable(sources[n][i])

\* An authority whose host is a name or empty, with digits for its port, if it has one.
NamesHost(u) ==
    /\ HasAuthority(u) /\ ToSet(Written(u).host) \subseteq regnameChar
    /\ ToSet(Written(u).port) \subseteq {Digit}

\* An empty authority but for user information, and the path of a file, without a
\* character that may not be there.
NamesFile(u) ==
    /\ NamesHost(u) /\ Written(u).host = <<>> /\ ~Written(u).hasPort /\ Written(u).path # <<>>
    /\ ToSet(Written(u).userinfo) \subseteq userinfoChar
    /\ ToSet(Written(u).path) \subseteq pcharSlash

\* The user information of any text.
UserinfoOf(u) == IF HasAuthority(u) THEN Written(u).userinfo ELSE <<>>

Credentials(info) ==
    LET c == FirstOf(info, 1, {":"}) IN
    IF info = <<":">> THEN <<info, <<>>>>
    ELSE <<unescape(Between(info, 1, c)), unescape(SubSeq(info, c + 1, Len(info)))>>

\* A path as the program writes it: without empty names and those of directories.
Plain(path) ==
    /\ \A i \in DOMAIN path : path[i] \notin {".", ".."}
    /\ \A i \in 1 .. Len(path) - 1 : path[i] # Slash \/ path[i + 1] # Slash
    /\ Len(path) > 1 => Last(path) # Slash

\* The loaders ask whom the URI names, and for what it names. The LDAP loader sends
\* the dn and the password of its URI and no others, whatever the URI, and none if
\* it has none; if it has, they go to its host, whose base is searched. (Without
\* user information the code does not find the host; it then asks the local one,
\* as anybody. Which port it asks is wrong for most ports, and not said here.)
\* The sendmail loader reads its file.
SourceAsAsked ==
    LET u == Opened.uri IN
    /\ pc \in {"bind", "read"} /\ handle.loader = "ldap" =>
          /\ <<handle.target.binddn, handle.target.password>> = Credentials(UserinfoOf(u))
          /\ UserinfoOf(u) # <<>> /\ NamesHost(u) =>
                /\ handle.target.server = Written(u).host
                /\ Plain(Written(u).path) => handle.target.dn = Written(u).path
    /\ pc = "read" /\ handle.loader = "sendmail" /\ NamesFile(u) /\ Plain(Written(u).path) =>
          handle.name = Written(u).path

\* Where the user information is.
UserinfoPlace(u) ==
    LET first == FirstOf(u, 1, {":"}) + 3 IN first .. first + Len(Written(u).userinfo) - 1

\* What a log may show of a URI: all but its user information, if that has no other
\* characters than user information may have.
Public(u) ==
    IF HasAuthority(u) /\ ToSet(Written(u).userinfo) \subseteq userinfoChar
    THEN {u[i] : i \in DOMAIN u \ UserinfoPlace(u)}
    ELSE ToSet(u)

\* What the conversion to a string adds, and what stands for the user information.
Added == {":", Slash, "@", "?", "#", ".", Digit, Stars}

\* What is logged of a URI tells nothing of its user information, as the comment
\* in Source::log() says: what is written nowhere else is not shown.
UserinfoHidden ==
    ToSet(logged) \subseteq (UNION {Public(u) : u \in UrisOf(file)}) \cup Added

All(s) ==
    LET lines == {v \in ToSet(store.lines) : v.kind # "odd"}
        values == {v \in UNION {ToSet(a) : a \in UNION {ToSet(e) : e \in ToSet(store.entries)}} :
                      v.kind \in {"plain", "smtp"}}
    IN {v.name : v \in {w \in IF s.loader.program = "sendmail" THEN lines ELSE values :
                           w.at # "foreign"}}

\* A source whose names a load may miss without a failure: an LDAP value is empty,
\* the file cannot be read, or the URI has no path.
MayMiss(s) ==
    IF s.loader.program = "sendmail" THEN ~store.readable \/ made[s.uri].sendmail.name = Dot
    ELSE \E e \in ToSet(store.entries) : \E a \in ToSet(e) : \E v \in ToSet(a) : v.kind = "empty"

\* A domain that was loaded has the names of all its sources, and no others,
\* whatever else is in an answer, unless a source ended early in a known way.
Complete ==
    \A n \in DOMAIN data : data[n].result = "loaded" =>
        /\ data[n].names \subseteq UNION {All(s) : s \in ToSet(sources[n])}
        /\ \A s \in ToSet(sources[n]) : MayMiss(s) \/ All(s) \subseteq data[n].names

\* Reading a configuration and loading its domains comes to an end, unless a
\* directory server falls silent.
LoadEnds == <>(pc \in {"published", "failed", "crashed"} \/ silent)
=============================================================================
