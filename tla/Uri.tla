-------------------------------- MODULE Uri ---------------------------------
(***************************************************************************)
(* The URI parser of src/milter/uri.cpp and include/uri.h.  A text is a    *)
(* sequence of tokens: a word, a digit, a delimiter, or an escaped `@'.    *)
(* The code looks one character beyond the end, which is the NUL.          *)
(*                                                                         *)
(* The parser gets no literal address: a bracket before the host makes it  *)
(* throw, or is never looked at.  A name of the form v1.x, which is        *)
(* printed like a literal address, is no word of the model.                *)
(***************************************************************************)
EXTENDS FilePath

CONSTANTS
    Word        \* words of letters

Digit == "0"
Escape == "%40"
Nul == "NUL"
Stars == "***"

\* What is told apart from the words; the last two are no parts of a text.
Delimiters == {Digit, Escape, ".", "..", Slash, ":", "@", "?", "#", "[", "]", Nul, Stars}

ASSUME UriAssumption == Word \subseteq STRING /\ Word \cap Delimiters = {}

Token == Word \cup (Delimiters \ {Nul, Stars})

unreserved == Word \cup {Digit, ".", ".."}
schemeChar == Word \cup {Digit, ".", ".."}
regnameChar == unreserved \cup {Escape}

userinfoChar == regnameChar \cup {":"}
pcharSlash == userinfoChar \cup {"@", Slash}
queryChar == pcharSlash \cup {"?"}

TokenAt(u, i) == IF i <= Len(u) THEN u[i] ELSE Nul

\* skip_charSet()
Skip(u, p, chars) == CHOOSE q \in p .. Len(u) + 1 :
    /\ TokenAt(u, q) \notin chars
    /\ \A i \in p .. q - 1 : u[i] \in chars

Between(u, p, q) == SubSeq(u, p, q - 1)

unescape(text) == [i \in DOMAIN text |-> IF text[i] = Escape THEN "@" ELSE text[i]]

Empty == [scheme |-> <<>>, userinfo |-> <<>>, user |-> <<>>, password |-> <<>>,
          host |-> <<>>, port |-> 0, path |-> NoPath, query |-> <<>>, fragment |-> <<>>]

Parsed(ok, uri) == [result |-> IF ok THEN "ok" ELSE "invalid", uri |-> uri]
Throws(uri) == [result |-> "throws", uri |-> uri]

\* The user and the password, if there is a colon between them.
SplitUser(uri, info) ==
    LET c == Skip(info, 1, regnameChar)
    IN [uri EXCEPT !.userinfo = info,
                   !.user = IF c > Len(info) THEN <<>> ELSE unescape(Between(info, 1, c)),
                   !.password = unescape(SubSeq(info, c + 1, Len(info)))]

\* The path, the query and the fragment, from p on.
Rest(u, p, uri) ==
    LET path == Skip(u, p, pcharSlash)
        query == IF TokenAt(u, path) = "?" THEN Skip(u, path + 1, queryChar) ELSE path
        end == IF TokenAt(u, query) = "#" THEN Skip(u, query + 1, queryChar) ELSE query
    IN Parsed(end = Len(u) + 1,
              [uri EXCEPT !.path = IF path = p THEN NoPath ELSE PathOf(Between(u, p, path)),
                          !.query = Between(u, path + 1, query),
                          !.fragment = Between(u, query + 1, end)])

\* Each of the n digits of a port adds the value of the colon, which is 10.
Port(n) == (10 ^ (n + 1) - 10) \div 9

\* Where the host is expected: without user information the parser is still
\* before the slashes, and takes what follows for the path.
HostFrom(given, p, q) == IF given THEN q + 1 ELSE p

\* The authority: p is at the first slash.
Authority(u, p, uri) ==
    LET q == Skip(u, p + 2, userinfoChar)
        given == TokenAt(u, q) = "@"
        info == IF given THEN Between(u, p + 2, q) ELSE <<>>
        h == HostFrom(given, p, q)
        e == Skip(u, h, regnameChar)
        z == IF TokenAt(u, e) = ":" THEN Skip(u, e + 1, {Digit}) ELSE e
        port == IF z = e THEN 0 ELSE Port(z - e - 1)
    IN IF TokenAt(u, h) = "["
       THEN IF \E i \in h + 1 .. Len(u) : u[i] = "]" THEN Throws(uri)
            ELSE Parsed(FALSE, Empty)
       ELSE IF port > 65535 THEN Parsed(FALSE, Empty)
       ELSE Rest(u, z, [SplitUser(uri, info) EXCEPT !.host = Between(u, h, e),
                                                    !.port = port])

\* URI::parse()
Parse(u) ==
    LET s == Skip(u, 1, schemeChar)
        uri == [Empty EXCEPT !.scheme = Between(u, 1, s)]
    IN IF TokenAt(u, 1) \notin Word \/ TokenAt(u, s) # ":" THEN Rest(u, 1, Empty)
       ELSE IF TokenAt(u, s + 1) = Slash /\ TokenAt(u, s + 2) = Slash
       THEN Authority(u, s + 1, uri)
       ELSE Rest(u, s + 1, uri)

If(condition, text) == IF condition THEN text ELSE <<>>

\* operator std::string(); the digits of a port are not told apart.
Printed(uri) ==
    LET absolute == ~uri.path.relative
        port == If(uri.port # 0, <<":", Digit>>)
    IN If(uri.scheme # <<>>, uri.scheme \o <<":">>)
       \o If(uri.userinfo # <<>> \/ uri.host # <<>> \/ uri.port # 0 \/ absolute,
             <<Slash, Slash>> \o If(uri.userinfo # <<>>, uri.userinfo \o <<"@">>)
                              \o uri.host \o port)
       \o If(~IsEmpty(uri.path) \/ absolute, Text(uri.path))
       \o If(uri.query # <<>>, <<"?">> \o uri.query)
       \o If(uri.fragment # <<>>, <<"#">> \o uri.fragment)

\* userinfo(""), userinfo("***")
WithUserinfo(uri, info) == SplitUser(uri, info)

-----------------------------------------------------------------------------
(* RFC 3986, to which include/uri.h refers *)

FirstOf(u, p, stops) == CHOOSE q \in p .. Len(u) + 1 :
    /\ TokenAt(u, q) \in stops \cup {Nul}
    /\ \A i \in p .. q - 1 : u[i] \notin stops

\* The parts of a URI that has an authority.
Written(u) ==
    LET colon == FirstOf(u, 1, {":"})
        end == FirstOf(u, colon + 3, {Slash, "?", "#"})
        atSign == FirstOf(u, colon + 3, {"@"})
        given == atSign < end
        host == IF given THEN atSign + 1 ELSE colon + 3
        c == FirstOf(u, host, {":"})
        query == FirstOf(u, end, {"?", "#"})
    IN [userinfo |-> If(given, Between(u, colon + 3, atSign)),
        host |-> Between(u, host, IF c < end THEN c ELSE end),
        hasPort |-> c < end,
        port |-> Between(u, c + 1, end),
        path |-> Between(u, end, query)]

HasAuthority(u) ==
    LET colon == FirstOf(u, 1, {":"}) IN
    /\ TokenAt(u, 1) \in Word
    /\ \A i \in 2 .. colon - 1 : u[i] \in schemeChar
    /\ TokenAt(u, colon + 1) = Slash /\ TokenAt(u, colon + 2) = Slash
=============================================================================
