----------------------------- MODULE MCLoading ------------------------------
(***************************************************************************)
(* Small instances of Loading for TLC.                                     *)
(***************************************************************************)
EXTENDS Loading

MCWord == {"etc", "passwd", "aliases", "file", "ldap", "cn", "pw", "host", "dc", "mail", "any"}

\* Authorities: without user information, with a dn, a password, an escape, a
\* port (0 to 5 digits), a literal address, or broken.
Authorities ==
    { <<>>, <<"/", "/">>, <<"/", "/", "host">>,
      <<"/", "/", "cn", "@", "host">>, <<"/", "/", "cn", ":", "pw", "@", "host">>,
      <<"/", "/", "cn", "%40", ":", "pw", "@", "host", ":", "0">>,
      <<"/", "/", "cn", ":", "pw", "@">>, <<"/", "/", "cn", "[", "pw", "@", "host">>,
      <<"/", "/", ":", "@", "host">>,
      <<"/", "/", "cn", ":", "@", "host", ":">>, <<"/", "/", ":", "pw", "@", "host">>,
      <<"/", "/", "cn", ":", "pw", "@", "host", ":", "0", "0", "0", "0", "0">>,
      <<"/", "/", "cn", ":", "pw", "@", "[", "host", "]">>,
      <<"/", "/", "cn", ":", "pw", "@", "[", "host">> }

Query == <<"?", "mail", "?", "?", "any">>

LdapUris ==
    {<<"ldap", ":">> \o a \o p \o q :
        a \in Authorities, p \in {<<>>, <<"/", "dc">>},
        q \in {<<>>, <<"?">>, <<"?", "mail">>, Query}}
    \cup {<<>>, <<"file", ":", "/", "dc">>, <<"ldap", ":", "/", "/", "cn", "@", "host", "/", "[">>}

FileUris ==
    { <<>>, <<"file", ":", "/", "/", "/", "etc", "/", "passwd">>,
      <<"file", ":", "/", "/", "host", "/", "etc">>,
      <<"etc", "/", "..", "/", "passwd">>, <<"/", "..", "/", ".", "/", "etc">>,
      <<"ldap", ":", "/", "etc">>, <<"file", ":", "/", "/", "cn", ":", "pw", "@", "[", "]">>,
      <<"file", ":", "/", "/", "cn", ":", "pw", "@", "/", "etc", "#", "mail">>,
      <<"file", ":", "/", "/", "cn", ":", "pw", "@", "/", "etc", "/">>,
      <<"file", ":", "/", "/", "cn", "[", "@", "/", "cn">> }

By(program, form) == [program |-> program, form |-> form]
From(uri, loader) == [uri |-> uri, loader |-> loader, enabled |-> TRUE]
Off(source) == [source EXCEPT !.enabled = FALSE]
Domain(title, enabled, s) == [title |-> title, enabled |-> enabled, sources |-> s]
Conf(domains) == [state |-> "ok", domains |-> domains]

Directory == From(<<"ldap", ":", "/", "/", "cn", "@", "host", "/", "dc">> \o Query,
                  By("ldap", "path"))
Passwd == From(<<"/", "etc", "/", "passwd">>, By("sendmail", "absolute"))

MCConfFiles ==
    {Conf(<<Domain("a", TRUE, <<From(u, By("ldap", "absolute"))>>)>>) : u \in LdapUris}
    \cup {Conf(<<Domain("a", TRUE, <<From(u, By("sendmail", "absolute"))>>)>>) : u \in FileUris}
    \cup { [state |-> "error", domains |-> <<>>], [state |-> "missing", domains |-> <<>>],
           Conf(<<Domain("a", FALSE, <<>>)>>), Conf(<<Domain("a", TRUE, <<Off(Passwd)>>)>>),
           Conf(<<Domain("a", TRUE, <<Passwd, Off(Passwd), Directory>>),
                  Domain("b", FALSE, <<Directory>>),
                  Domain("c", TRUE, <<Directory>>)>>) }

V(name, kind, domain) == [name |-> name, kind |-> kind, at |-> domain]

\* A directory with several entries, attributes and values of every kind, and a
\* message that is no entry; one with an empty value; an empty one.
MCStores ==
    { [readable |-> TRUE,
       lines |-> <<V("root", "plain", "none"), V("", "odd", "none"), V("joe", "plain", "none")>>,
       entries |-> <<<<<<V("ann", "smtp", "local"), V("x400", "odd", "none"),
                         V("bob", "plain", "foreign")>>, <<>>, <<V("bill", "plain", "none")>>>>,
                     <<>>, <<<<V("ann", "plain", "none"), V("eve", "plain", "local")>>>>>>],
      [readable |-> TRUE, lines |-> <<V("joe", "plain", "foreign")>>,
       entries |-> <<<<<<V("ann", "plain", "none"), V("", "empty", "none"),
                         V("eve", "plain", "none")>>>>>>],
      [readable |-> FALSE, lines |-> <<V("root", "plain", "none")>>, entries |-> <<>>] }

MCLoaderPath == <<"dir">>
=============================================================================
