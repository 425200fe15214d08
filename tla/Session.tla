------------------------------ MODULE Session -------------------------------
(***************************************************************************)
(* One milter connection: the callbacks of the Undervest context           *)
(* (src/milter/undervest.cpp, include/milter.h), and the envelope that the *)
(* MTA keeps for the message.  Meanwhile the configuration is reloaded and *)
(* the data of its domain are refreshed, as Refresh describes.             *)
(*                                                                         *)
(* An address is the text between < and >, in lower case.  The addresses   *)
(* of Foreign have no domain part or one that is not configured; the       *)
(* others are those of one configured domain.  Similarity is abstract:     *)
(* Matcher is about how it is computed.                                    *)
(***************************************************************************)
EXTENDS Integers, FiniteSets

CONSTANTS
    Addr,           \* the addresses
    Foreign,        \* those of no configured domain
    NgramClose,     \* <<a, b>>: b reaches the n-gram threshold for a
    WordClose,      \* <<a, b>>: b reaches the word threshold for a
    Conf,           \* the configurations, 1 first
    Autofix,        \* Autofix[c]: fixRecipient of the domain in c
    NoAddr,         \* the empty string: recipient() found no match
    Offers,         \* the sets of actions the MTA may offer
    MaxRcpt,        \* RCPT commands of a message: a bound of the model
    MaxRefresh      \* refreshes and reloads: a bound of the model

Flag == {"ADDRCPT", "ADDRCPT_PAR", "DELRCPT"}

ASSUME SessionAssumption ==
    /\ NoAddr \notin Addr
    /\ Foreign \subseteq Addr
    /\ NgramClose \in SUBSET (Addr \X Addr)
    /\ WordClose \in SUBSET (Addr \X Addr)
    /\ \A a \in Addr : <<a, a>> \in NgramClose      \* a perfect match scores 1
    /\ 1 \in Conf /\ Conf \subseteq Nat
    /\ Autofix \in [Conf -> BOOLEAN]
    /\ Offers \subseteq SUBSET Flag
    /\ MaxRcpt \in Nat /\ MaxRefresh \in Nat

VARIABLES
    published,  \* Globals::conf
    domain,     \* domain[c]: the data of the domain in configuration c
    changes,    \* refreshes and reloads so far, up to MaxRefresh
    phase,      \* where the SMTP session is
    flags,      \* the actions negotiated with the MTA
    conf,       \* Undervest::conf
    rejected,   \* Undervest::rejected
    added,      \* added[a]: the arguments a was inserted in Undervest::added with
    maybe,      \* Undervest::maybe
    envelope,   \* the recipients the MTA has for the message
    replies,    \* history: what became of the RCPT commands of the message
    rcpts       \* RCPT commands of the message so far, up to MaxRcpt

vars == <<published, domain, changes, phase, flags, conf, rejected, added, maybe,
          envelope, replies, rcpts>>

serverVars  == <<published, domain, changes>>
contextVars == <<rejected, added, maybe>>

Args == {"none", "some"}        \* the ESMTP parameters of a RCPT command
Absent == "absent"

\* A domain whose data are not loaded (failure_count # 0) lets all pass.
Data == [open : BOOLEAN, recipients : SUBSET (Addr \ Foreign)]

Init ==
    /\ published \in Conf           \* the process may have read others before
    /\ domain \in [Conf -> Data]
    /\ changes = 0
    /\ phase = "start"
    /\ flags = {}
    /\ conf = 1
    /\ rejected = {}
    /\ added = [a \in Addr |-> Absent]
    /\ maybe = {}
    /\ envelope = {}
    /\ replies = {}
    /\ rcpts = 0

-----------------------------------------------------------------------------
(* Domain::recipient() and Configuration::recipient() *)

Close(a, relation, recipients) == {b \in recipients : <<a, b>> \in relation}

\* The first matcher with a result decides: one result is the answer, several
\* leave the address as given, none at all is NoAddr.
Match(a, recipients) ==
    LET ngram == Close(a, NgramClose, recipients)
        word  == Close(a, WordClose, recipients)
        best  == IF ngram # {} THEN ngram ELSE word
    IN IF best = {} THEN NoAddr
       ELSE IF Cardinality(best) = 1 THEN CHOOSE b \in best : TRUE
       ELSE a

DomainRecipient(a, d) == IF d.open THEN a ELSE Match(a, d.recipients)

Recipient(a, c) == IF a \in Foreign THEN a ELSE DomainRecipient(a, domain[c])

\* Mutant of FixIt: the setting of the configuration published meanwhile.
FixItPublished(a, c) == a \notin Foreign /\ Autofix[published]

\* *fixit is only set when the domain has answered.
FixIt(a, c) == a \notin Foreign /\ Autofix[c]

-----------------------------------------------------------------------------
(* The callbacks *)

\* milter::_negotiate: the actions that the code wants and the MTA offers.
Negotiated(offer) == Flag \cap offer

\* Undervest::connect: the configuration is the one of the moment.
Connect(offer) ==
    /\ phase = "start"
    /\ flags' = Negotiated(offer)
    /\ conf' = published
    /\ phase' = "idle"
    /\ UNCHANGED <<serverVars, contextVars, envelope, replies, rcpts>>

\* Mutant of ClearContext: one of the sets is forgotten.
ClearAddedOnly ==
    /\ added' = [a \in Addr |-> Absent]
    /\ maybe' = {}
    /\ UNCHANGED rejected

\* Undervest::clear()
ClearContext ==
    /\ rejected' = {}
    /\ added' = [a \in Addr |-> Absent]
    /\ maybe' = {}

\* Undervest::envelopeFrom, with the MTA's envelope of the new message.
EnvelopeFrom ==
    /\ phase \in {"idle", "sent"}
    /\ ClearContext
    /\ phase' = "mail"
    /\ envelope' = {}
    /\ replies' = {}
    /\ rcpts' = 0
    /\ UNCHANGED <<serverVars, flags, conf>>

\* std::unordered_map::insert keeps what is there.
Emplace(a, args) == added' = [added EXCEPT ![a] = IF @ = Absent THEN args ELSE @]

Reply(a, to, inError) == [addr |-> a, to |-> to, inError |-> inError]

\* The address is kept as given or fixed later: in the code's words mapped == s
\* or !fixit, against the single fuzzy match with fix.
KeepsAddress(a, mapped, fixit) == mapped = a \/ ~fixit

\* Mutant of Unknown: the empty answer is taken for an address.
NeverUnknown(mapped) == FALSE

\* recipient() has found no match.
Unknown(mapped) == mapped = NoAddr

RcptCommand ==
    /\ phase = "mail"
    /\ rcpts < MaxRcpt
    /\ rcpts' = rcpts + 1
    /\ UNCHANGED <<serverVars, phase, flags, conf>>

\* The macro {rcpt_mailer} is missing: std::string(NULL) throws, and _envrcpt
\* answers SMFIS_TEMPFAIL.
NoMailerMacro ==
    /\ RcptCommand
    /\ UNCHANGED <<contextVars, envelope, replies>>

RejectRecipient(a) ==
    /\ RcptCommand
    /\ Unknown(Recipient(a, conf))
    /\ UNCHANGED <<contextVars, envelope, replies>>

\* inError: the MTA has refused the recipient, and shows it to the milter only
\* because of SMFIP_RCPT_REJ.
KeepRecipient(a, args, inError) ==
    /\ RcptCommand
    /\ LET mapped == Recipient(a, conf)
       IN /\ ~Unknown(mapped)
          /\ KeepsAddress(a, mapped, FixIt(a, conf))
          /\ maybe' = IF mapped # a THEN maybe \cup {mapped} ELSE maybe
          /\ replies' = replies \cup {Reply(a, a, inError)}
    /\ IF inError THEN Emplace(a, args) ELSE UNCHANGED added
    /\ envelope' = IF inError THEN envelope ELSE envelope \cup {a}
    /\ UNCHANGED rejected

FixRecipient(a, args, inError) ==
    /\ RcptCommand
    /\ LET mapped == Recipient(a, conf)
       IN /\ ~Unknown(mapped)
          /\ ~KeepsAddress(a, mapped, FixIt(a, conf))
          /\ Emplace(mapped, args)
          /\ replies' = replies \cup {Reply(a, mapped, inError)}
    /\ rejected' = rejected \cup {a}
    /\ envelope' = IF inError THEN envelope ELSE envelope \cup {a}
    /\ UNCHANGED maybe

\* smfi_delrcpt, smfi_addrcpt and smfi_addrcpt_par fail unless negotiated; the
\* code ignores their results.
Deleted == IF "DELRCPT" \in flags THEN rejected ELSE {}

Allows(args) == IF args = "none" THEN "ADDRCPT" \in flags ELSE "ADDRCPT_PAR" \in flags

Added == {a \in Addr : added[a] # Absent /\ Allows(added[a])}

\* Mutant of Edited: additions first.
DeletedLast == (envelope \cup Added) \ Deleted

\* The envelope after the deletions and then the additions.
Edited == (envelope \ Deleted) \cup Added

\* Undervest::endOfMessage.  The MTA has a message to end only if it accepted a
\* recipient.
EndOfMessage ==
    /\ phase = "mail" /\ envelope # {}
    /\ envelope' = Edited
    /\ phase' = "sent"
    /\ UNCHANGED <<serverVars, flags, conf, contextVars, replies, rcpts>>

\* The context has no abort handler: the sets stay as they are.
Abort ==
    /\ phase = "mail"
    /\ phase' = "idle"
    /\ UNCHANGED <<serverVars, flags, conf, contextVars, envelope, replies, rcpts>>

\* milter::_close deletes the context; the next connection has a new one.
CloseConnection ==
    /\ phase \in {"idle", "mail", "sent"}
    /\ phase' = "start"
    /\ flags' = {}
    /\ conf' = 1
    /\ ClearContext
    /\ envelope' = {}
    /\ replies' = {}
    /\ rcpts' = 0
    /\ UNCHANGED serverVars

-----------------------------------------------------------------------------
(* The other threads, as seen from the connection *)

MayChange == changes < MaxRefresh /\ changes' = changes + 1

\* (*it).second = dom->refresh(): the data of a domain are replaced, or the
\* domain opens because they could not be.
DomainRefreshed(c, data) ==
    /\ MayChange
    /\ domain' = [domain EXCEPT ![c] = data]
    /\ UNCHANGED <<published, phase, flags, conf, contextVars, envelope, replies, rcpts>>

\* conf = newconf, in Globals::reload().
Reloaded(c) ==
    /\ MayChange
    /\ published < c
    /\ published' = c
    /\ UNCHANGED <<domain, phase, flags, conf, contextVars, envelope, replies, rcpts>>

-----------------------------------------------------------------------------

Next ==
    \/ \E offer \in Offers : Connect(offer)
    \/ EnvelopeFrom
    \/ NoMailerMacro
    \/ \E a \in Addr : RejectRecipient(a)
    \/ \E a \in Addr, args \in Args, inError \in BOOLEAN : KeepRecipient(a, args, inError)
    \/ \E a \in Addr, args \in Args, inError \in BOOLEAN : FixRecipient(a, args, inError)
    \/ EndOfMessage
    \/ Abort
    \/ CloseConnection
    \/ \E c \in Conf, data \in Data : DomainRefreshed(c, data)
    \/ \E c \in Conf : Reloaded(c)

Spec == Init /\ [][Next]_vars

-----------------------------------------------------------------------------
(* Properties *)

\* Every variable has its type.
TypeOK ==
    /\ published \in Conf
    /\ domain \in [Conf -> Data]
    /\ changes \in 0 .. MaxRefresh
    /\ phase \in {"start", "idle", "mail", "sent"}
    /\ flags \in SUBSET Flag
    /\ conf \in Conf
    /\ rejected \in SUBSET Addr
    /\ added \in [Addr -> Args \cup {Absent}]
    /\ maybe \in SUBSET Addr
    /\ envelope \in SUBSET Addr
    /\ replies \in SUBSET [addr : Addr, to : Addr, inError : BOOLEAN]
    /\ rcpts \in 0 .. MaxRcpt

Kept(r) == r.to = r.addr

\* The message reaches the recipient, as it was given or as it was guessed once.
Reached(r) == \E s \in replies : s.addr = r.addr /\ s.to \in envelope

\* Every recipient the milter accepted gets the message, itself or at the
\* address guessed for it, if the MTA offered to add recipients: also when the
\* data changed between two RCPT commands, and when an address that one command
\* deletes is one that another needs.
NoRecipientLost ==
    (phase = "sent" /\ {"ADDRCPT", "ADDRCPT_PAR"} \subseteq flags) =>
        \A r \in replies : Reached(r)

\* The same whatever the MTA offers: undervest.8 says of a single match that "it
\* is replaced by the guessed address".
NeverLost == phase = "sent" => \A r \in replies : Reached(r)

\* What the milter does to an envelope comes from the RCPT commands of the same
\* message: nothing of an aborted or an earlier message leaks into it.
NoLeakBetweenMessages ==
    phase = "sent" =>
        /\ \A a \in envelope : \E r \in replies : a \in {r.addr, r.to}
        /\ \A r \in replies : (r.addr \notin envelope /\ ~r.inError) =>
              \E s \in replies : s.addr = r.addr /\ ~Kept(s)

\* Under a configuration without autofix every recipient stays as it was given,
\* for the whole connection that began under it, whatever is loaded meanwhile.
AutofixRespected ==
    (phase = "sent" /\ ~Autofix[conf]) =>
        /\ \A r \in replies : Kept(r)
        /\ rejected = {}
=============================================================================
