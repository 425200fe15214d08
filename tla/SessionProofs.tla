--------------------------- MODULE SessionProofs ----------------------------
(***************************************************************************)
(* Proofs about Session, for any addresses, similarities, configurations   *)
(* and MTAs.                                                               *)
(***************************************************************************)
EXTENDS Session, TLAPS

\* What the RCPT commands of the message have made of the sets of the context and
\* of the envelope, until the end of the message.
Bookkeeping ==
    /\ envelope = {a \in Addr : \E r \in replies : r.addr = a /\ ~r.inError}
    /\ \A a \in rejected : \E r \in replies : r.addr = a /\ ~Kept(r)
    /\ \A a \in Addr : added[a] # Absent => \E r \in replies : r.to = a
    /\ \A r \in replies : r.inError \/ ~Kept(r) => added[r.to] # Absent

\* Without autofix nothing is fixed, neither before the end of the message nor after.
NothingFixed == ~Autofix[conf] => rejected = {} /\ \A r \in replies : Kept(r)

IInv ==
    /\ TypeOK
    /\ phase = "mail" => Bookkeeping
    /\ phase \in {"mail", "sent"} => NothingFixed
    /\ NoRecipientLost
    /\ NoLeakBetweenMessages

Answers == [addr : Addr, to : Addr, inError : BOOLEAN]

-----------------------------------------------------------------------------

\* The answer is an address of the domain, the given one, or NoAddr.
LEMMA RecipientType ==
  ASSUME TypeOK, NEW a \in Addr, NEW c \in Conf
  PROVE  Recipient(a, c) \in Addr \cup {NoAddr}
<1>1. domain[c].recipients \subseteq Addr
  BY DEF TypeOK, Data
<1>2. ASSUME NEW rs \in SUBSET Addr PROVE Match(a, rs) \in Addr \cup {NoAddr}
  <2> DEFINE ngram == Close(a, NgramClose, rs)
             word == Close(a, WordClose, rs)
             best == IF ngram # {} THEN ngram ELSE word
  <2>1. best \subseteq Addr
    BY DEF Close
  <2>2. best # {} => (CHOOSE b \in best : TRUE) \in best
    OBVIOUS
  <2> QED BY <2>1, <2>2 DEF Match
<1> QED BY <1>1, <1>2 DEF Recipient, DomainRecipient

LEMMA EmplaceType ==
  ASSUME TypeOK, NEW a \in Addr, NEW args \in Args, Emplace(a, args)
  PROVE  /\ added' \in [Addr -> Args \cup {Absent}]
         /\ added'[a] # Absent
         /\ \A b \in Addr : b # a => added'[b] = added[b]
         /\ \A b \in Addr : added[b] # Absent => added'[b] # Absent
  BY DEF TypeOK, Emplace, Args, Absent

LEMMA ReplyType ==
  ASSUME NEW a \in Addr, NEW to \in Addr, NEW inError \in BOOLEAN
  PROVE  /\ Reply(a, to, inError) \in Answers
         /\ Reply(a, to, inError).addr = a
         /\ Reply(a, to, inError).to = to
         /\ Reply(a, to, inError).inError = inError
<1>1. Reply(a, to, inError) \in Answers
  BY Zenon DEF Reply, Answers
<1>2. Reply(a, to, inError).inError = inError
  BY Zenon DEF Reply
<1> QED BY <1>1, <1>2 DEF Reply

LEMMA InitInv == Init => IInv
  BY SessionAssumption DEF SessionAssumption, Init, IInv, TypeOK, Absent, NoRecipientLost,
     NoLeakBetweenMessages

LEMMA ConnectInv == ASSUME IInv, NEW offer \in Offers, Connect(offer) PROVE IInv'
  BY DEF IInv, Connect, Negotiated, serverVars, contextVars, TypeOK, Flag, NoRecipientLost,
     NoLeakBetweenMessages

LEMMA EnvelopeFromInv == ASSUME IInv, EnvelopeFrom PROVE IInv'
<1> USE DEF IInv, EnvelopeFrom, ClearContext, serverVars
<1>1. TypeOK'
  BY SessionAssumption DEF SessionAssumption, TypeOK
<1>2. Bookkeeping' /\ NothingFixed'
  BY DEF Bookkeeping, NothingFixed
<1> QED BY <1>1, <1>2 DEF NoRecipientLost, NoLeakBetweenMessages

LEMMA SilentRcptInv ==
  ASSUME IInv, RcptCommand, UNCHANGED <<contextVars, envelope, replies>>
  PROVE  IInv'
<1> USE DEF IInv, RcptCommand, serverVars, contextVars
<1>1. TypeOK'
  BY SessionAssumption DEF SessionAssumption, TypeOK
<1>2. Bookkeeping' /\ NothingFixed'
  BY DEF Bookkeeping, NothingFixed, Kept
<1> QED BY <1>1, <1>2 DEF NoRecipientLost, NoLeakBetweenMessages

LEMMA KeepRecipientInv ==
  ASSUME IInv, NEW a \in Addr, NEW args \in Args, NEW inError \in BOOLEAN,
         KeepRecipient(a, args, inError)
  PROVE  IInv'
<1> USE DEF IInv
<1>1. /\ phase = "mail" /\ UNCHANGED <<serverVars, phase, flags, conf, rejected>>
      /\ rcpts' \in 0 .. MaxRcpt
  BY SessionAssumption DEF SessionAssumption, KeepRecipient, RcptCommand, TypeOK
<1>2. PICK r \in Answers : /\ r = Reply(a, a, inError)
                           /\ r.addr = a /\ r.to = a /\ r.inError = inError
  BY ReplyType
<1>3. replies' = replies \cup {r} /\ Kept(r)
  BY <1>2 DEF KeepRecipient, Kept
<1>4. maybe' \in SUBSET Addr
  BY <1>1, RecipientType DEF KeepRecipient, Unknown, TypeOK
<1>5. /\ added' \in [Addr -> Args \cup {Absent}]
      /\ \A b \in Addr : b # a => added'[b] = added[b]
      /\ \A b \in Addr : added[b] # Absent => added'[b] # Absent
      /\ r.inError => added'[a] # Absent
  <2>1. CASE inError
    BY <1>2, <2>1, EmplaceType DEF KeepRecipient
  <2>2. CASE ~inError
    BY <1>2, <2>2 DEF KeepRecipient, TypeOK
  <2> QED BY <2>1, <2>2
<1>6. envelope' = IF r.inError THEN envelope ELSE envelope \cup {a}
  BY <1>2 DEF KeepRecipient
<1>7. TypeOK'
  BY <1>1, <1>3, <1>4, <1>5, <1>6 DEF TypeOK, serverVars, Answers
<1>8. Bookkeeping'
  <2>1. envelope' = {b \in Addr : \E s \in replies' : s.addr = b /\ ~s.inError}
    BY <1>1, <1>2, <1>3, <1>6 DEF Bookkeeping
  <2>2. \A b \in rejected' : \E s \in replies' : s.addr = b /\ ~Kept(s)
    BY <1>1, <1>3 DEF Bookkeeping
  <2>3. \A b \in Addr : added'[b] # Absent => \E s \in replies' : s.to = b
    BY <1>1, <1>2, <1>3, <1>5 DEF Bookkeeping
  <2>4. \A s \in replies' : s.inError \/ ~Kept(s) => added'[s.to] # Absent
    BY <1>1, <1>2, <1>3, <1>5 DEF Bookkeeping, TypeOK
  <2> QED BY <2>1, <2>2, <2>3, <2>4 DEF Bookkeeping, Kept
<1>9. NothingFixed'
  BY <1>1, <1>3 DEF NothingFixed, Kept
<1> QED BY <1>1, <1>7, <1>8, <1>9 DEF NoRecipientLost, NoLeakBetweenMessages

LEMMA FixRecipientInv ==
  ASSUME IInv, NEW a \in Addr, NEW args \in Args, NEW inError \in BOOLEAN,
         FixRecipient(a, args, inError)
  PROVE  IInv'
<1> USE DEF IInv
<1>1. /\ phase = "mail" /\ UNCHANGED <<serverVars, phase, flags, conf, maybe>>
      /\ rcpts' \in 0 .. MaxRcpt /\ conf \in Conf
  BY SessionAssumption DEF SessionAssumption, FixRecipient, RcptCommand, TypeOK
<1>2. PICK to \in Addr : to = Recipient(a, conf)
  BY <1>1, RecipientType DEF FixRecipient, Unknown
<1>3. Emplace(to, args) /\ to # a /\ Autofix[conf]
  BY <1>2 DEF FixRecipient, KeepsAddress, FixIt
<1>4. PICK r \in Answers : /\ r = Reply(a, to, inError)
                           /\ r.addr = a /\ r.to = to /\ r.inError = inError
  BY ReplyType
<1>5. /\ replies' = replies \cup {r} /\ ~Kept(r)
      /\ rejected' = rejected \cup {a}
      /\ envelope' = IF r.inError THEN envelope ELSE envelope \cup {a}
  BY <1>2, <1>3, <1>4 DEF FixRecipient, Kept
<1>6. /\ added' \in [Addr -> Args \cup {Absent}]
      /\ added'[to] # Absent
      /\ \A b \in Addr : b # to => added'[b] = added[b]
      /\ \A b \in Addr : added[b] # Absent => added'[b] # Absent
  BY <1>3, EmplaceType
<1>7. TypeOK'
  BY <1>1, <1>5, <1>6 DEF TypeOK, serverVars, Answers
<1>8. Bookkeeping'
  <2>1. envelope' = {b \in Addr : \E s \in replies' : s.addr = b /\ ~s.inError}
    BY <1>1, <1>4, <1>5 DEF Bookkeeping
  <2>2. \A b \in rejected' : \E s \in replies' : s.addr = b /\ ~Kept(s)
    BY <1>1, <1>4, <1>5 DEF Bookkeeping
  <2>3. \A b \in Addr : added'[b] # Absent => \E s \in replies' : s.to = b
    BY <1>1, <1>4, <1>5, <1>6 DEF Bookkeeping
  <2>4. \A s \in replies' : s.inError \/ ~Kept(s) => added'[s.to] # Absent
    BY <1>1, <1>4, <1>5, <1>6 DEF Bookkeeping, TypeOK
  <2> QED BY <2>1, <2>2, <2>3, <2>4 DEF Bookkeeping, Kept
<1>9. NothingFixed'
  BY <1>1, <1>3 DEF NothingFixed
<1> QED BY <1>1, <1>7, <1>8, <1>9 DEF NoRecipientLost, NoLeakBetweenMessages

\* An address that one command deletes and another needs is added again, or its
\* message goes to the address that was guessed for it.
LEMMA EndOfMessageInv == ASSUME IInv, EndOfMessage PROVE IInv'
<1> USE DEF IInv
<1>1. /\ Bookkeeping
      /\ envelope' = (envelope \ Deleted) \cup Added
      /\ phase' = "sent"
      /\ UNCHANGED <<serverVars, flags, conf, contextVars, replies, rcpts>>
  BY DEF EndOfMessage, Edited
<1>2. Deleted \subseteq rejected /\ Added \subseteq Addr /\ \A a \in Added : added[a] # Absent
  BY DEF Deleted, Added
<1>3. TypeOK'
  BY <1>1, <1>2 DEF TypeOK, serverVars, contextVars
<1>4. NoRecipientLost'
  <2> SUFFICES ASSUME {"ADDRCPT", "ADDRCPT_PAR"} \subseteq flags, NEW r \in replies
               PROVE  \E s \in replies : s.addr = r.addr /\ s.to \in envelope'
    BY <1>1 DEF NoRecipientLost, Reached
  <2>1. ASSUME NEW a \in Addr, added[a] # Absent PROVE a \in envelope'
    BY <1>1, <2>1 DEF Added, Allows
  <2>2. r.addr \in Addr /\ r.to \in Addr
    BY DEF TypeOK
  <2>3. CASE r.inError \/ ~Kept(r)
    BY <1>1, <2>1, <2>2, <2>3 DEF Bookkeeping
  <2>4. CASE ~r.inError /\ Kept(r) /\ r.addr \notin rejected
    <3>1. r.addr \in envelope
      BY <1>1, <2>2, <2>4 DEF Bookkeeping
    <3> QED BY <1>1, <1>2, <2>4, <3>1 DEF Kept
  <2>5. CASE r.addr \in rejected
    <3>1. PICK s \in replies : s.addr = r.addr /\ ~Kept(s)
      BY <1>1, <2>5 DEF Bookkeeping
    <3>2. s.to \in Addr /\ added[s.to] # Absent
      BY <1>1, <3>1 DEF Bookkeeping, TypeOK
    <3> QED BY <2>1, <3>1, <3>2
  <2> QED BY <2>3, <2>4, <2>5
<1>5. NoLeakBetweenMessages'
  <2>1. ASSUME NEW a \in envelope' PROVE \E r \in replies : a \in {r.addr, r.to}
    <3>1. CASE a \in envelope
      BY <1>1, <3>1 DEF Bookkeeping
    <3>2. CASE a \in Added
      BY <1>1, <1>2, <3>2 DEF Bookkeeping
    <3> QED BY <1>1, <3>1, <3>2
  <2>2. ASSUME NEW r \in replies, r.addr \notin envelope', ~r.inError
        PROVE  \E s \in replies : s.addr = r.addr /\ ~Kept(s)
    <3>1. r.addr \in envelope
      BY <1>1, <2>2 DEF Bookkeeping, TypeOK
    <3>2. r.addr \in rejected
      BY <1>1, <1>2, <2>2, <3>1
    <3> QED BY <1>1, <3>2 DEF Bookkeeping
  <2> QED BY <1>1, <2>1, <2>2 DEF NoLeakBetweenMessages, Kept
<1>6. NothingFixed'
  BY <1>1 DEF NothingFixed, contextVars, EndOfMessage, Kept
<1> QED BY <1>1, <1>3, <1>4, <1>5, <1>6

LEMMA AbortInv == ASSUME IInv, Abort PROVE IInv'
  BY DEF IInv, Abort, serverVars, contextVars, TypeOK, NoRecipientLost, NoLeakBetweenMessages

LEMMA CloseInv == ASSUME IInv, CloseConnection PROVE IInv'
<1>1. TypeOK'
  BY SessionAssumption DEF SessionAssumption, IInv, CloseConnection, ClearContext, serverVars,
     TypeOK, Absent
<1> QED BY <1>1 DEF IInv, CloseConnection, NoRecipientLost, NoLeakBetweenMessages

\* The other threads do not touch the context: a step that leaves it alone, with
\* the envelope and the history, changes nothing but the server's data.
LEMMA ServerStepInv ==
  ASSUME IInv, TypeOK', UNCHANGED <<phase, flags, conf, contextVars, envelope, replies, rcpts>>
  PROVE  IInv'
<1> USE DEF contextVars
<1>1. Bookkeeping => Bookkeeping'
  BY DEF Bookkeeping, Kept
<1>2. NothingFixed => NothingFixed'
  BY DEF NothingFixed, Kept
<1>3. NoRecipientLost => NoRecipientLost'
  BY DEF NoRecipientLost, Reached
<1>4. NoLeakBetweenMessages => NoLeakBetweenMessages'
  BY DEF NoLeakBetweenMessages, Kept
<1> QED BY <1>1, <1>2, <1>3, <1>4 DEF IInv

LEMMA ChangeType == ASSUME TypeOK, MayChange PROVE changes' \in 0 .. MaxRefresh
  BY SessionAssumption DEF SessionAssumption, TypeOK, MayChange

LEMMA StepInv == IInv /\ [Next]_vars => IInv'
<1> SUFFICES ASSUME IInv, [Next]_vars PROVE IInv'
  OBVIOUS
<1>1. ASSUME NEW offer \in Offers, Connect(offer) PROVE IInv'
  BY <1>1, ConnectInv
<1>2. CASE EnvelopeFrom
  BY <1>2, EnvelopeFromInv
<1>3. CASE NoMailerMacro
  BY <1>3, SilentRcptInv DEF NoMailerMacro
<1>4. ASSUME NEW a \in Addr, RejectRecipient(a) PROVE IInv'
  BY <1>4, SilentRcptInv DEF RejectRecipient
<1>5. ASSUME NEW a \in Addr, NEW args \in Args, NEW inError \in BOOLEAN,
             KeepRecipient(a, args, inError)
      PROVE  IInv'
  BY <1>5, KeepRecipientInv
<1>6. ASSUME NEW a \in Addr, NEW args \in Args, NEW inError \in BOOLEAN,
             FixRecipient(a, args, inError)
      PROVE  IInv'
  BY <1>6, FixRecipientInv
<1>7. CASE EndOfMessage
  BY <1>7, EndOfMessageInv
<1>8. CASE Abort
  BY <1>8, AbortInv
<1>9. CASE CloseConnection
  BY <1>9, CloseInv
<1>10. ASSUME NEW c \in Conf, NEW data \in Data, DomainRefreshed(c, data) PROVE IInv'
  <2>1. TypeOK'
    BY <1>10, ChangeType DEF IInv, DomainRefreshed, TypeOK, contextVars
  <2> QED BY <1>10, <2>1, ServerStepInv DEF DomainRefreshed
<1>11. ASSUME NEW c \in Conf, Reloaded(c) PROVE IInv'
  <2>1. TypeOK'
    BY <1>11, ChangeType DEF IInv, Reloaded, TypeOK, contextVars
  <2> QED BY <1>11, <2>1, ServerStepInv DEF Reloaded
<1>12. CASE UNCHANGED vars
  <2>1. TypeOK'
    BY <1>12 DEF IInv, vars, serverVars, contextVars, TypeOK
  <2> QED BY <1>12, <2>1, ServerStepInv DEF vars, contextVars
<1> QED BY <1>1, <1>2, <1>3, <1>4, <1>5, <1>6, <1>7, <1>8, <1>9, <1>10, <1>11, <1>12 DEF Next

LEMMA Invariance == Spec => []IInv
  BY InitInv, StepInv, PTL DEF Spec

-----------------------------------------------------------------------------

\* The types of Session hold in every reachable state.
THEOREM Typing == Spec => []TypeOK
  BY Invariance, PTL DEF IInv

\* With an MTA that offers additions, every accepted recipient gets the message,
\* whatever the similarities and however the data change within the message.
THEOREM RecipientsKept == Spec => []NoRecipientLost
  BY Invariance, PTL DEF IInv

\* The sets of the context never carry anything from one message to another,
\* though no handler clears them on an abort.
THEOREM NoLeak == Spec => []NoLeakBetweenMessages
  BY Invariance, PTL DEF IInv

\* Without autofix no recipient is replaced, whatever is loaded meanwhile.
THEOREM AutofixHonoured == Spec => []AutofixRespected
<1>1. IInv => AutofixRespected
  BY DEF IInv, NothingFixed, AutofixRespected, Kept
<1> QED BY <1>1, Invariance, PTL
=============================================================================
