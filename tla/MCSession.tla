----------------------------- MODULE MCSession ------------------------------
(***************************************************************************)
(* Small instances of Session for TLC.                                     *)
(***************************************************************************)
EXTENDS Session, TLC

CONSTANTS jon, john, ext     \* two similar addresses of the domain, and another's

MCAddr == {jon, john, ext}
MCNgramClose == {<<a, a>> : a \in MCAddr} \cup {<<jon, john>>}
MCWordClose == {<<john, jon>>}
MCAutofix == 1 :> FALSE @@ 2 :> TRUE

\* An MTA that offers all, one without deletion, and an old one that knows no
\* addition with parameters.
AllOffers == {Flag, Flag \ {"DELRCPT"}, {"ADDRCPT", "DELRCPT"}}
=============================================================================
