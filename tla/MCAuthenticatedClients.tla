------------------------ MODULE MCAuthenticatedClients ------------------------
(* Small instances of AuthenticatedClients for TLC.                        *)
EXTENDS AuthenticatedClients

Page(text, inputs) == [text |-> text, inputs |-> inputs]

(* A page whose text ends after escaping, with a form; one on which the    *)
(* loop does not end, behind an entity; one whose form is empty.           *)
GoodPages    == {Page(<<"semi", "amp", "char">>, 2)}
EndlessPages == {Page(<<"entity", "amp", "semi">>, 1)}
EmptyForms   == {Page(<<"entity">>, 0)}
AllPages     == GoodPages \cup EndlessPages \cup EmptyForms
=============================================================================
