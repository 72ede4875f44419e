---------------------------- MODULE HtmlEditorMC ----------------------------
EXTENDS HtmlEditor

\* A word across two formats before a picture; one word in a paragraph and its end in the next.
mcPasted == {<<Para(Typed(<<"a">>, FALSE) \o Typed(<<"b">>, TRUE)), Photo>>,
             <<Para(Typed(<<"a", "b">>, FALSE)), Para(Typed(<<"b">>, FALSE))>>}
mcWord == {<< >>, <<"a">>, <<"a", "b">>}
mcReplacing == {<< >>, <<"a", "a">>}
=============================================================================
