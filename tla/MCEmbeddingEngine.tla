-------------------------- MODULE MCEmbeddingEngine --------------------------
(* EmbeddingEngine on small instances.                                     *)
EXTENDS EmbeddingEngine

(* One batch and two, and results of three sizes: a cache of two bytes     *)
(* holds both results of one, makes room for that of two, and refuses the  *)
(* result of three.                                                        *)
Plain ==
    {<< <<"a">> >>, << <<"b">> >>, << <<"a">>, <<"b">> >>, << <<"b">>, <<"a">>, <<"c">> >>}

(* Two texts, and one with the joiner between them.                        *)
Joined == {<< <<"a">>, <<"b">> >>, << <<"a", "soh", "b">> >>}

PlainKeys == {<<"a">>, <<"b">>, <<"a", "soh", "b">>, <<"b", "soh", "a", "soh", "c">>}
JoinedKeys == {<<"a", "soh", "b">>}

=============================================================================
