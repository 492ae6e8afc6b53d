-------------------------- MODULE MCInstanceDigest --------------------------
EXTENDS InstanceDigest

\* Two characters, and two node names of which one ends the other: the
\* smallest alphabet in which an id and a salted id can meet.
MCChars == {"a", "n"}
MCNodes == {<<"n">>, <<"a", "n">>}
=============================================================================
