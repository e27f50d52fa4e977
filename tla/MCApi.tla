------------------------------- MODULE MCApi -------------------------------
(***************************************************************************)
(* Api on a small instance: responses whose headers have parts of each     *)
(* other's names, in one fragment or in several.                           *)
(***************************************************************************)
EXTENDS Api

MCContentType == <<"Content", "-Type">>
MCJson        == <<"json">>
MCJsonTexts   == {<<"{", "}">>}
MCKinds       == {"sync", "join", "uploadFile", "download"}

Hdr(name, value) == [name |-> name, value |-> value]

\* Content-Type in one piece and in two; a value in two pieces; a header whose
\* name ends where the other begins, with no value.
JsonType  == Hdr(<<MCContentType>>, <<MCJson>>)
JsonSplit == Hdr(<< <<"Content">>, <<"-Type">> >>, << << >>, MCJson>>)
HtmlType  == Hdr(<<MCContentType>>, << <<"text">>, <<"html">> >>)
Partial   == Hdr(<< <<"Content">> >>, << << >> >>)
Suffix    == Hdr(<< <<"-Type">> >>, <<MCJson>>)

HeaderLists ==
  {<< >>, <<JsonType>>, <<JsonSplit, Partial>>, <<HtmlType, JsonSplit>>,
   <<JsonType, HtmlType>>, <<Partial, Suffix>>}

Bodies == {<< >>, << <<"{", "}">> >>, << <<"{">>, <<"}">> >>}

\* Every division of a good response; trailers with a Content-Type that the code
\* takes and one that it does not; refusals in one piece; and short ones.
MCResponses ==
  [code : {200}, headers : HeaderLists, body : Bodies,
   trailers : {<< >>, <<Suffix, Partial>>}, ends : {"whole"}]
  \cup [code : {200}, headers : {<<HtmlType>>}, body : {<< >>, << <<"{", "}">> >>},
        trailers : {<<JsonType, Partial>>, <<Partial, JsonType>>}, ends : {"whole"}]
  \cup [code : {403, 429, 500, 502}, headers : {<<JsonType>>, <<HtmlType>>},
        body : {<< >>, << <<"{", "}">> >>}, trailers : {<< >>}, ends : {"whole"}]
  \cup [code : {200}, headers : HeaderLists, body : Bodies,
        trailers : {<< >>}, ends : {"short"}]
  \cup [code : {403}, headers : {<<HtmlType>>}, body : {<< >>},
        trailers : {<< >>}, ends : {"short"}]
=============================================================================
