----------------------------- MODULE MCEventFilter -----------------------------
(* Short paths and patterns of few characters, in every spelling. *)
EXTENDS EventFilter

MCChar == STRING
MCUpper == {"A", "SRV", "LanManRedirector", "Mup", "Device"}
MCLowered == [c \in MCUpper |->
  CASE c = "A" -> "a" [] c = "SRV" -> "srv" [] c = "Mup" -> "mup"
    [] c = "Device" -> "device" [] OTHER -> "lanmanredirector"]

Sources == {<<Sep, Sep, "SRV", Sep, "t">>, <<"/", "/", "srv", "/", "t", "/">>, <<"t">>}

Shares == {<<"srv", Sep, "t">>, <<"SRV", "/", "t">>, <<"srv", Sep, "u">>}

Relatives ==
  {<<>>, <<"a">>, <<"A", "b">>, <<"a", "a", "b">>, <<"a", "b", "a", "b">>,
   <<"b", Sep, "a">>, <<"a", "/", "a", "b">>, <<"b", Sep, Sep, "a", "a">>, <<"a", " ", "b">>}

Under(root) == {root \o <<Sep>> \o r : r \in Relatives}

Paths ==
  UNION {Under(head \o share) :
    head \in {<<Sep, Sep>>, <<Sep, "Device", Sep, "Mup", Sep>>,
              <<Sep, "device", Sep, "LanManRedirector", Sep, ";", "N", Sep>>},
    share \in Shares}
  \cup {<<"a">>, <<Sep, "Device", Sep, "Disk", Sep, "srv", Sep, "t">>,
        <<Sep, "Device", Sep, "Mup", Sep, ";", "N", Sep, "srv">>}

Patterns ==
  BoundedSeq({"a", "b", "*", "?"}, 4)
  \cup {<<"*", "a", "*", "b">>, <<"*", "a", "b", "a">>, <<"A", "*", "b", "?">>,
        <<"b", Sep, "*">>, <<"b", ",", "a">>, <<" ", "a", "?", ";", ";", "*", "b", " ">>,
        <<",", "?", " ", ";", "A">>, <<" ", "a", " ", "b">>}

Programs == {<<>>, <<"?", ",", "a", "a">>, <<"b", "*", "A">>, <<";", "*">>}
Requestors == {<<>>, <<"b", Sep, "A">>, <<"a", "a">>}

Ask(source, text, programs, observed, requestor, directory) ==
  [source |-> source, text |-> text, programs |-> programs,
   observed |-> observed, requestor |-> requestor, directory |-> directory]

(* Every spelling of every path; every pattern list against every path;    *)
(* every list of programs against every process.                           *)
Share == <<Sep, Sep, "srv", Sep, "t">>
MCInputs ==
  {Ask(s, <<"b">>, <<>>, o, <<>>, FALSE) : s \in Sources, o \in Paths}
  \cup {Ask(Share, t, <<>>, o, <<"a">>, d) : t \in Patterns, o \in Under(Share), d \in BOOLEAN}
  \cup {Ask(Share, t, p, o, r, d) : t \in {<<>>, <<"b">>}, p \in Programs,
           o \in Under(Share), r \in Requestors, d \in BOOLEAN}
=============================================================================
