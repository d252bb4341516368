------------------------- MODULE MCProviderRequests -------------------------
(***************************************************************************)
(* Constant values for checking ProviderRequests: a readable document of   *)
(* each kind, and every document that differs from one in the form of one  *)
(* field; and, for the values the parsers compare, what lies on both sides *)
(* of each boundary.                                                       *)
(***************************************************************************)
EXTENDS ProviderRequests

CONSTANTS song, small, large

MCItems == {song}
MCArtworkUrls == {small, large}

\* What a readable document has in a field.
ReadableForm(field) ==
    [object |-> "object", boolean |-> "boolean", integer |-> "integer", array |-> "array",
     creators |-> "array", text |-> "text", url |-> "url"][NeedOf(field)]

Track ==
    [form |-> [field \in PayloadFields |-> ReadableForm(field)], type |-> "track",
     playing |-> TRUE, local |-> FALSE, item |-> song, progress |-> 1, duration |-> 2,
     images |-> <<large, small>>]

OfEachKind ==
    {[Track EXCEPT !.type = type, !.playing = playing, !.local = local] :
        type \in {"track", "episode", "ad", "other"}, playing \in BOOLEAN, local \in BOOLEAN}

MCPollDocuments ==
    OfEachKind
    \cup {[document EXCEPT !.form[field] = form] :
            document \in {d \in OfEachKind : d.playing /\ ~d.local},
            field \in PayloadFields, form \in Forms}
    \cup {[Track EXCEPT !.progress = progress, !.duration = duration] :
            progress \in -1..2, duration \in -1..2}
    \cup {[Track EXCEPT !.images = images] : images \in {<<>>, <<small>>, <<small, large>>}}

Grant ==
    [form |-> [field \in TokenFields |->
                 CASE field = "$" -> "object" [] field = "expires_in" -> "integer" [] OTHER -> "text"],
     expiresIn |-> 1, invalidGrant |-> FALSE]

MCTokenDocuments ==
    {[Grant EXCEPT !.form[field] = form, !.invalidGrant = invalid] :
        field \in TokenFields, form \in Forms, invalid \in BOOLEAN}
    \cup {[Grant EXCEPT !.expiresIn = seconds] : seconds \in -1..(MaxLifetimeSeconds + 1)}

MCRetryAfters == [form : {"seconds", "other"}, seconds : {0, 2, 3}]
=============================================================================
