---------------------------- MODULE MCOperations ----------------------------
(* The stores and the operations beside the call path on small instances:   *)
(* one run, in which a part chosen at the start moves and the others rest.  *)
EXTENDS Operations

VARIABLE part

------------------------------------------------------------------------------
(* Instances.                                                               *)

Choice(c, s) == [capability |-> c, scope |-> s, required |-> FALSE, google |-> TRUE]
MCBaseChoices == {Choice("gmail.read", "gmail.readonly"), Choice("drive.read", "drive.readonly")}
MCExtraChoices ==
    {{Choice("scope.drive", "drive")}, {Choice("gmail.read", "mail")},
     {[Choice("scope.other", "other") EXCEPT !.google = FALSE]}}
MCGrantedBy == [s \in {"gmail.readonly", "drive.readonly", "drive"} |->
    IF s = "drive.readonly" THEN {"drive.readonly", "drive"} ELSE {s}]
MCPageBodies ==
    LET Body(k, p, s, c) == [kind |-> k, present |-> p, scopes |-> s, capabilities |-> c]
    IN  {Body("empty", FALSE, {}, {}), Body("bad", FALSE, {}, {}),
         Body("fields", TRUE, {"calendar"}, {"scope.drive", "unknown"})}


Alias(e, primary, status, signature) ==
    [email |-> e, name |-> "n", primary |-> primary, status |-> status, signature |-> signature]
MCSettingsStates ==
    {{Alias("own", TRUE, "", "s1"), Alias("alias", FALSE, "accepted", "s1")},
     {Alias("own", TRUE, "", "s2"), Alias("alias", FALSE, "pending", "s1")},
     {Alias("own", TRUE, "", "")}}
Message(subject, messageID, references) ==
    [id |-> "m1", thread |-> "th1", subject |-> subject, messageID |-> messageID, references |-> references]
MCSources == {Message("re", "<m>", <<"<r>">>), Message("re", "<m>", <<"<r>", "<m>">>), Message("re", "", <<>>),
              Message("re", "<m>", <<"bad">>), Message("other", "<m>", <<>>)}
Context(id, subject) == [id |-> id, thread |-> "th1", subject |-> subject]
MCEmailRequests ==
    LET Email(from, include, reply) ==
            [from |-> from, include |-> include, reply |-> reply, semantic |-> TRUE, subject |-> "re",
             body |-> "b", to |-> {"x"}, files |-> {}]
    IN  {Email("", TRUE, NoContext), Email("alias", FALSE, NoContext), Email("nobody", FALSE, NoContext),
         Email("", TRUE, Context("m1", "re")), Email("", FALSE, Context("m1", "")),
         [Email("", FALSE, NoContext) EXCEPT !.semantic = FALSE]}

Paragraph(text, style) == [text |-> text, style |-> style]
MCDocuments ==
    {[paragraphs |-> <<Paragraph(t1, "TITLE"), Paragraph(t2, ""), Paragraph(t1, "HEADING_1")>>] :
       t1 \in {<<>>, <<"a">>, <<"wide">>, <<"break">>}, t2 \in {<<>>, <<"wide", "wide", "a">>}}
MCPresentations ==
    {[slides |-> <<[title |-> "t", body |-> b], [title |-> "u", body |-> <<>>]>>] : b \in {<<>>, <<"l", "break">>, <<"l">>}}
MCSpreadsheets ==
    LET Cell(f) == [g \in {"text", "number", "boolean", "formula"} |-> g \in f]
    IN  {[header |-> h, rows |-> r] : h \in BOOLEAN,
           r \in {<<>>, <<<<>>>>, <<<<Cell({"text"}), Cell({})>>, <<Cell({"formula"})>>>>, <<<<Cell({"text", "formula"})>>>>}}

Part(type, file, data, external, size) ==
    [type |-> type, filename |-> file, disposition |-> "", data |-> data, external |-> external, size |-> size,
     stored |-> <<2, 1>>, markup |-> Tag \in {data[i] : i \in DOMAIN data}, decodes |-> TRUE]
MCParts ==
    {Part("text/plain", FALSE, <<1, 2>>, "", 3), Part("text/plain", FALSE, <<Tag, 3>>, "", 4),
     Part("text/html", FALSE, <<Tag, 3, 1>>, "", 5), Part("text/plain", FALSE, <<>>, "x1", 3),
     Part("text/html", FALSE, <<>>, "x1", 9), Part("image", TRUE, <<>>, "x1", 9), Part("image", TRUE, <<1>>, "", 1),
     [Part("text/plain", FALSE, <<1>>, "", 1) EXCEPT !.disposition = "attachment"],
     [Part("text/plain", FALSE, <<1>>, "", 1) EXCEPT !.decodes = FALSE], Part("multipart", FALSE, <<>>, "", 0)}
MCMessageParts == UNION {[1 .. n -> MCParts] : n \in 0 .. 2}
MCBodyLimits == 0 .. 5
MCSubjects == {<<>>, <<1, 3>>}
MCLists == {<<"m1", "">>}

\* five of the recipes in recipes.json, one of each shape
NoFacts == EmptyMap
Fact(key)             == [key |-> key, source |-> "caller", producedBy |-> "", when |-> NoFacts, optional |-> FALSE,
                          optionalWhen |-> NoFacts]
LookedUp(key, op)     == [Fact(key) EXCEPT !.source = "lookup", !.producedBy = op]
From(key)             == [from |-> "fact", key |-> key]
Does(op, kind, inputs) == [operation |-> op, kind |-> kind, skipIf |-> {}, onlyIf |-> NoFacts, onlyIfFacts |-> {},
                          produces |-> {}, inputs |-> inputs]
Looks(op, keys, inputs) == [Does(op, "lookup", inputs) EXCEPT !.skipIf = keys, !.produces = keys]
MCRecipes == [intent \in {"change_user_lifecycle", "resolve_location", "create_meeting", "run_read_query", "get_notes"} |->
    CASE intent = "change_user_lifecycle" ->
           [appliesTo |-> {"users_get", "users_patch"}, gap |-> FALSE,
            facts |-> {Fact("user_key"), Fact("lifecycle_patch")}
                      \cup {LookedUp(k, "users_get") : k \in {"user_id", "suspended", "primary_email"}},
            steps |-> <<Looks("users_get", {"user_id", "suspended", "primary_email"}, <<From("user_key")>>),
                        Does("users_patch", "write", <<From("user_id"), From("lifecycle_patch")>>)>>]
      [] intent = "resolve_location" ->
           [appliesTo |-> {"list_accounts", "list_locations"}, gap |-> TRUE,
            facts |-> {LookedUp("parent", "list_accounts")},
            steps |-> <<Looks("list_accounts", {"parent"}, <<>>),
                        Does("list_locations", "lookup", <<From("parent")>>)>>]
      [] intent = "create_meeting" ->
           [appliesTo |-> {"events_insert"}, gap |-> FALSE,
            facts |-> {Fact("calendar_id"), Fact("event"), Fact("send_updates"),
                       [Fact("time_zone") EXCEPT !.optionalWhen = [k \in {"all_day"} |-> "true"]]},
            steps |-> <<Does("events_insert", "write",
                             <<From("calendar_id"), From("send_updates"), From("event")>>)>>]
      [] intent = "run_read_query" ->
           [appliesTo |-> {"jobs_query"}, gap |-> FALSE,
            facts |-> {Fact("project_id"), Fact("query"), Fact("request_id")},
            steps |-> <<Does("jobs_query", "lookup", <<From("project_id"), From("query")>>),
                        Does("jobs_query", "write", <<From("project_id"), From("query"), From("request_id")>>)>>]
      [] intent = "get_notes" -> [appliesTo |-> {}, gap |-> TRUE, facts |-> {}, steps |-> <<>>]]
MCFactValues ==
    [key \in UNION {FactKeys(MCRecipes[i]) : i \in DOMAIN MCRecipes} |->
        IF key = "all_day" THEN {"true", "false"} ELSE IF key = "other" THEN {"v"} ELSE {"v", ""}]

operationsVars == <<pagesVars, keyringVars, mailVars, transferVars, authoringVars, searchVars, messageVars, recipeVars, part>>

MCInit == /\ part \in {"pages", "keyring", "mail", "files", "authoring", "search", "views", "recipes"}
          /\ PagesInit /\ KeyringInit /\ MailInit /\ TransferInit /\ AuthoringInit /\ SearchInit /\ MessageInit /\ RecipeInit
          /\ part # "pages"   => choices = BaseChoices \cup CHOOSE x \in ExtraChoices : ConfiguredAs(x)
          /\ part # "keyring" => ring = EmptyMap
          /\ part # "mail"    => settings = CHOOSE x \in SettingsStates : TRUE
          /\ part # "mail"    => source = CHOOSE x \in Sources : TRUE
          /\ part # "files"   => store /\ files = EmptyMap

MCNext ==
    \/ part = "pages" /\ PagesNext
       /\ UNCHANGED <<keyringVars, mailVars, transferVars, authoringVars, searchVars, messageVars, recipeVars, part>>
    \/ part = "keyring" /\ KeyringNext
       /\ UNCHANGED <<pagesVars, mailVars, transferVars, authoringVars, searchVars, messageVars, recipeVars, part>>
    \/ part = "mail" /\ MailNext
       /\ UNCHANGED <<pagesVars, keyringVars, transferVars, authoringVars, searchVars, messageVars, recipeVars, part>>
    \/ part = "files" /\ TransferNext
       /\ UNCHANGED <<pagesVars, keyringVars, mailVars, authoringVars, searchVars, messageVars, recipeVars, part>>
    \/ part = "authoring" /\ AuthoringNext
       /\ UNCHANGED <<pagesVars, keyringVars, mailVars, transferVars, searchVars, messageVars, recipeVars, part>>
    \/ part = "search" /\ SearchNext
       /\ UNCHANGED <<pagesVars, keyringVars, mailVars, transferVars, authoringVars, messageVars, recipeVars, part>>
    \/ part = "views" /\ MessageNext
       /\ UNCHANGED <<pagesVars, keyringVars, mailVars, transferVars, authoringVars, searchVars, recipeVars, part>>
    \/ part = "recipes" /\ RecipeNext
       /\ UNCHANGED <<pagesVars, keyringVars, mailVars, transferVars, authoringVars, searchVars, messageVars, part>>

MCSpec == MCInit /\ [][MCNext]_operationsVars
=============================================================================
