-------------------------- MODULE WorkflowRecipes --------------------------
(***************************************************************************)
(* Preparing a workflow (workflowguide/recipe.go, and what                 *)
(* mcpserver/capabilities.go makes of it): from the facts a caller says it *)
(* knows, the steps of a reviewed recipe that are left, where each of      *)
(* their inputs comes from, what is still to be supplied or looked up, and *)
(* whether this server and this caller can execute them.  Nothing is       *)
(* called; a caller follows the answer, so what it says must hold.         *)
(***************************************************************************)
EXTENDS Naturals, Sequences, FiniteSets, Functions, GoSlices

CONSTANTS
    Recipes,          \* of recipes.json: intent -> recipe
    FactValues,       \* FactValues[key]: what a caller may say of a fact
    MaxKnownFactKeys, \* MaxKnownFactKeys
    MaxRecipeSteps    \* MaxRecipeSteps

ASSUME RecipeBounds ==
    /\ MaxKnownFactKeys \in Nat /\ MaxRecipeSteps \in Nat
    /\ \A i \in DOMAIN Recipes : Len(Recipes[i].steps) <= MaxRecipeSteps     \* loadRecipes

\* what holds of the recipes that are compiled in (recipes.json; of the first part,
\* recipe_test.go:412): a step names declared facts, and one that a lookup is to
\* produce after that lookup, which is left whenever the step is and the fact unknown
ASSUME RecipesReviewed ==
    \A intent \in DOMAIN Recipes :
        LET recipe == Recipes[intent]
        IN  /\ recipe.steps \in Seq(Range(recipe.steps))
            /\ \A i \in DOMAIN recipe.steps : \A j \in DOMAIN recipe.steps[i].inputs :
                  LET step  == recipe.steps[i]
                      input == step.inputs[j]
                  IN  /\ input.from \in {"fact", "caller"}
                      /\ input.from = "fact" => \E f \in recipe.facts : f.key = input.key
                      /\ input.from = "fact" /\ (\E f \in recipe.facts : f.key = input.key /\ f.source = "lookup") =>
                            \E p \in 1 .. i - 1, f \in recipe.facts :
                               LET s == recipe.steps[p]
                               IN  /\ s.kind = "lookup" /\ input.key \in s.produces
                                   /\ f.key = input.key /\ f.source = "lookup" /\ f.producedBy = s.operation
                                   /\ s.skipIf = {} \/ input.key \in s.skipIf
                                   /\ s.onlyIfFacts \subseteq step.onlyIfFacts
                                   /\ \A k \in DOMAIN s.onlyIf : k \in DOMAIN step.onlyIf /\ step.onlyIf[k] = s.onlyIf[k]

VARIABLE recipeAnswer  \* the last request and what was answered

recipeVars == <<recipeAnswer>>

Untold == ""          \* a value that says nothing, an availability not yet known

(***************************************************************************)
(* Facts                                                                   *)
(***************************************************************************)

\* no more than the limit; the limits on lengths are left out
ValidateKnownFacts(facts) == Cardinality(DOMAIN facts) <= MaxKnownFactKeys
SanitizeFacts(facts)      == [key \in {k \in DOMAIN facts : facts[k] # Untold} |-> facts[key]]

WhenMatches(when, facts) == \A key \in DOMAIN when : key \in DOMAIN facts /\ facts[key] = when[key]
LookupKeys(recipe)       == {f.key : f \in {g \in recipe.facts : g.source = "lookup"}}

(***************************************************************************)
(* Steps                                                                   *)
(***************************************************************************)

OnlyIfMatches(step, facts) == WhenMatches(step.onlyIf, facts) /\ step.onlyIfFacts \subseteq DOMAIN facts

\* fault seeded in AllFactsPresent: one of the facts is enough
AnyFactPresent(facts, keys)  == keys \cap DOMAIN facts # {}
AllFactsPresent(facts, keys) == keys # {} /\ keys \subseteq DOMAIN facts

\* an input that names a fact to be looked up comes from a previous step
InputSource(recipe, input, facts) ==
    IF input.from = "fact" /\ input.key \notin DOMAIN facts /\ input.key \in LookupKeys(recipe)
    THEN [from |-> "previous_step", key |-> input.key]
    ELSE input

SelectSteps(recipe, facts) ==
    LET left == Filtered(recipe.steps,
                    {i \in DOMAIN recipe.steps : /\ OnlyIfMatches(recipe.steps[i], facts)
                                                 /\ ~AllFactsPresent(facts, recipe.steps[i].skipIf)})
    IN  [i \in DOMAIN left |->
            [operation |-> left[i].operation, kind |-> left[i].kind, availability |-> Untold,
             inputs |-> [j \in DOMAIN left[i].inputs |-> InputSource(recipe, left[i].inputs[j], facts)]]]

MissingCallerFacts(recipe, facts) ==
    {f.key : f \in {g \in recipe.facts :
                       /\ g.source # "lookup" /\ ~g.optional
                       /\ WhenMatches(g.when, facts)
                       /\ ~(DOMAIN g.optionalWhen # {} /\ WhenMatches(g.optionalWhen, facts))
                       /\ g.key \notin DOMAIN facts}}

\* lookups still to be made that produce a fact, or are named as its producer
Producers(recipe, steps, fact) ==
    {i \in DOMAIN steps :
        /\ steps[i].kind = "lookup"
        /\ \/ steps[i].operation = fact.producedBy
           \/ LET like == {j \in DOMAIN recipe.steps : recipe.steps[j].operation = steps[i].operation
                                                       /\ recipe.steps[j].kind = steps[i].kind}
                  raw  == recipe.steps[CHOOSE j \in like : \A l \in like : j <= l]
              IN  fact.key \in raw.produces}

UnresolvedLookupOutputs(recipe, steps, facts) ==
    {f.key : f \in {g \in recipe.facts :
                       g.source = "lookup" /\ g.key \notin DOMAIN facts /\ Producers(recipe, steps, g) # {}}}

\* the recipe's own keys that the caller supplied; others are not repeated to it
SuppliedKeys(recipe, facts) ==
    DOMAIN facts \cap
       ((UNION {{f.key} \cup DOMAIN f.when \cup DOMAIN f.optionalWhen : f \in recipe.facts})
        \cup (UNION {s.skipIf \cup s.produces : s \in Range(recipe.steps)}))

(***************************************************************************)
(* The answer                                                              *)
(***************************************************************************)

EmptyAnswer(status) ==
    [status |-> status, steps |-> <<>>, missing |-> {}, unresolved |-> {}, supplied |-> {}, calls |-> 0]

AppliesTo(recipe, selected) == selected \in recipe.appliesTo

\* a recipe with a gap and no step left is not available, whatever is missing
StatusOf(recipe, steps, missing) ==
    IF recipe.gap /\ steps = <<>> THEN "unavailable" ELSE IF missing # {} THEN "blocked" ELSE "ready"

Prepare(recipe, selected, known) ==
    IF ~AppliesTo(recipe, selected) THEN EmptyAnswer("not_applicable")
    ELSE LET facts   == SanitizeFacts(known)
             steps   == SelectSteps(recipe, facts)
             missing == MissingCallerFacts(recipe, facts)
         IN  [status |-> StatusOf(recipe, steps, missing), steps |-> steps, missing |-> missing,
              unresolved |-> UnresolvedLookupOutputs(recipe, steps, facts),
              supplied |-> SuppliedKeys(recipe, facts), calls |-> Len(steps)]

\* what stands against executing a step on this server, for this caller
Availability(step, server) ==
    IF step.operation \notin server.registered THEN "not_registered"
    ELSE IF step.operation \in server.writing /\ ~server.writes THEN "write_disabled"
    ELSE IF step.operation \notin server.granted THEN "missing_grant"
    ELSE "executable"

\* a step that cannot be executed loses its inputs, and the whole its status
GatePreparation(answer, server) ==
    LET gated == [i \in DOMAIN answer.steps |->
                    LET a == Availability(answer.steps[i], server)
                    IN  [answer.steps[i] EXCEPT !.availability = a,
                           !.inputs = IF a = "executable" THEN @ ELSE <<>>]]
        unavailable == \E i \in DOMAIN gated : gated[i].availability # "executable"
    IN  [answer EXCEPT !.steps = gated, !.status = IF unavailable THEN "unavailable" ELSE @]

\* an answer that would be too long is replaced by one without steps
BoundPreparation(answer, tooLong) == IF tooLong THEN EmptyAnswer("unavailable") ELSE answer

PrepareDescribeRecipe(intent, selected, known, server, tooLong) ==
    /\ ValidateKnownFacts(known)
    /\ recipeAnswer' = {[recipe |-> Recipes[intent], selected |-> selected, known |-> known, server |-> server,
                         answer |-> BoundPreparation(
                                       GatePreparation(Prepare(Recipes[intent], selected, known), server),
                                       tooLong)]}

(***************************************************************************)
(* Requests                                                                *)
(***************************************************************************)

RecipeOperations(recipe) == {s.operation : s \in Range(recipe.steps)} \cup recipe.appliesTo
Writing(recipe)          == {s.operation : s \in {t \in Range(recipe.steps) : t.kind = "write"}}
FactKeys(recipe)         ==
    (UNION {{f.key} \cup DOMAIN f.when \cup DOMAIN f.optionalWhen : f \in recipe.facts})
        \cup {"other"}

\* a caller names facts of the recipe or others, and an operation it may discover; a
\* server has some of the operations registered, and grants the caller some of those
RecipeInit == recipeAnswer = {}

RecipeNext ==
    /\ recipeAnswer = {}
    /\ \E intent \in DOMAIN Recipes :
         LET recipe == Recipes[intent]
         IN  \E keys \in SUBSET FactKeys(recipe), writes \in BOOLEAN, tooLong \in BOOLEAN,
                registered \in SUBSET RecipeOperations(recipe) :
               \E granted \in SUBSET registered : \E selected \in granted \cup {"other"},
                  known \in {f \in [keys -> UNION {FactValues[k] : k \in keys}] : \A k \in keys : f[k] \in FactValues[k]} :
                  PrepareDescribeRecipe(intent, selected, known,
                      [registered |-> registered, writing |-> Writing(recipe), writes |-> writes, granted |-> granted],
                      tooLong)

(***************************************************************************)
(* Properties                                                              *)
(***************************************************************************)

\* Of an answer, a caller may rely on this: a step said to come before produces
\* the input that is said to come from it, and that input is listed as
\* unresolved; an input that names a fact the caller did not give is one it was
\* told is missing, or may leave out; "ready" means that nothing is missing and
\* every step is executable here, and a write is never executable where writes are
\* off (recipe.go:185 Prepare, :563 inputSource; capabilities.go:433).
AnswerHonest(q) ==
    LET a        == q.answer
        given    == {k \in DOMAIN q.known : q.known[k] # Untold}
        optional == {f.key : f \in {g \in q.recipe.facts : g.optional \/ DOMAIN g.when # {}
                                                                   \/ DOMAIN g.optionalWhen # {}}}
    IN  /\ \A i \in DOMAIN a.steps : \A j \in DOMAIN a.steps[i].inputs :
              LET input == a.steps[i].inputs[j]
              IN  /\ input.from = "previous_step" =>
                        /\ input.key \in a.unresolved
                        /\ \E p \in 1 .. i - 1, s \in Range(q.recipe.steps) :
                              /\ s.operation = a.steps[p].operation /\ s.kind = a.steps[p].kind
                              /\ input.key \in s.produces
                  /\ input.from = "fact" => input.key \in given \cup a.missing \cup optional
        /\ a.status = "ready" =>
              /\ a.missing = {} /\ q.selected \in q.recipe.appliesTo
              /\ \A i \in DOMAIN a.steps :
                    /\ a.steps[i].operation \in q.server.registered \cap q.server.granted
                    /\ a.steps[i].kind = "write" => q.server.writes
        /\ a.missing \cap given = {} /\ a.unresolved \cap given = {}
        /\ a.supplied \subseteq given
RecipeHonest == \A q \in recipeAnswer : AnswerHonest(q)
=============================================================================
