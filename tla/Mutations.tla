----------------------------- MODULE Mutations -----------------------------
(***************************************************************************)
(* What the pages share: one page on display, and the useMutation objects  *)
(* its forms and buttons call.  An object reports the answer of its newest *)
(* call only, and only while its page is on display: the callbacks that    *)
(* mutate() was given for an older call, or before the page was left, are  *)
(* dropped.  (The hooks' own onSuccess always runs; see QueryCache.)  A    *)
(* call that nobody hears any more changes nothing here, so `pending`      *)
(* holds the others: it is isPending of each object.                       *)
(***************************************************************************)
EXTENDS Naturals, Sequences, SequencesExt

CONSTANTS
    Pages,   \* the pages the user may visit
    Texts,   \* what may be typed into a text field, trimmed; the fields' defaults apart
    Blank,   \* nothing but white space
    None     \* null, undefined

ASSUME TextAssumption == Blank \in Texts /\ None \notin Texts

VARIABLES
    page,     \* the page on display
    pending,  \* the hooks whose newest call is under way
    sent      \* the request that the last step sent, None if it sent none

mutationVars == <<page, pending, sent>>

MutationsInit ==
    /\ page \in Pages
    /\ pending = {}
    /\ sent = None

\* `text.trim() || undefined`
OrUndefined(text) == IF text = Blank THEN None ELSE text

\* mutate(variables, { onSuccess, onError })
Mutate(request) ==
    /\ pending' = pending \cup {request.hook}
    /\ sent' = request
    /\ page' = page

\* The newest call of h is answered: its callbacks run.
Hear(h) ==
    /\ h \in pending
    /\ pending' = pending \ {h}
    /\ sent' = None
    /\ page' = page

\* The user works on a form.
Quietly ==
    /\ sent' = None
    /\ UNCHANGED <<page, pending>>

\* Mutant of Leave: the mutation objects outlive their page.
LeavePending(p) ==
    /\ p # page
    /\ page' = p
    /\ sent' = None
    /\ UNCHANGED pending

\* Another route: the page is unmounted with its mutation objects.
Leave(p) ==
    /\ p # page
    /\ page' = p
    /\ pending' = {}
    /\ sent' = None
=============================================================================
