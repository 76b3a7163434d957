------------------------------ MODULE UserInput ------------------------------
(***************************************************************************)
(* UserInputCard.tsx: the model asks the user one question or a batch; the *)
(* card steps through it, keeps an answer per question and posts them all  *)
(* at the end.  Only the question on the card is being edited: an answer   *)
(* is built from the edit when it is left and the edit is derived from the *)
(* answer when it is entered again.  An answer is an array of labels: the  *)
(* ticked ones in the order they were ticked, which the edit keeps, and    *)
(* the typed one; it is modelled by the labels it has and the one it has   *)
(* twice.                                                                  *)
(***************************************************************************)
EXTENDS Naturals, Sequences

CONSTANTS
    Options,    \* labels every question offers
    Typed,      \* what may be typed; a label may be typed too
    Blank,      \* nothing typed
    Other,      \* OTHER_SENTINEL
    MaxEdits    \* edits and posts

ASSUME OtherAssumption == Other \notin Options /\ Other # Blank

\* the batches asked
Batches == {<<"text">>, <<"single", "multiple">>, <<"multiple", "text", "single">>}

VARIABLES
    questions,   \* the mode of each question
    step, answers, edit,
    cardState,   \* "open", "posting", "skipping" or "closed"
    edited,      \* the question was edited since it was entered
    edits

inputVars == <<questions, step, answers, edit, cardState, edited, edits>>

Declined == [declined |-> TRUE, selected |-> {}, twice |-> {}, text |-> Blank]
Answer(chosen, again, typed) ==
    [declined |-> FALSE, selected |-> chosen, twice |-> again, text |-> typed]

\* one is the radio chosen (Blank: none), many the boxes, other the box of
\* the own answer, free the text typed
EmptyAnswer == [one |-> Blank, many |-> {}, other |-> FALSE, free |-> Blank]

OwnText(s) == IF s.free = Blank THEN {} ELSE {s.free}

\* a label both ticked and typed is posted twice
BuildAnswer(mode, s) ==
    LET own == IF s.other THEN OwnText(s) ELSE {} IN
    CASE mode = "text" -> Answer({}, {}, s.free)
      [] mode = "single" -> Answer(CASE s.one = Other -> {s.free}
                                     [] s.one = Blank -> {}
                                     [] OTHER -> {s.one}, {}, Blank)
      [] mode = "multiple" -> Answer(s.many \cup own, s.many \cap own, Blank)

AnswerReady(mode, s) ==
    CASE mode = "text" -> s.free # Blank
      [] mode = "single" -> s.one # Blank /\ (s.one = Other => s.free # Blank)
      [] mode = "multiple" -> s.many # {} \/ (s.other /\ s.free # Blank)

\* Mutant: only labels that are offered are restored.
OfferedOnly(mode, a) ==
    CASE mode = "text" -> [EmptyAnswer EXCEPT !.free = a.text]
      [] mode = "single" -> [EmptyAnswer EXCEPT !.one = IF a.selected \cap Options = {} THEN Blank
                                                       ELSE CHOOSE o \in a.selected : TRUE]
      [] mode = "multiple" -> [EmptyAnswer EXCEPT !.many = a.selected \cap Options]

\* the edit a committed answer stands for
Hydrate(mode, a) ==
    LET own == a.selected \ Options
        typed == IF own = {} THEN Blank ELSE CHOOSE o \in own : TRUE
    IN CASE a.declined -> EmptyAnswer
         [] ~a.declined /\ mode = "text" -> [EmptyAnswer EXCEPT !.free = a.text]
         [] ~a.declined /\ mode = "single" ->
                [EmptyAnswer EXCEPT !.one = IF a.selected = {} THEN Blank
                                            ELSE IF own # {} THEN Other
                                            ELSE CHOOSE o \in a.selected : TRUE,
                                    !.free = typed]
         [] ~a.declined /\ mode = "multiple" ->
                [one |-> Blank, many |-> a.selected \cap Options, other |-> own # {},
                 free |-> typed]

InputInit ==
    /\ questions \in Batches /\ step = 1
    /\ answers = [i \in DOMAIN questions |-> Declined]
    /\ edit = EmptyAnswer /\ cardState = "open" /\ edited = FALSE /\ edits = 0

Mode  == questions[step]
Count == edits < MaxEdits /\ edits' = edits + 1

\* QuestionBody: a radio, a box, the box of the own answer, its text field,
\* which shows only while it applies
Edit ==
    /\ cardState = "open" /\ Count /\ edited' = TRUE
    /\ \/ Mode = "single" /\ \E o \in Options \cup {Other} : edit' = [edit EXCEPT !.one = o]
       \/ /\ Mode = "multiple"
          /\ \/ \E o \in Options :
                   edit' = [edit EXCEPT !.many = IF o \in @ THEN @ \ {o} ELSE @ \cup {o}]
             \/ edit' = [edit EXCEPT !.other = ~@]
       \/ /\ Mode = "text" \/ edit.one = Other \/ edit.other
          /\ \E w \in Typed \cup {Blank} : edit' = [edit EXCEPT !.free = w]
    /\ UNCHANGED <<questions, step, answers, cardState>>

\* commitCurrent: what is not ready counts as declined
Committed ==
    [answers EXCEPT ![step] = IF AnswerReady(Mode, edit) THEN BuildAnswer(Mode, edit) ELSE Declined]

GoTo(target) ==
    /\ step' = target /\ edit' = Hydrate(questions[target], Committed[target]) /\ edited' = FALSE

Forward ==
    /\ cardState = "open" /\ AnswerReady(Mode, edit) /\ answers' = Committed
    /\ IF step = Len(questions)
       THEN Count /\ cardState' = "posting" /\ UNCHANGED <<step, edit, edited>>
       ELSE GoTo(step + 1) /\ UNCHANGED <<cardState, edits>>
    /\ UNCHANGED questions

Backward ==
    /\ cardState = "open" /\ step > 1 /\ answers' = Committed /\ GoTo(step - 1)
    /\ UNCHANGED <<questions, cardState, edits>>

\* skipAll posts declined answers; the card goes whether they arrive or not
Skip ==
    /\ cardState = "open" /\ cardState' = "skipping"
    /\ UNCHANGED <<questions, step, answers, edit, edited, edits>>

PostAnswered ==
    /\ cardState \in {"posting", "skipping"}
    /\ cardState' \in IF cardState = "posting" THEN {"closed", "open"} ELSE {"closed"}
    /\ UNCHANGED <<questions, step, answers, edit, edited, edits>>

InputNext == Edit \/ Forward \/ Backward \/ Skip \/ PostAnswered

\* what Hydrate takes a label for that is there twice
Once(a) == IF a.declined THEN a ELSE Answer(a.selected, {}, a.text)

\* Paging through a batch loses no answer: a question left as it was found
\* keeps the labels and the text it had, also one typed instead of an option;
\* the only difference is that a label both ticked and typed is there once.
AnswerKept ==
    [][(Forward \/ Backward) /\ ~edited =>
          \A i \in DOMAIN questions : answers'[i] \in {answers[i], Once(answers[i])}]_inputVars
=============================================================================
