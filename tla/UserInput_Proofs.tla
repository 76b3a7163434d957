--------------------------- MODULE UserInput_Proofs ---------------------------
(***************************************************************************)
(* The question card, for any options and texts: an answer that was        *)
(* committed once stands for an edit that is ready and builds the same     *)
(* answer, or the same without the second copy of a label, so that paging  *)
(* over it changes nothing else.                                           *)
(***************************************************************************)
EXTENDS UserInput, TLAPS

Modes == {"text", "single", "multiple"}

\* what the widgets of a question can be left at; the mode tells which of
\* them the question has
Edits(mode) ==
    [one : IF mode = "single" THEN Options \cup {Other, Blank} ELSE {Blank},
     many : IF mode = "multiple" THEN SUBSET Options ELSE {{}},
     other : IF mode = "multiple" THEN BOOLEAN ELSE {FALSE},
     free : Typed \cup {Blank}]

\* an answer the card may hold
Given(mode) == {BuildAnswer(mode, s) : s \in {e \in Edits(mode) : AnswerReady(mode, e)}}

\* an answer is offered as an edit that stands for it, but for a second copy
Restores(mode, a, s) ==
    /\ a # Declined => AnswerReady(mode, s) /\ BuildAnswer(mode, s) \in {a, Once(a)}
    /\ a = Declined => ~AnswerReady(mode, s)

LEMMA GivenIsAnswered ==
  ASSUME NEW mode \in Modes, NEW s
  PROVE  BuildAnswer(mode, s) # Declined
  <1>1. ~BuildAnswer(mode, s).declined
    BY DEF BuildAnswer, Answer, Modes
  <1> QED
    BY <1>1 DEF Declined

LEMMA EmptyIsDeclined ==
  ASSUME NEW mode \in Modes
  PROVE  EmptyAnswer \in Edits(mode) /\ Restores(mode, Declined, Hydrate(mode, Declined))
         /\ Hydrate(mode, Declined) = EmptyAnswer
  <1>1. Hydrate(mode, Declined) = EmptyAnswer
    BY DEF Hydrate, Declined
  <1>2. ~AnswerReady(mode, EmptyAnswer)
    BY DEF AnswerReady, EmptyAnswer, Modes
  <1>3. EmptyAnswer \in Edits(mode)
    BY DEF EmptyAnswer, Edits
  <1> QED
    BY <1>1, <1>2, <1>3 DEF Restores

LEMMA TextBack ==
  ASSUME NEW a \in Given("text")
  PROVE  Hydrate("text", a) \in Edits("text") /\ Restores("text", a, Hydrate("text", a))
  <1>1. PICK s \in Edits("text") : AnswerReady("text", s) /\ a = BuildAnswer("text", s)
    BY DEF Given
  <1>2. a = [declined |-> FALSE, selected |-> {}, twice |-> {}, text |-> s.free] /\ s.free # Blank
    BY <1>1 DEF BuildAnswer, Answer, AnswerReady
  <1>3. Hydrate("text", a) = [one |-> Blank, many |-> {}, other |-> FALSE, free |-> s.free]
    BY <1>2 DEF Hydrate, EmptyAnswer
  <1>4. Hydrate("text", a) \in Edits("text")
    BY <1>3 DEF Edits
  <1>5. Hydrate("text", a).free = s.free
    BY <1>3
  <1>6. AnswerReady("text", Hydrate("text", a))
    BY <1>2, <1>5 DEF AnswerReady
  <1>7. BuildAnswer("text", Hydrate("text", a)) = a
    BY <1>2, <1>5 DEF BuildAnswer, Answer
  <1>8. a # Declined
    BY <1>2 DEF Declined
  <1> QED
    BY <1>4, <1>6, <1>7, <1>8 DEF Restores

LEMMA SingleBack ==
  ASSUME NEW a \in Given("single")
  PROVE  Hydrate("single", a) \in Edits("single") /\ Restores("single", a, Hydrate("single", a))
  <1>1. PICK s \in Edits("single") : AnswerReady("single", s) /\ a = BuildAnswer("single", s)
    BY DEF Given
  <1> DEFINE label == IF s.one = Other THEN s.free ELSE s.one
  <1>2. a = [declined |-> FALSE, selected |-> {label}, twice |-> {}, text |-> Blank]
    BY <1>1, OtherAssumption DEF BuildAnswer, Answer, AnswerReady
  <1>3. label # Blank /\ (label \in Options \/ label \in Typed)
    BY <1>1 DEF AnswerReady, Edits
  <1>4. ~a.declined /\ a.selected = {label}
    BY <1>2
  \* what stands for this answer
  <1> DEFINE h == Hydrate("single", a)
  <1>7. (h.one = label /\ label # Other) \/ (h.one = Other /\ h.free = label)
           => AnswerReady("single", h)
    BY <1>3, OtherAssumption DEF AnswerReady
  <1>8. (h.one = label /\ label # Other) \/ (h.one = Other /\ h.free = label)
           => BuildAnswer("single", h) = a
    BY <1>2, <1>3, OtherAssumption DEF BuildAnswer, Answer
  <1>9. a # Declined
    BY <1>2 DEF Declined
  <1> HIDE DEF label, h
  <1>5. CASE label \in Options
    <2>1. h = [one |-> label, many |-> {}, other |-> FALSE, free |-> Blank]
      BY <1>4, <1>5 DEF h, Hydrate, EmptyAnswer
    <2>2. label # Other
      BY <1>5, OtherAssumption
    <2>3. h \in Edits("single")
      BY <1>5, <2>1 DEF Edits
    <2>4. h.one = label
      BY <2>1
    <2> QED
      BY <1>7, <1>8, <1>9, <2>2, <2>3, <2>4 DEF Restores, h
  <1>6. CASE label \notin Options
    <2>1. h = [one |-> Other, many |-> {}, other |-> FALSE, free |-> label]
      BY <1>4, <1>6 DEF h, Hydrate, EmptyAnswer
    <2>2. h \in Edits("single")
      BY <1>3, <1>6, <2>1 DEF Edits
    <2>3. h.one = Other /\ h.free = label
      BY <2>1
    <2> QED
      BY <1>7, <1>8, <1>9, <2>2, <2>3 DEF Restores, h
  <1> QED
    BY <1>5, <1>6

LEMMA MultipleBack ==
  ASSUME NEW a \in Given("multiple")
  PROVE  Hydrate("multiple", a) \in Edits("multiple")
         /\ Restores("multiple", a, Hydrate("multiple", a))
  <1>1. PICK s \in Edits("multiple") :
            AnswerReady("multiple", s) /\ a = BuildAnswer("multiple", s)
    BY DEF Given
  <1> DEFINE typed == IF s.other /\ s.free # Blank THEN {s.free} ELSE {}
  <1>2. a = [declined |-> FALSE, selected |-> s.many \cup typed, twice |-> s.many \cap typed,
             text |-> Blank]
    BY <1>1 DEF BuildAnswer, Answer, OwnText
  <1>3. s.many \subseteq Options /\ s.many \cup typed # {}
    BY <1>1 DEF AnswerReady, Edits
  <1>4. ~a.declined /\ a.selected = s.many \cup typed /\ a # Declined
    BY <1>2 DEF Declined
  <1>5. CASE typed \subseteq Options
    <2>1. Hydrate("multiple", a) = [one |-> Blank, many |-> a.selected, other |-> FALSE, free |-> Blank]
      <3>1. a.selected \cap Options = a.selected /\ a.selected \ Options = {}
        BY <1>3, <1>4, <1>5
      <3> QED
        BY <1>4, <3>1 DEF Hydrate
    <2>2. Hydrate("multiple", a).many = a.selected /\ ~Hydrate("multiple", a).other
      BY <2>1
    <2>3. Hydrate("multiple", a) \in Edits("multiple")
      <3>1. a.selected \in SUBSET Options
        BY <1>3, <1>4, <1>5
      <3>2. [one |-> Blank, many |-> a.selected, other |-> FALSE, free |-> Blank] \in Edits("multiple")
        BY <3>1 DEF Edits
      <3> QED
        BY <2>1, <3>2
    <2>4. AnswerReady("multiple", Hydrate("multiple", a))
      BY <1>3, <1>4, <2>2 DEF AnswerReady
    \* the label that was typed too is now ticked only
    <2>5. BuildAnswer("multiple", Hydrate("multiple", a)) = Once(a)
      <3>1. Once(a) = [declined |-> FALSE, selected |-> a.selected, twice |-> {}, text |-> Blank]
        BY <1>2 DEF Once, Answer
      <3> QED
        BY <2>2, <3>1 DEF BuildAnswer, Answer
    <2> QED
      BY <1>4, <2>3, <2>4, <2>5 DEF Restores
  <1>6. CASE ~(typed \subseteq Options)
    <2>1. typed = {s.free} /\ s.free \notin Options /\ s.free # Blank /\ s.free \in Typed
      BY <1>1, <1>6 DEF Edits
    <2>2. a.selected \cap Options = s.many /\ a.selected \ Options = {s.free}
      BY <1>3, <1>4, <2>1
    <2>3. Hydrate("multiple", a) = [one |-> Blank, many |-> s.many, other |-> TRUE, free |-> s.free]
      BY <1>4, <2>2 DEF Hydrate
    <2>4. /\ Hydrate("multiple", a).many = s.many /\ Hydrate("multiple", a).other
          /\ Hydrate("multiple", a).free = s.free
      BY <2>3
    <2>5. Hydrate("multiple", a) \in Edits("multiple")
      BY <1>3, <2>1, <2>3 DEF Edits
    <2>6. AnswerReady("multiple", Hydrate("multiple", a))
      BY <2>1, <2>4 DEF AnswerReady
    <2>7. BuildAnswer("multiple", Hydrate("multiple", a)) = a
      <3>1. s.many \cap {s.free} = {}
        BY <1>3, <2>1
      <3> QED
        BY <1>2, <2>1, <2>4, <3>1 DEF BuildAnswer, Answer, OwnText
    <2> QED
      BY <1>4, <2>5, <2>6, <2>7 DEF Restores
  <1> QED
    BY <1>5, <1>6

LEMMA Rehydrated ==
  ASSUME NEW mode \in Modes, NEW a \in Given(mode) \cup {Declined}
  PROVE  Hydrate(mode, a) \in Edits(mode) /\ Restores(mode, a, Hydrate(mode, a))
  BY EmptyIsDeclined, TextBack, SingleBack, MultipleBack DEF Modes

----------------------------------------------------------------------------
\* The card: each answer is one its question can have, and an edit nobody
\* touched stands for the answer of its question
Batched ==
    /\ questions \in Seq(Modes) /\ step \in DOMAIN questions
    /\ answers = [i \in DOMAIN questions |-> answers[i]]

AnswersGiven == \A i \in DOMAIN questions : answers[i] \in Given(questions[i]) \cup {Declined}

EditStands ==
    /\ edit \in Edits(Mode)
    /\ ~edited => Restores(Mode, answers[step], edit)

CardInv == Batched /\ AnswersGiven /\ EditStands

LEMMA InitCard == InputInit => CardInv
  <1> SUFFICES ASSUME InputInit PROVE CardInv
    OBVIOUS
  <1>1. questions \in Seq(Modes) /\ step = 1 /\ 1 \in DOMAIN questions
    <2>1. /\ <<"text">> \in Seq(Modes) /\ <<"single", "multiple">> \in Seq(Modes)
          /\ <<"multiple", "text", "single">> \in Seq(Modes)
      BY DEF Modes
    <2>2. questions \in Batches /\ step = 1
      BY DEF InputInit
    <2>3. \A q \in Batches : Len(q) >= 1
      BY DEF Batches
    <2>4. questions \in Seq(Modes)
      BY <2>1, <2>2, Zenon DEF Batches
    <2>5. 1 \in 1 .. Len(questions)
      BY <2>2, <2>3, <2>4
    <2> QED
      BY <2>2, <2>4, <2>5
  <1>2. answers = [i \in DOMAIN questions |-> Declined] /\ edit = EmptyAnswer
    BY DEF InputInit
  <1>3. Batched /\ AnswersGiven
    BY <1>1, <1>2 DEF Batched, AnswersGiven
  <1>4. Mode \in Modes /\ answers[step] = Declined
    BY <1>1, <1>2 DEF Mode
  <1>5. EditStands
    BY <1>2, <1>4, EmptyIsDeclined DEF EditStands
  <1> QED
    BY <1>3, <1>5 DEF CardInv

\* what leaving a question commits
LEMMA Commits ==
  ASSUME CardInv
  PROVE  /\ \A i \in DOMAIN questions : Committed[i] \in Given(questions[i]) \cup {Declined}
         /\ Committed = [i \in DOMAIN questions |-> Committed[i]]
         /\ ~edited => \A i \in DOMAIN questions : Committed[i] \in {answers[i], Once(answers[i])}
  <1> DEFINE new == IF AnswerReady(Mode, edit) THEN BuildAnswer(Mode, edit) ELSE Declined
  <1>1. new \in Given(Mode) \cup {Declined}
    BY DEF CardInv, EditStands, Given
  <1>2. ~edited => new \in {answers[step], Once(answers[step])}
    BY DEF CardInv, EditStands, Restores
  <1>3. Committed = [answers EXCEPT ![step] = new]
    BY DEF Committed
  <1> HIDE DEF new
  <1>4. \A i \in DOMAIN questions : Committed[i] = IF i = step THEN new ELSE answers[i]
    BY <1>3 DEF CardInv, Batched
  <1>5. Committed = [i \in DOMAIN questions |-> Committed[i]]
    BY <1>3 DEF CardInv, Batched
  <1>6. \A i \in DOMAIN questions : Committed[i] \in Given(questions[i]) \cup {Declined}
    BY <1>1, <1>4 DEF CardInv, AnswersGiven, Mode
  <1>7. ~edited => \A i \in DOMAIN questions : Committed[i] \in {answers[i], Once(answers[i])}
    BY <1>2, <1>4
  <1> QED
    BY <1>5, <1>6, <1>7

\* paging enters a question with the edit that stands for its answer
LEMMA PageKept ==
  ASSUME CardInv, NEW target \in DOMAIN questions, GoTo(target), answers' = Committed,
         UNCHANGED questions
  PROVE  CardInv'
  <1>1. Batched' /\ AnswersGiven'
    BY Commits DEF GoTo, CardInv, Batched, AnswersGiven
  <1>2. questions[target] \in Modes
    BY DEF CardInv, Batched
  <1>3. Committed[target] \in Given(questions[target]) \cup {Declined}
    BY Commits
  <1>4. Mode' = questions[target] /\ answers'[step'] = Committed[target]
    BY DEF GoTo, Mode
  <1>5. EditStands'
    BY <1>2, <1>3, <1>4, Rehydrated DEF GoTo, EditStands
  <1> QED
    BY <1>1, <1>5 DEF CardInv

LEMMA StepCard == CardInv /\ [InputNext]_inputVars => CardInv'
  <1> SUFFICES ASSUME CardInv, [InputNext]_inputVars PROVE CardInv'
    OBVIOUS
  <1>1. CASE Edit
    <2>1. UNCHANGED <<questions, step, answers>> /\ edited'
      BY <1>1 DEF Edit
    <2>2. Mode \in Modes
      BY DEF CardInv, Batched, Mode
    <2>3. edit' \in Edits(Mode)
      <3> USE DEF CardInv, EditStands, Edits
      <3>1. ASSUME NEW o \in Options \cup {Other}, Mode = "single",
                   edit' = [edit EXCEPT !.one = o]
            PROVE  edit' \in Edits(Mode)
        BY <3>1
      <3>2. ASSUME NEW o \in Options, Mode = "multiple",
                   edit' = [edit EXCEPT !.many = IF o \in @ THEN @ \ {o} ELSE @ \cup {o}]
            PROVE  edit' \in Edits(Mode)
        BY <3>2
      <3>3. ASSUME Mode = "multiple", edit' = [edit EXCEPT !.other = ~@]
            PROVE  edit' \in Edits(Mode)
        BY <3>3
      <3>4. ASSUME NEW w \in Typed \cup {Blank}, edit' = [edit EXCEPT !.free = w]
            PROVE  edit' \in Edits(Mode)
        BY <3>4
      <3> HIDE DEF CardInv, EditStands, Edits
      <3> QED
        BY <1>1, <3>1, <3>2, <3>3, <3>4 DEF Edit
    <2> QED
      BY <2>1, <2>3 DEF CardInv, Batched, AnswersGiven, EditStands, Mode
  <1>2. CASE Forward
    <2>1. CASE step = Len(questions)
      <3>1. answers' = Committed /\ UNCHANGED <<questions, step, edit, edited>>
        BY <1>2, <2>1 DEF Forward
      <3>2. Batched' /\ AnswersGiven'
        BY <3>1, Commits DEF CardInv, Batched, AnswersGiven
      <3>3. answers'[step] = BuildAnswer(Mode, edit) /\ AnswerReady(Mode, edit)
        BY <1>2, <3>1 DEF Forward, Committed, CardInv, Batched
      <3>4. Mode \in Modes
        BY DEF CardInv, Batched, Mode
      <3>5. Restores(Mode, answers'[step], edit)
        BY <3>3, <3>4, GivenIsAnswered DEF Restores
      <3> QED
        BY <3>1, <3>2, <3>5 DEF CardInv, EditStands, Mode
    <2>2. CASE step # Len(questions)
      <3>1. answers' = Committed /\ UNCHANGED questions /\ GoTo(step + 1)
        BY <1>2, <2>2 DEF Forward
      <3>2. step + 1 \in DOMAIN questions
        BY <2>2 DEF CardInv, Batched
      <3> QED
        BY <3>1, <3>2, PageKept
    <2> QED
      BY <2>1, <2>2
  <1>3. CASE Backward
    <2>1. answers' = Committed /\ UNCHANGED questions /\ GoTo(step - 1)
      BY <1>3 DEF Backward
    <2>2. step - 1 \in DOMAIN questions
      BY <1>3 DEF Backward, CardInv, Batched
    <2> QED
      BY <2>1, <2>2, PageKept
  <1>4. CASE Skip \/ PostAnswered \/ UNCHANGED inputVars
    BY <1>4 DEF Skip, PostAnswered, inputVars, CardInv, Batched, AnswersGiven, EditStands, Mode
  <1> QED
    BY <1>1, <1>2, <1>3, <1>4 DEF InputNext

\* Paging keeps the labels and the text of every answer, whatever is offered and
\* typed; it takes away at most the second copy of a label ticked and typed.
THEOREM PagingKeeps == InputInit /\ [][InputNext]_inputVars => AnswerKept
  <1>1. CardInv /\ [InputNext]_inputVars
           => [(Forward \/ Backward) /\ ~edited =>
                  \A i \in DOMAIN questions :
                     answers'[i] \in {answers[i], Once(answers[i])}]_inputVars
    BY Commits DEF Forward, Backward
  <1> QED
    BY <1>1, InitCard, StepCard, PTL DEF AnswerKept
=============================================================================
