------------------------ MODULE MessageRenderingProofs ------------------------
(* Proofs about MessageRendering, for any messages and any number of runs. *)
EXTENDS MessageRendering, TLAPS

\* The run that is not cancelled is for the inputs of now: what it awaits is to
\* be decrypted, what it has is what should be shown, with a URL that works.
TaskFits ==
    Rendering => \A m \in Messages :
        /\ inputs.open
        /\ m \in task[latest].todo => inputs.key /\ m \in inputs.envelopes
        /\ m \notin task[latest].todo => task[latest].views[m] \in Expected(m)
        /\ task[latest].views[m] = "decrypted" => <<latest, m>> \in urls

RInv == TypeOK /\ TaskFits /\ ScreenIsCurrent /\ ShownImagesWork

-----------------------------------------------------------------------------
LEMMA Constructed ==
    /\ Nothing \in Rendered /\ \A m \in Messages : Nothing[m] = "none"
    /\ Unused \in Task /\ Over \in Task /\ Over.pc = "over"
    /\ Closed \in Inputs /\ ~Closed.open
BY DEF Nothing, Rendered, Views, Unused, Over, Task, Closed, Inputs

LEMMA StartedFits ==
    ASSUME NEW i \in Inputs
    PROVE  /\ Started(i) \in Task /\ Started(i).pc = "rendering"
           /\ Started(i).todo = IF i.key THEN i.envelopes ELSE {}
           /\ \A m \in Messages : Started(i).views[m] =
                    IF m \in i.envelopes /\ ~i.key THEN "encrypted" ELSE "none"
<1> DEFINE views == [m \in Messages |->
                        IF m \in i.envelopes /\ ~i.key THEN "encrypted" ELSE "none"]
           todo == IF i.key THEN i.envelopes ELSE {}
<1>1. views \in Rendered /\ todo \subseteq Messages
    BY DEF Rendered, Views, Inputs
<1>2. \A m \in Messages : views[m] = IF m \in i.envelopes /\ ~i.key THEN "encrypted" ELSE "none"
    OBVIOUS
<1>3. Started(i) = [pc |-> "rendering", todo |-> todo, views |-> views]
    BY DEF Started
<1> HIDE DEF views, todo
<1>4. Started(i) \in Task /\ Started(i).pc = "rendering"
      /\ Started(i).todo = todo /\ Started(i).views = views
    BY <1>1, <1>3 DEF Task
<1> QED BY <1>2, <1>4 DEF todo

LEMMA InitRInv == Init => RInv
<1> SUFFICES ASSUME Init PROVE RInv
    OBVIOUS
<1>1. 0 \in Runs
    BY RenderingAssumption DEF Runs
<1>2. TypeOK
    BY <1>1, Constructed DEF Init, TypeOK
<1>3. ~Rendering
    BY <1>1, Constructed DEF Init, Rendering
<1>4. TaskFits /\ ScreenIsCurrent /\ ShownImagesWork
    BY <1>3, Constructed DEF Init, TaskFits, ScreenIsCurrent, ShownImagesWork, Current, Expected
<1> QED BY <1>2, <1>4 DEF RInv

LEMMA ChangeStep ==
    ASSUME RInv, NEW i \in Inputs, Change(i)
    PROVE  RInv'
<1>1. /\ inputs' = i /\ latest < MaxRuns /\ latest' = latest + 1
      /\ urls' = urls \ Revoked(latest)
    BY DEF Change
<1>2. latest \in Runs /\ task \in [Runs -> Task] /\ rendered \in Rendered
      /\ urls \subseteq Runs \X Messages
    BY DEF RInv, TypeOK
<1>3. latest + 1 \in Runs
    BY <1>1, <1>2, RenderingAssumption DEF Runs
<1>4. CASE i.open
    <2>1. task' = [task EXCEPT ![latest + 1] = Started(i)] /\ UNCHANGED rendered
        BY <1>4 DEF Change
    <2>2. task'[latest'] = Started(i) /\ task' \in [Runs -> Task]
        BY <1>1, <1>2, <1>3, <2>1, StartedFits
    <2>3. TypeOK'
        BY <1>1, <1>2, <1>3, <2>1, <2>2 DEF TypeOK
    <2>4. Rendering'
        BY <2>2, StartedFits DEF Rendering
    <2>5. TaskFits'
        BY <1>1, <1>4, <2>2, StartedFits DEF TaskFits, Expected, Inputs
    <2> QED BY <2>3, <2>4, <2>5 DEF RInv, ScreenIsCurrent, ShownImagesWork
<1>5. CASE ~i.open
    <2>1. task' = [task EXCEPT ![latest + 1] = Over] /\ rendered' = Nothing
        BY <1>5 DEF Change
    <2>2. task'[latest'] = Over /\ task' \in [Runs -> Task]
        BY <1>1, <1>2, <1>3, <2>1, Constructed
    <2>3. TypeOK'
        BY <1>1, <1>2, <1>3, <2>1, <2>2, Constructed DEF TypeOK
    <2>4. ~Rendering'
        BY <2>2, Constructed DEF Rendering
    <2>5. TaskFits' /\ ScreenIsCurrent' /\ ShownImagesWork'
        BY <1>1, <1>5, <2>1, <2>4, Constructed
           DEF TaskFits, ScreenIsCurrent, ShownImagesWork, Current, Expected
    <2> QED BY <2>3, <2>5 DEF RInv
<1> QED BY <1>4, <1>5

\* An image is decrypted, with its URL, or is not.
LEMMA SettleStep ==
    ASSUME RInv, NEW n \in Runs, NEW m \in Messages, NEW view \in {"decrypted", "failed"},
           Settle(n, m, view),
           urls' = IF view = "decrypted" THEN urls \cup {<<n, m>>} ELSE urls
    PROVE  RInv'
<1> DEFINE new == [task[n] EXCEPT !.todo = @ \ {m}, !.views[m] = view]
<1>1. /\ task[n].pc = "rendering" /\ m \in task[n].todo
      /\ task' = [task EXCEPT ![n] = new]
      /\ UNCHANGED <<inputs, latest, rendered>>
    BY DEF Settle
<1>2. latest \in Runs /\ task \in [Runs -> Task] /\ urls \subseteq Runs \X Messages
    BY DEF RInv, TypeOK
<1>3. /\ new \in Task /\ new.pc = "rendering" /\ new.todo = task[n].todo \ {m}
      /\ new.views[m] = view
      /\ \A k \in Messages \ {m} : new.views[k] = task[n].views[k]
    <2>1. ASSUME NEW r \in Task, r.pc = "rendering"
          PROVE  LET t == [r EXCEPT !.todo = @ \ {m}, !.views[m] = view]
                 IN  /\ t \in Task /\ t.pc = "rendering" /\ t.todo = r.todo \ {m}
                     /\ t.views[m] = view
                     /\ \A k \in Messages \ {m} : t.views[k] = r.views[k]
        <3> DEFINE views == [r.views EXCEPT ![m] = view]
                   t == [r EXCEPT !.todo = @ \ {m}, !.views = views]
        <3>1. r.views \in Rendered /\ r.todo \subseteq Messages
            BY DEF Task
        <3>2. /\ views \in Rendered /\ views[m] = view
              /\ \A k \in Messages \ {m} : views[k] = r.views[k]
            BY <3>1 DEF Rendered, Views
        <3> HIDE DEF views
        <3>3. t \in Task /\ t.pc = "rendering" /\ t.todo = r.todo \ {m} /\ t.views = views
            BY <2>1, <3>2 DEF Task
        <3> HIDE DEF t
        <3>4. [r EXCEPT !.todo = @ \ {m}, !.views[m] = view] = t
            BY DEF t, views
        <3> QED BY <3>2, <3>3, <3>4
    <2> QED BY <1>1, <1>2, <2>1
<1> HIDE DEF new
<1>4. task'[n] = new /\ \A k \in Runs \ {n} : task'[k] = task[k]
    BY <1>1, <1>2
<1>5. urls \subseteq urls' /\ (view = "decrypted" => <<n, m>> \in urls')
    OBVIOUS
<1>6. TypeOK'
    BY <1>1, <1>2, <1>3 DEF RInv, TypeOK
<1>7. Rendering' = Rendering
    BY <1>1, <1>2, <1>3, <1>4 DEF Rendering
<1>8. \A k \in Messages : Expected(k)' = Expected(k)
    BY <1>1 DEF Expected
<1>9. ScreenIsCurrent' /\ ShownImagesWork'
    BY <1>1, <1>5, <1>7, <1>8 DEF RInv, ScreenIsCurrent, ShownImagesWork, Current
<1>10. TaskFits'
    <2>1. CASE n # latest
        BY <1>1, <1>2, <1>4, <1>5, <1>7, <1>8, <2>1 DEF RInv, TaskFits
    <2>2. CASE n = latest
        <3>1. Rendering /\ inputs.open /\ inputs.key /\ m \in inputs.envelopes
            BY <1>1, <2>2 DEF RInv, TaskFits, Rendering
        <3>2. view \in Expected(m)'
            BY <1>1, <3>1 DEF Expected
        <3> QED BY <1>1, <1>3, <1>4, <1>5, <1>8, <2>2, <3>1, <3>2 DEF RInv, TaskFits
    <2> QED BY <2>1, <2>2
<1> QED BY <1>6, <1>9, <1>10 DEF RInv

LEMMA ShowStep ==
    ASSUME RInv, NEW n \in Runs, Show(n)
    PROVE  RInv'
<1> DEFINE new == [task[n] EXCEPT !.pc = "over"]
<1>1. /\ task[n].pc = "rendering" /\ task[n].todo = {}
      /\ task' = [task EXCEPT ![n] = new]
      /\ rendered' = IF n = latest THEN task[n].views ELSE rendered
      /\ UNCHANGED <<inputs, latest, urls>>
    BY DEF Show
<1>2. latest \in Runs /\ task \in [Runs -> Task] /\ rendered \in Rendered
    BY DEF RInv, TypeOK
<1>3. new \in Task /\ new.pc = "over"
    BY <1>2 DEF Task
<1> HIDE DEF new
<1>4. task'[n] = new /\ \A k \in Runs \ {n} : task'[k] = task[k]
    BY <1>1, <1>2
<1>5. TypeOK'
    BY <1>1, <1>2, <1>3 DEF RInv, TypeOK, Task
<1>6. \A k \in Messages : Expected(k)' = Expected(k)
    BY <1>1 DEF Expected
<1>7. CASE n # latest
    BY <1>1, <1>2, <1>4, <1>5, <1>6, <1>7
       DEF RInv, TaskFits, ScreenIsCurrent, ShownImagesWork, Current, Rendering
<1>8. CASE n = latest
    <2>1. Rendering /\ ~Rendering'
        BY <1>1, <1>3, <1>4, <1>8 DEF Rendering
    <2>2. \A m \in Messages : rendered'[m] \in Expected(m)
            /\ (rendered'[m] = "decrypted" => <<latest, m>> \in urls)
        BY <1>1, <1>8, <2>1 DEF RInv, TaskFits
    <2> QED BY <1>1, <1>5, <1>6, <2>1, <2>2
            DEF RInv, TaskFits, ScreenIsCurrent, ShownImagesWork, Current
<1> QED BY <1>7, <1>8

LEMMA NextRInv == RInv /\ [Next]_vars => RInv'
<1> SUFFICES ASSUME RInv, [Next]_vars PROVE RInv'
    OBVIOUS
<1>1. CASE UNCHANGED vars
    BY <1>1 DEF vars, RInv, TypeOK, TaskFits, ScreenIsCurrent, ShownImagesWork, Current,
       Rendering, Expected
<1>2. ASSUME NEW i \in Inputs, Change(i) PROVE RInv'
    BY <1>2, ChangeStep
<1>3. ASSUME NEW n \in Runs, Go(n) PROVE RInv'
    <2>1. CASE Show(n)
        BY <2>1, ShowStep
    <2>2. ASSUME NEW m \in Messages, ImageArrives(n, m) PROVE RInv'
        BY <2>2, SettleStep DEF ImageArrives
    <2>3. ASSUME NEW m \in Messages, ImageFails(n, m) PROVE RInv'
        BY <2>3, SettleStep DEF ImageFails
    <2> QED BY <1>3, <2>1, <2>2, <2>3 DEF Go
<1> QED BY <1>1, <1>2, <1>3 DEF Next

THEOREM RenderingInvariant == Spec => []RInv
BY InitRInv, NextRInv, PTL DEF Spec

-----------------------------------------------------------------------------
(* The theorems. *)

\* Every variable has its type.
THEOREM RenderingTypeCorrect == Spec => []TypeOK
BY RenderingInvariant, PTL DEF RInv

\* No late run of the effect puts an earlier page on the screen.
THEOREM ScreensAreCurrent == Spec => []ScreenIsCurrent
BY RenderingInvariant, PTL DEF RInv

\* The images on the screen have a URL that works.
THEOREM ImagesWork == Spec => []ShownImagesWork
BY RenderingInvariant, PTL DEF RInv

=============================================================================
