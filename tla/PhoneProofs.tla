---------------------------- MODULE PhoneProofs ----------------------------
(***************************************************************************)
(* PhoneInput.tla: the two clipboards of Clipboard.tla, for any texts and any *)
(* number of copies, sessions and losses; and the contacts of TouchInput.tla,  *)
(* for any fingers; and the text that SoftKeys.tla types, for any words; all    *)
(* with what the rest of the phone does between.                             *)
(*                                                                         *)
(* As long as no text was lost or met another, one text prevails.  Either it  *)
(* is the last of those on their way to the desktop, and nothing comes back;  *)
(* or it is the selection's, and what comes back ends in it, or nothing comes *)
(* and the phone has it, or has newer that somebody is about to send.        *)
(*                                                                         *)
(* The desktop's contacts are among those the code takes it to have, and     *)
(* these are under the user's fingers.  A call of the UI thread sends some    *)
(* contacts down, moves and lifts some, and it says so of its whole list of   *)
(* events and of every end of it, as a session or a frame may fail midway.   *)
(*                                                                         *)
(* The text field is what the soft keyboard takes it to be: what is behind    *)
(* SystemIME's mirror, and ends with an Enter, then the mirror, which ends    *)
(* with what is composed.  Each edit erases and sends what makes the field    *)
(* the one believed, and nothing else sends a key that edits, unnoticed.      *)
(***************************************************************************)
EXTENDS PhoneInput, SequenceTheorems, FiniteSetTheorems, WellFoundedInduction, TLAPS

-----------------------------------------------------------------------------
(* What is under way.                                                      *)

\* In s the last text is k; there is none in s.  (KWin sends an empty one when the owner
\* of the selection does not answer.)
EndsIn(s, k) == \E n \in 1..Len(s) : s[n] = k /\ k # NoText /\ \A m \in 1..Len(s) : m > n => s[m] = NoText
NoTexts(s)   == \A n \in 1..Len(s) : s[n] = NoText

\* What the phone sends, the last of it read by the render thread and not sent.
OutOf(i, r) == i \o (IF r \in Copies THEN <<r>> ELSE <<>>)
Outgoing    == OutOf(wire.in, render)

\* The user has copied since, and somebody is going to send that.
Newer == /\ phone.text \notin {NoText, phone.last}
         /\ phone.heard \/ ~focused \/ ~up \/ render \in {"listen", "start", "sync"}

\* The phone has dealt with k last, as its clipboard says, or newer.
Has(k) == phone.last = k /\ (phone.text = k \/ Newer)

\* The phone will have k.
Gets(k) ==
  \/ EndsIn(wire.out, k)
  \/ NoTexts(wire.out) /\ IF events.hand # NoText THEN events.hand = k /\ phone.last = k ELSE Has(k)

ClipTypes ==
  /\ phone = [text |-> phone.text, last |-> phone.last, listening |-> phone.listening,
              heard |-> phone.heard, service |-> phone.service]
  /\ phone.text \in Copies \cup {NoText} /\ phone.service \in BOOLEAN /\ phone.heard \in BOOLEAN
  /\ phone.listening \in BOOLEAN
  /\ events = [on |-> events.on, hand |-> events.hand] /\ events.hand \in Copies \cup {NoText}
  /\ events.on \in BOOLEAN
  /\ render \in {"none", "listen", "start", "sync"} \cup Copies
  /\ wire = [in |-> wire.in, out |-> wire.out]
  /\ wire.in \in Seq(Copies) /\ wire.out \in Seq(Copies \cup {NoText})
  /\ board = [on |-> board.on, text |-> board.text, known |-> board.known, pulls |-> board.pulls]
  /\ board.pulls \subseteq Copies /\ board.text \in Copies \cup {NoText} /\ board.known \in Copies \cup {NoText}
  /\ apart \in BOOLEAN

\* The listener is there in every session that has got so far; without the service
\* nothing happens.
ListenInv ==
  /\ up /\ phone.service /\ render # "listen" => phone.listening
  /\ ~phone.service => render = "none" /\ ~events.on /\ events.hand = NoText /\ phone.text = NoText

Follows ==
  /\ board.pulls \subseteq {board.text}
  /\ Outgoing # <<>> =>
       /\ ~Inbound /\ Has(Last(Outgoing)) /\ (OnKWin => Len(Outgoing) = 1)
       /\ board.known = board.text \/ \E n \in 1..Len(Outgoing) : Outgoing[n] # board.known
  /\ Outgoing = <<>> =>
       \/ board.pulls # {} /\ (OnKWin => board.text # board.known)
       \/ board.known = board.text /\ Gets(board.known)

ClipInv == ~apart => Follows

-----------------------------------------------------------------------------
(* Lists of texts.                                                         *)

LEMMA Appended ==
  ASSUME NEW S, NEW s \in Seq(S), NEW e \in S
  PROVE  /\ Append(s, e) \in Seq(S) /\ Append(s, e) # <<>>
         /\ Len(s) \in Nat /\ Len(Append(s, e)) = Len(s) + 1 /\ Last(Append(s, e)) = e
         /\ Append(s, e)[Len(s) + 1] = e /\ \A n \in 1..Len(s) : Append(s, e)[n] = s[n]
BY DEF Last

LEMMA Taken1 ==
  ASSUME NEW S, NEW s \in Seq(S), s # <<>>
  PROVE  /\ Head(s) \in S /\ Head(s) = s[1] /\ Tail(s) \in Seq(S)
         /\ Len(s) \in Nat /\ 1 \in 1..Len(s) /\ Len(Tail(s)) = Len(s) - 1
         /\ \A n \in 1..Len(s) - 1 : Tail(s)[n] = s[n + 1]
BY HeadTailProperties

LEMMA NoneEnds ==
  ASSUME NEW k
  PROVE  NoTexts(<<>>) /\ ~EndsIn(<<>>, k)
BY DEF NoTexts, EndsIn

LEMMA AppendEnds ==
  ASSUME NEW S, NEW s \in Seq(S), NEW e \in S
  PROVE  e # NoText => EndsIn(Append(s, e), e)
<1>1. Len(s) + 1 \in 1..Len(Append(s, e)) /\ Append(s, e)[Len(s) + 1] = e
      /\ \A m \in 1..Len(Append(s, e)) : ~(m > Len(s) + 1)
  BY Appended
<1>2. QED
  BY <1>1 DEF EndsIn

LEMMA TailEnds ==
  ASSUME NEW S, NEW s \in Seq(S), s # <<>>, NEW k
  PROVE  /\ EndsIn(s, k) => EndsIn(Tail(s), k) \/ (NoTexts(Tail(s)) /\ Head(s) = k /\ k # NoText)
         /\ NoTexts(s) => Head(s) = NoText /\ NoTexts(Tail(s))
<1>1. /\ Head(s) = s[1] /\ Len(s) \in Nat /\ 1 \in 1..Len(s) /\ Len(Tail(s)) = Len(s) - 1
      /\ \A n \in 1..Len(s) - 1 : Tail(s)[n] = s[n + 1]
  BY Taken1
<1>2. ASSUME NoTexts(s) PROVE Head(s) = NoText /\ NoTexts(Tail(s))
  <2>1. \A n \in 1..Len(s) - 1 : n + 1 \in 1..Len(s)
    BY <1>1
  <2>2. QED
    BY <1>1, <1>2, <2>1 DEF NoTexts
<1>3. ASSUME EndsIn(s, k)
      PROVE  EndsIn(Tail(s), k) \/ (NoTexts(Tail(s)) /\ Head(s) = k /\ k # NoText)
  <2>1. PICK n \in 1..Len(s) : s[n] = k /\ k # NoText /\ \A m \in 1..Len(s) : m > n => s[m] = NoText
    BY <1>3 DEF EndsIn
  <2>2. CASE n = 1
    <3>1. \A m \in 1..Len(s) - 1 : m + 1 \in 1..Len(s) /\ m + 1 > n
      BY <1>1, <2>2
    <3>2. QED
      BY <1>1, <2>1, <2>2, <3>1 DEF NoTexts
  <2>3. CASE n # 1
    <3>1. n - 1 \in 1..Len(Tail(s)) /\ (n - 1) + 1 = n
      BY <1>1, <2>3
    <3>2. Tail(s)[n - 1] = k
      BY <1>1, <2>1, <3>1
    <3>3. \A m \in 1..Len(Tail(s)) : m > n - 1 => m + 1 \in 1..Len(s) /\ m + 1 > n /\ Tail(s)[m] = s[m + 1]
      BY <1>1
    <3>4. QED
      BY <2>1, <3>1, <3>2, <3>3 DEF EndsIn
  <2>4. QED
    BY <2>2, <2>3
<1>4. QED
  BY <1>2, <1>3

LEMMA OutOfIs ==
  ASSUME NEW i \in Seq(Copies), NEW r
  PROVE  /\ r \notin Copies => OutOf(i, r) = i
         /\ r \in Copies => OutOf(i, r) = Append(i, r)
         /\ OutOf(i, r) \in Seq(Copies)
         /\ OutOf(i, r) = <<>> <=> i = <<>> /\ r \notin Copies
<1>1. i \o <<>> = i
  BY ConcatEmptySeq
<1>2. r \in Copies => i \o <<r>> = Append(i, r) /\ Append(i, r) \in Seq(Copies) /\ Append(i, r) # <<>>
  BY AppendIsConcat, Appended
<1>3. QED
  BY <1>1, <1>2 DEF OutOf

\* The desktop takes the first of what goes out.
LEMMA OutOfTail ==
  ASSUME NEW i \in Seq(Copies), NEW r, i # <<>>
  PROVE  /\ OutOf(i, r)[1] = Head(i) /\ OutOf(i, r) # <<>> /\ OutOf(Tail(i), r) = Tail(OutOf(i, r))
         /\ OutOf(i, r) \in Seq(Copies) /\ OutOf(Tail(i), r) \in Seq(Copies) /\ Head(i) \in Copies
         /\ OutOf(Tail(i), r) # <<>> => Last(OutOf(Tail(i), r)) = Last(OutOf(i, r))
         /\ OutOf(Tail(i), r) = <<>> => Last(OutOf(i, r)) = Head(i) /\ Len(OutOf(i, r)) = 1
<1>1. Head(i) = i[1] /\ Tail(i) \in Seq(Copies) /\ Head(i) \in Copies /\ Len(i) \in Nat /\ 1 \in 1..Len(i)
  BY Taken1
<1>2. OutOf(i, r) # <<>> /\ OutOf(i, r) \in Seq(Copies) /\ OutOf(Tail(i), r) \in Seq(Copies)
  BY <1>1, OutOfIs
<1>3. OutOf(i, r)[1] = Head(i)
  <2>1. CASE r \in Copies
    <3>1. Append(i, r)[1] = i[1]
      BY <1>1, <2>1, Appended
    <3>2. QED
      BY <3>1, <2>1, <1>1, OutOfIs
  <2>2. CASE r \notin Copies
    BY <2>2, <1>1, OutOfIs
  <2>3. QED
    BY <2>1, <2>2
<1>4. OutOf(Tail(i), r) = Tail(OutOf(i, r))
  <2>1. CASE r \in Copies
    <3>1. OutOf(i, r) = Append(i, r) /\ OutOf(Tail(i), r) = Append(Tail(i), r)
      BY <2>1, <1>1, OutOfIs
    <3>2. Tail(Append(i, r)) = Append(Tail(i), r)
      BY <2>1, <1>1
    <3>3. QED
      BY <3>1, <3>2
  <2>2. CASE r \notin Copies
    BY <2>2, <1>1, OutOfIs
  <2>3. QED
    BY <2>1, <2>2
<1> DEFINE s == OutOf(i, r)
<1>5. /\ Len(s) \in Nat /\ 1 \in 1..Len(s) /\ Len(Tail(s)) = Len(s) - 1
      /\ \A n \in 1..Len(s) - 1 : Tail(s)[n] = s[n + 1]
  BY <1>2, Taken1
<1>6. Tail(s) \in Seq(Copies)
  BY <1>2
<1> HIDE DEF s
<1>7. Tail(s) # <<>> => Last(Tail(s)) = Last(s)
  BY <1>5, <1>6 DEF Last
<1>8. Tail(s) = <<>> => Last(s) = s[1] /\ Len(s) = 1
  <2>1. Tail(s) = <<>> => Len(Tail(s)) = 0
    BY <1>6, EmptySeq
  <2>2. Tail(s) = <<>> => Len(s) = 1
    BY <1>5, <2>1
  <2>3. QED
    BY <2>2 DEF Last
<1>9. s # <<>> /\ s \in Seq(Copies) /\ OutOf(Tail(i), r) \in Seq(Copies) /\ s[1] = Head(i) /\ OutOf(Tail(i), r) = Tail(s)
  BY <1>2, <1>3, <1>4 DEF s
<1>10. /\ s[1] = Head(i) /\ s # <<>> /\ OutOf(Tail(i), r) = Tail(s)
       /\ s \in Seq(Copies) /\ OutOf(Tail(i), r) \in Seq(Copies) /\ Head(i) \in Copies
       /\ OutOf(Tail(i), r) # <<>> => Last(OutOf(Tail(i), r)) = Last(s)
       /\ OutOf(Tail(i), r) = <<>> => Last(s) = Head(i) /\ Len(s) = 1
  BY <1>1, <1>7, <1>8, <1>9
<1>11. QED
  BY <1>10 DEF s

-----------------------------------------------------------------------------
(* Types, and the listener.                                                *)

\* A text sent or not.
LEMMA PushTypes ==
  ASSUME ClipTypes, ListenInv, NEW p, p \in {phone, [phone EXCEPT !.heard = FALSE]}, Push(p),
         UNCHANGED <<up, events, render, board>>
  PROVE  ClipTypes' /\ ListenInv'
<1>1. /\ p = [text |-> phone.text, last |-> phone.last, listening |-> phone.listening,
              heard |-> p.heard, service |-> phone.service]
      /\ p.heard \in BOOLEAN
  BY DEF ClipTypes
<1>2. CASE focused' /\ p.text \notin {NoText, p.last}
  <2>1. phone' = [text |-> phone.text, last |-> phone.text, listening |-> phone.listening,
                  heard |-> p.heard, service |-> phone.service]
    BY <1>1, <1>2 DEF Push
  <2>2. phone.text \in Copies
    BY <1>1, <1>2 DEF ClipTypes
  <2>3. Append(wire.in, phone.text) \in Seq(Copies)
    BY <2>2, Appended DEF ClipTypes
  <2>4. wire' = [in |-> wire'.in, out |-> wire.out] /\ wire'.in \in Seq(Copies)
    BY <1>1, <1>2, <2>3 DEF Push, SendClipboard, ClipTypes
  <2>5. apart' \in BOOLEAN
    BY <1>2 DEF Push, Sent
  <2>6. ClipTypes'
    BY <1>1, <2>1, <2>2, <2>4, <2>5 DEF ClipTypes
  <2>7. ListenInv'
    BY <2>1 DEF ListenInv
  <2>8. QED
    BY <2>6, <2>7
<1>3. CASE ~(focused' /\ p.text \notin {NoText, p.last})
  <2>1. phone' = p /\ wire' = wire /\ apart' = apart
    BY <1>3 DEF Push
  <2>2. ClipTypes'
    BY <1>1, <2>1 DEF ClipTypes
  <2>3. ListenInv'
    BY <1>1, <2>1 DEF ListenInv
  <2>4. QED
    BY <2>2, <2>3
<1>4. QED
  BY <1>2, <1>3

LEMMA StepTypes ==
  ASSUME ClipTypes, ListenInv, ClipStep, UNCHANGED up
  PROVE  ClipTypes' /\ ListenInv'
<1>1. CASE PhoneCopy
  <2>1. PICK t \in Copies : phone' = [phone EXCEPT !.text = t, !.heard = @ \/ phone.listening]
    BY <1>1 DEF PhoneCopy
  <2>2. phone' = [text |-> t, last |-> phone.last, listening |-> phone.listening,
                  heard |-> phone.heard \/ phone.listening, service |-> phone.service]
    BY <2>1 DEF ClipTypes
  <2>3. ClipTypes'
    BY <1>1, <2>2 DEF PhoneCopy, ClipTypes
  <2>4. ListenInv'
    BY <1>1, <2>2 DEF PhoneCopy, ListenInv
  <2>5. QED
    BY <2>3, <2>4
<1>2. CASE ListenerRuns
  BY <1>2, PushTypes DEF ListenerRuns
<1>3. CASE RenderListens
  <2>1. phone' = [text |-> phone.text, last |-> phone.last, listening |-> TRUE,
                  heard |-> phone.heard, service |-> phone.service]
    BY <1>3 DEF RenderListens, ClipTypes
  <2>2. ClipTypes'
    BY <1>3, <2>1 DEF RenderListens, ClipTypes
  <2>3. ListenInv'
    BY <1>3, <2>1 DEF RenderListens, ListenInv
  <2>4. QED
    BY <2>2, <2>3
<1>4. CASE RenderStarts
  <2>1. events' = [on |-> TRUE, hand |-> events.hand]
    BY <1>4 DEF RenderStarts, ClipTypes
  <2>2. ClipTypes'
    BY <1>4, <2>1 DEF RenderStarts, ClipTypes
  <2>3. render = "start" /\ render' = "sync" /\ phone' = phone
    BY <1>4 DEF RenderStarts
  <2>4. ListenInv'
    BY <2>3 DEF ListenInv
  <2>5. QED
    BY <2>2, <2>4
<1>5. CASE RenderReads
  <2>1. CASE focused /\ phone.text # NoText
    <3>1. phone' = [text |-> phone.text, last |-> phone.text, listening |-> phone.listening,
                    heard |-> phone.heard, service |-> phone.service]
      BY <1>5, <2>1 DEF RenderReads, ClipTypes
    <3>2. render' = phone.text /\ phone.text \in Copies /\ apart' \in BOOLEAN
      BY <1>5, <2>1 DEF RenderReads, ClipTypes, Sent
    <3>3. ClipTypes'
      BY <1>5, <3>1, <3>2 DEF RenderReads, ClipTypes
    <3>4. ListenInv'
      BY <1>5, <3>1 DEF RenderReads, ListenInv
    <3>5. QED
      BY <3>3, <3>4
  <2>2. CASE ~(focused /\ phone.text # NoText)
    <3>1. render' = "none" /\ phone' = phone /\ apart' = apart
      BY <1>5, <2>2 DEF RenderReads
    <3>2. ClipTypes'
      BY <1>5, <3>1 DEF RenderReads, ClipTypes
    <3>3. ListenInv'
      BY <1>5, <3>1 DEF RenderReads, ListenInv
    <3>4. QED
      BY <3>2, <3>3
  <2>3. QED
    BY <2>1, <2>2
<1>6. CASE RenderSends
  <2>1. render \in Copies /\ wire.in \in Seq(Copies)
    BY <1>6 DEF RenderSends, ClipTypes
  <2>2. Append(wire.in, render) \in Seq(Copies)
    BY <2>1, Appended
  <2>3. wire' = [in |-> wire'.in, out |-> wire.out] /\ wire'.in \in Seq(Copies)
    BY <1>6, <2>2 DEF RenderSends, SendClipboard, ClipTypes
  <2>4. ClipTypes'
    BY <1>6, <2>3 DEF RenderSends, ClipTypes
  <2>5. ListenInv'
    BY <1>6, ClipboardAssumption DEF RenderSends, ListenInv
  <2>6. QED
    BY <2>4, <2>5
<1>7. CASE EventTakes
  <2>1. wire.out \in Seq(Copies \cup {NoText}) /\ wire.out # <<>> /\ events.on
    BY <1>7 DEF EventTakes, Comes, ClipTypes
  <2>2. Head(wire.out) \in Copies \cup {NoText} /\ Tail(wire.out) \in Seq(Copies \cup {NoText})
    BY <2>1, Taken1
  <2>3. wire' = [in |-> wire.in, out |-> Tail(wire.out)] /\ events' = [on |-> events.on, hand |-> Head(wire.out)]
    BY <1>7 DEF EventTakes, ClipTypes
  <2>4. /\ phone' = [text |-> phone.text, last |-> phone'.last, listening |-> phone.listening,
                     heard |-> phone.heard, service |-> phone.service]
    BY <1>7 DEF EventTakes, ClipTypes
  <2>5. ClipTypes'
    BY <1>7, <2>2, <2>3, <2>4 DEF EventTakes, ClipTypes
  <2>6. ListenInv'
    BY <1>7, <2>1, <2>4 DEF EventTakes, ListenInv
  <2>7. QED
    BY <2>5, <2>6
<1>8. CASE EventSets
  <2>1. events' = [on |-> events.on, hand |-> NoText]
    BY <1>8 DEF EventSets, ClipTypes
  <2>2. phone' = [text |-> events.hand, last |-> phone.last, listening |-> phone.listening,
                  heard |-> phone.heard \/ phone.listening, service |-> phone.service]
    BY <1>8 DEF EventSets, ClipTypes
  <2>3. ClipTypes'
    BY <1>8, <2>1, <2>2 DEF EventSets, ClipTypes
  <2>4. ListenInv'
    BY <1>8, <2>2 DEF EventSets, ListenInv
  <2>5. QED
    BY <2>3, <2>4
<1>9. CASE DesktopCopy
  <2>1. PICK t \in Copies : board' = [board EXCEPT !.text = t, !.pulls = Asked(t)]
    BY <1>9 DEF DesktopCopy
  <2>2. Asked(t) \subseteq Copies
    BY DEF Asked, Drained, ClipTypes
  <2>3. board' = [on |-> board.on, text |-> t, known |-> board.known, pulls |-> Asked(t)]
    BY <2>1 DEF ClipTypes
  <2>4. ClipTypes'
    <3>1. apart' \in BOOLEAN
      BY <1>9 DEF DesktopCopy
    <3>2. QED
      BY <1>9, <2>2, <2>3, <3>1 DEF DesktopCopy, ClipTypes
  <2>5. ListenInv'
    BY <1>9 DEF DesktopCopy, ListenInv
  <2>6. QED
    BY <2>4, <2>5
<1>10. CASE PullEnds
  <2>1. PICK t \in board.pulls :
          IF OnKWin /\ (~up \/ t = board.known)
          THEN board' = [board EXCEPT !.pulls = @ \ {t}] /\ UNCHANGED wire
          ELSE board' = [board EXCEPT !.pulls = @ \ {t}, !.known = t] /\ SendToConsumer(t)
    BY <1>10 DEF PullEnds
  <2>2. t \in Copies \cup {NoText} /\ Append(wire.out, t) \in Seq(Copies \cup {NoText})
    BY Appended DEF ClipTypes
  <2>3. board' = [on |-> board.on, text |-> board.text, known |-> board'.known, pulls |-> board.pulls \ {t}]
        /\ board'.known \in {board.known, t}
    BY <2>1 DEF ClipTypes
  <2>4. wire' = [in |-> wire.in, out |-> wire'.out] /\ wire'.out \in Seq(Copies \cup {NoText})
    BY <2>1, <2>2 DEF ClipTypes, SendToConsumer
  <2>5. ClipTypes'
    BY <1>10, <2>2, <2>3, <2>4 DEF PullEnds, ClipTypes
  <2>6. ListenInv'
    BY <1>10 DEF PullEnds, ListenInv
  <2>7. QED
    BY <2>5, <2>6
<1>11. CASE PullFails
  <2>1. PICK t \in board.pulls :
          IF OnKWin /\ up /\ board.known # NoText
          THEN board' = [board EXCEPT !.pulls = @ \ {t}, !.known = NoText] /\ SendToConsumer(NoText)
          ELSE board' = [board EXCEPT !.pulls = @ \ {t}] /\ UNCHANGED wire
    BY <1>11 DEF PullFails
  <2>2. Append(wire.out, NoText) \in Seq(Copies \cup {NoText})
    BY Appended DEF ClipTypes
  <2>3. board' = [on |-> board.on, text |-> board.text, known |-> board'.known, pulls |-> board.pulls \ {t}]
        /\ board'.known \in {board.known, NoText}
    BY <2>1 DEF ClipTypes
  <2>4. wire' = [in |-> wire.in, out |-> wire'.out] /\ wire'.out \in Seq(Copies \cup {NoText})
    BY <2>1, <2>2 DEF ClipTypes, SendToConsumer
  <2>5. ClipTypes'
    BY <1>11, <2>3, <2>4 DEF PullFails, ClipTypes
  <2>6. ListenInv'
    BY <1>11 DEF PullFails, ListenInv
  <2>7. QED
    BY <2>5, <2>6
<1>12. CASE DesktopTakes
  <2>1. wire.in \in Seq(Copies) /\ wire.in # <<>>
    BY <1>12 DEF DesktopTakes, Arrives, ClipTypes
  <2>2. Head(wire.in) \in Copies /\ Tail(wire.in) \in Seq(Copies)
    BY <2>1, Taken1
  <2>3. wire' = [in |-> Tail(wire.in), out |-> wire.out]
    BY <1>12 DEF DesktopTakes, ClipTypes
  <2>4. \/ board' = board
        \/ board' = [on |-> board.on, text |-> Head(wire.in), known |-> Head(wire.in),
                     pulls |-> IF OnKWin THEN Drained(Head(wire.in)) ELSE {}]
    BY <1>12 DEF DesktopTakes, Owned, ClipTypes
  <2>5. (IF OnKWin THEN Drained(Head(wire.in)) ELSE {}) \subseteq Copies
    BY <2>2 DEF Drained, ClipTypes
  <2>6. ClipTypes'
    <3>1. wire' = [in |-> wire'.in, out |-> wire'.out] /\ wire'.in \in Seq(Copies)
          /\ wire'.out \in Seq(Copies \cup {NoText})
      BY <2>2, <2>3 DEF ClipTypes
    <3>2. board' = [on |-> board'.on, text |-> board'.text, known |-> board'.known, pulls |-> board'.pulls]
          /\ board'.pulls \subseteq Copies
      BY <2>4, <2>5 DEF ClipTypes
    <3>3. board'.text \in Copies \cup {NoText} /\ board'.known \in Copies \cup {NoText}
      BY <2>2, <2>4 DEF ClipTypes
    <3>4. phone' = phone /\ events' = events /\ render' = render /\ apart' = apart
      BY <1>12 DEF DesktopTakes
    <3>5. QED
      BY <3>1, <3>2, <3>3, <3>4 DEF ClipTypes
  <2>7. ListenInv'
    BY <1>12 DEF DesktopTakes, ListenInv
  <2>8. QED
    BY <2>6, <2>7
<1>13. QED
  BY <1>1, <1>2, <1>3, <1>4, <1>5, <1>6, <1>7, <1>8, <1>9, <1>10, <1>11, <1>12 DEF ClipStep

LEMMA TransportTypes ==
  ASSUME ClipTypes, Transport
  PROVE  /\ wire' = [in |-> <<>>, out |-> <<>>] /\ apart' \in BOOLEAN
         /\ board' = [on |-> board.on, text |-> board.text, known |-> board.known, pulls |-> board'.pulls]
         /\ board'.pulls \in {board.pulls, {}}
BY DEF Transport, ClipTypes

LEMMA SessionTypes ==
  ASSUME ClipTypes, ListenInv, (ClipOpens /\ up') \/ (ClipLoses /\ ~up') \/ (ClipStops /\ ~up')
  PROVE  ClipTypes' /\ ListenInv'
<1>0. <<>> \in Seq(Copies) /\ <<>> \in Seq(Copies \cup {NoText})
  BY EmptySeq
<1>1. CASE ClipOpens /\ up'
  <2>1. ClipTypes'
    <3>1. Transport /\ phone' = phone /\ events' = events /\ render' \in {"none", "listen"}
      BY <1>1 DEF ClipOpens
    <3>2. wire' = [in |-> wire'.in, out |-> wire'.out] /\ wire'.in \in Seq(Copies)
          /\ wire'.out \in Seq(Copies \cup {NoText}) /\ apart' \in BOOLEAN
      <4>1. wire' = [in |-> <<>>, out |-> <<>>] /\ apart' \in BOOLEAN
        BY <3>1, TransportTypes
      <4>2. QED
        BY <1>0, <4>1
    <3>3. /\ board' = [on |-> board'.on, text |-> board'.text, known |-> board'.known, pulls |-> board'.pulls]
          /\ board'.text = board.text /\ board'.known = board.known /\ board'.pulls \in {board.pulls, {}}
      BY <3>1, TransportTypes
    <3>4. QED
      BY <3>1, <3>2, <3>3 DEF ClipTypes
  <2>2. ListenInv'
    BY <1>1 DEF ClipOpens, ListenInv
  <2>3. QED
    BY <2>1, <2>2
<1>2. ASSUME ClipLoses \/ ClipStops, ~up'
      PROVE  ClipTypes' /\ ListenInv'
  <2>1. phone' = [text |-> phone.text, last |-> phone.last, listening |-> FALSE,
                  heard |-> phone.heard, service |-> phone.service]
    BY <1>2 DEF ClipLoses, ClipStops, ClipTypes
  <2>2. events' = [on |-> FALSE, hand |-> events.hand] /\ render' = render
    BY <1>2 DEF ClipLoses, ClipStops, ClipTypes
  <2>3. /\ wire' = [in |-> wire'.in, out |-> wire'.out] /\ wire'.in \in {wire.in, <<>>}
        /\ wire'.out \in {wire.out, <<>>}
        /\ apart' \in BOOLEAN
        /\ board' = [on |-> board.on, text |-> board.text, known |-> board.known, pulls |-> board'.pulls]
        /\ board'.pulls \in {board.pulls, {}}
    <3>1. CASE Transport
      BY <3>1, TransportTypes
    <3>2. CASE UNCHANGED <<wire, board, apart>>
      BY <3>2 DEF ClipTypes
    <3>3. QED
      BY <1>2, <3>1, <3>2 DEF ClipLoses, ClipStops
  <2>4. ClipTypes'
    <3>1. wire' = [in |-> wire'.in, out |-> wire'.out] /\ wire'.in \in Seq(Copies)
          /\ wire'.out \in Seq(Copies \cup {NoText}) /\ apart' \in BOOLEAN
      BY <1>0, <2>3 DEF ClipTypes
    <3>2. /\ board' = [on |-> board'.on, text |-> board'.text, known |-> board'.known, pulls |-> board'.pulls]
          /\ board'.text = board.text /\ board'.known = board.known /\ board'.pulls \in {board.pulls, {}}
      BY <2>3
    <3>3. QED
      BY <2>1, <2>2, <3>1, <3>2 DEF ClipTypes
  <2>5. ListenInv'
    BY <1>2, <2>1, <2>2 DEF ListenInv
  <2>6. QED
    BY <2>4, <2>5
<1>3. QED
  BY <1>1, <1>2

-----------------------------------------------------------------------------
(* The text that prevails.                                                 *)

\* What is under way stays, and so does what the phone has, but for what somebody is to send.
LEMMA StaysFollowing ==
  ASSUME ClipInv, ~apart' => ~apart, board' = board, events'.hand = events.hand, wire'.out = wire.out,
         Outgoing' = Outgoing, phone'.last = phone.last,
         Newer' \/ phone'.text = phone.last \/ (phone'.text = phone.text /\ ~Newer)
  PROVE  ClipInv'
<1>1. SUFFICES ASSUME ~apart' PROVE Follows'
  BY DEF ClipInv
<1>2. Follows
  BY <1>1 DEF ClipInv
<1>3. (OnKWin <=> OnKWin') /\ (Inbound <=> Inbound')
  BY DEF OnKWin, Inbound
<1>4. \A k : Has(k) => phone'.last = k /\ (phone'.text = k \/ Newer')
  BY DEF Has
<1>5. Has(Last(Outgoing)) => Has(Last(Outgoing))'
  BY <1>4 DEF Has
<1>6. Gets(board.known) => Gets(board.known)'
  BY <1>4 DEF Gets, Has
<1>7. QED
  BY <1>2, <1>3, <1>5, <1>6 DEF Follows

\* The phone sends a text, or is about to.
LEMMA SentFollows ==
  ASSUME ClipTypes, ClipInv, NEW t \in Copies, Sent(t), board' = board, events' = events,
         wire'.out = wire.out, up /\ render \notin Copies => Outgoing' = Append(wire.in, t),
         phone'.last = t, phone'.text = t
  PROVE  ClipInv'
<1>1. SUFFICES ASSUME ~apart' PROVE Follows'
  BY DEF ClipInv
<1>2. /\ up /\ ~Inbound /\ render \notin Copies /\ (OnKWin => wire.in = <<>>)
      /\ ~(apart /\ t = board.known)
  BY <1>1 DEF Sent
<1>3. wire.in \in Seq(Copies) /\ Outgoing = wire.in
  BY <1>2, OutOfIs DEF ClipTypes, Outgoing
<1>4. /\ Outgoing' = Append(wire.in, t) /\ Outgoing' # <<>> /\ Last(Outgoing)' = t
      /\ Len(wire.in) \in Nat /\ Len(Outgoing') = Len(wire.in) + 1
      /\ Outgoing'[Len(wire.in) + 1] = t /\ \A n \in 1..Len(wire.in) : Outgoing'[n] = wire.in[n]
  <2>1. /\ Append(wire.in, t) # <<>> /\ Last(Append(wire.in, t)) = t
        /\ Len(wire.in) \in Nat /\ Len(Append(wire.in, t)) = Len(wire.in) + 1
        /\ Append(wire.in, t)[Len(wire.in) + 1] = t
        /\ \A n \in 1..Len(wire.in) : Append(wire.in, t)[n] = wire.in[n]
    BY <1>3, Appended
  <2>2. Outgoing' = Append(wire.in, t)
    BY <1>2
  <2>3. QED
    BY <2>1, <2>2
<1>5. ~Inbound' /\ (OnKWin' <=> OnKWin) /\ board.pulls = {} /\ board' = board
  BY <1>2 DEF Inbound, OnKWin
<1>6. Has(t)'
  BY DEF Has
<1>7. OnKWin' => Len(Outgoing') = 1
  <2>1. Len(<<>>) = 0
    BY EmptySeq
  <2>2. QED
    BY <1>2, <1>4, <1>5, <2>1
<1>8. board.known = board.text \/ \E n \in 1..Len(Outgoing') : Outgoing'[n] # board.known
  <2>1. CASE t # board.known
    BY <1>4, <2>1
  <2>2. CASE t = board.known
    <3>1. Follows
      BY <1>2, <2>2 DEF ClipInv
    <3>2. CASE Outgoing = <<>>
      BY <3>1, <3>2, <1>5 DEF Follows
    <3>3. CASE Outgoing # <<>>
      <4>1. board.known = board.text \/ \E n \in 1..Len(wire.in) : wire.in[n] # board.known
        BY <3>1, <3>3, <1>3 DEF Follows
      <4>2. \A n \in 1..Len(wire.in) : n \in 1..Len(Outgoing')
        BY <1>4
      <4>3. QED
        BY <1>4, <4>1, <4>2
    <3>4. QED
      BY <3>2, <3>3
  <2>3. QED
    BY <2>1, <2>2
<1>9. QED
  BY <1>4, <1>5, <1>6, <1>7, <1>8 DEF Follows, Has

LEMMA PushFollows ==
  ASSUME ClipTypes, ClipInv, NEW p, p \in {phone, [phone EXCEPT !.heard = FALSE]}, Push(p),
         UNCHANGED <<up, events, render, board>>
  PROVE  ClipInv'
<1>1. p.text = phone.text /\ p.last = phone.last
  BY DEF ClipTypes
<1>2. CASE focused' /\ p.text \notin {NoText, p.last}
  <2>1. Sent(phone.text) /\ phone'.text = phone.text /\ phone'.last = phone.text /\ phone.text \in Copies
    BY <1>1, <1>2 DEF Push, ClipTypes
  <2>2. wire'.out = wire.out /\ (up => wire'.in = Append(wire.in, phone.text))
    BY <1>1, <1>2 DEF Push, SendClipboard, ClipTypes
  <2>3. up /\ render \notin Copies => Outgoing' = Append(wire.in, phone.text)
    <3>1. Append(wire.in, phone.text) \in Seq(Copies)
      BY <2>1, Appended DEF ClipTypes
    <3>2. render \notin Copies => OutOf(Append(wire.in, phone.text), render) = Append(wire.in, phone.text)
      BY <3>1, OutOfIs
    <3>3. QED
      BY <2>2, <3>2 DEF Outgoing
  <2>4. QED
    BY <2>1, <2>2, <2>3, SentFollows
<1>3. CASE ~(focused' /\ p.text \notin {NoText, p.last})
  <2>1. phone' = p /\ wire' = wire /\ apart' = apart
    BY <1>3 DEF Push
  <2>2. Newer' \/ (phone'.text = phone.text /\ ~Newer)
    BY <1>1, <1>3, <2>1 DEF Newer
  <2>3. Outgoing' = Outgoing
    BY <2>1 DEF Outgoing
  <2>4. QED
    BY <1>1, <2>1, <2>2, <2>3, StaysFollowing
<1>4. QED
  BY <1>2, <1>3

LEMMA PhoneFollows ==
  ASSUME ClipTypes, ListenInv, ClipInv, UNCHANGED <<up, focused>>,
         PhoneCopy \/ ListenerRuns \/ RenderListens \/ RenderStarts \/ RenderReads \/ RenderSends
  PROVE  ClipInv'
<1>1. CASE PhoneCopy
  <2>1. PICK t \in Copies : phone' = [phone EXCEPT !.text = t, !.heard = @ \/ phone.listening]
    BY <1>1 DEF PhoneCopy
  <2>2. phone'.text = t /\ phone'.last = phone.last /\ (phone'.heard <=> phone.heard \/ phone.listening)
    BY <2>1 DEF ClipTypes
  <2>3. /\ phone.service /\ events' = events /\ render' = render /\ wire' = wire /\ board' = board
        /\ apart' = apart
    BY <1>1 DEF PhoneCopy
  <2>4. t # NoText
    BY ClipboardAssumption
  <2>5. up => phone.listening \/ render = "listen"
    BY <2>3 DEF ListenInv
  <2>6. Newer' \/ phone'.text = phone.last
    BY <2>2, <2>3, <2>4, <2>5 DEF Newer
  <2>7. Outgoing' = Outgoing
    BY <2>3 DEF Outgoing
  <2>8. QED
    BY <2>2, <2>3, <2>6, <2>7, StaysFollowing
<1>2. CASE ListenerRuns
  BY <1>2, PushFollows DEF ListenerRuns
<1>3. CASE RenderListens \/ RenderStarts
  <2>1. /\ render \in {"listen", "start"} /\ render' \in {"start", "sync"}
        /\ phone'.text = phone.text /\ phone'.last = phone.last /\ phone'.heard = phone.heard
        /\ events'.hand = events.hand /\ wire' = wire /\ board' = board /\ apart' = apart
    BY <1>3 DEF RenderListens, RenderStarts, ClipTypes
  <2>2. render \notin Copies /\ render' \notin Copies
    BY <2>1, ClipboardAssumption
  <2>3. Outgoing' = Outgoing
    BY <2>1, <2>2 DEF Outgoing, OutOf
  <2>4. Newer' \/ (phone'.text = phone.text /\ ~Newer)
    BY <2>1 DEF Newer
  <2>5. QED
    BY <2>1, <2>3, <2>4, StaysFollowing
<1>4. CASE RenderReads
  <2>1. /\ render = "sync" /\ events' = events /\ wire' = wire /\ board' = board
    BY <1>4 DEF RenderReads
  <2>2. "sync" \notin Copies /\ "none" \notin Copies
    BY ClipboardAssumption
  <2>3. CASE focused /\ phone.text # NoText
    <3>1. /\ render' = phone.text /\ Sent(phone.text) /\ phone'.text = phone.text /\ phone'.last = phone.text
          /\ phone.text \in Copies
      BY <1>4, <2>3 DEF RenderReads, ClipTypes
    <3>2. Outgoing' = Append(wire.in, phone.text)
      BY <2>1, <3>1, OutOfIs DEF Outgoing, ClipTypes
    <3>3. QED
      BY <2>1, <3>1, <3>2, SentFollows
  <2>4. CASE ~(focused /\ phone.text # NoText)
    <3>1. render' = "none" /\ phone' = phone /\ apart' = apart
      BY <1>4, <2>4 DEF RenderReads
    <3>2. Outgoing' = Outgoing
      BY <2>1, <2>2, <3>1 DEF Outgoing, OutOf
    <3>3. Newer' \/ (phone'.text = phone.text /\ ~Newer)
      BY <2>4, <3>1 DEF Newer
    <3>4. QED
      BY <2>1, <3>1, <3>2, <3>3, StaysFollowing
  <2>5. QED
    BY <2>3, <2>4
<1>5. CASE RenderSends
  <2>1. /\ render \in Copies /\ render' = "none" /\ phone' = phone /\ events' = events /\ board' = board
        /\ (~apart' => up /\ ~apart) /\ wire'.out = wire.out /\ (up => wire'.in = Append(wire.in, render))
    BY <1>5 DEF RenderSends, SendClipboard, ClipTypes
  <2>2. Newer' \/ (phone'.text = phone.text /\ ~Newer)
    BY <2>1, ClipboardAssumption DEF Newer
  <2>3. CASE ~up
    BY <2>1, <2>3 DEF ClipInv
  <2>4. CASE up
    <3>1. wire.in \in Seq(Copies) /\ Outgoing = Append(wire.in, render)
      BY <2>1, OutOfIs DEF Outgoing, ClipTypes
    <3>2. "none" \notin Copies /\ Append(wire.in, render) \in Seq(Copies)
      BY <2>1, <3>1, ClipboardAssumption, Appended
    <3>3. OutOf(Append(wire.in, render), "none") = Append(wire.in, render)
      BY <3>2, OutOfIs
    <3>4. Outgoing' = Outgoing
      BY <2>1, <2>4, <3>1, <3>3 DEF Outgoing
    <3>5. QED
      BY <2>1, <2>2, <3>4, StaysFollowing
  <2>5. QED
    BY <2>3, <2>4
<1>6. QED
  BY <1>1, <1>2, <1>3, <1>4, <1>5

\* The event thread takes a text down, then sets it.
LEMMA EventsFollow ==
  ASSUME ClipTypes, ListenInv, ClipInv, UNCHANGED <<up, focused>>, EventTakes \/ EventSets
  PROVE  ClipInv'
<1>1. SUFFICES ASSUME ~apart' PROVE Follows'
  BY DEF ClipInv
<1>2. apart' = apart /\ board' = board /\ render' = render /\ wire'.in = wire.in /\ (OnKWin' <=> OnKWin)
  BY DEF EventTakes, EventSets, ClipTypes, OnKWin
<1>3. Follows
  BY <1>1, <1>2 DEF ClipInv
<1>4. Outgoing' = Outgoing
  BY <1>2 DEF Outgoing
<1>5. Inbound
  BY DEF EventTakes, EventSets, Comes, Inbound
<1>6. Outgoing = <<>>
  BY <1>3, <1>5 DEF Follows
<1>7. CASE EventTakes
  <2>1. /\ wire.out \in Seq(Copies \cup {NoText}) /\ wire.out # <<>> /\ events.hand = NoText
        /\ wire'.out = Tail(wire.out) /\ events'.hand = Head(wire.out)
        /\ phone' = IF Head(wire.out) = NoText THEN phone ELSE [phone EXCEPT !.last = Head(wire.out)]
    BY <1>7 DEF EventTakes, Comes, ClipTypes
  <2>2. ASSUME Gets(board.known) PROVE Gets(board.known)'
    <3>1. CASE EndsIn(wire.out, board.known)
      <4>1. EndsIn(Tail(wire.out), board.known)
            \/ (NoTexts(Tail(wire.out)) /\ Head(wire.out) = board.known /\ board.known # NoText)
        BY <2>1, <3>1, TailEnds
      <4>2. Head(wire.out) # NoText => phone'.last = Head(wire.out)
        BY <2>1 DEF ClipTypes
      <4>3. QED
        BY <1>2, <2>1, <4>1, <4>2 DEF Gets
    <3>2. CASE NoTexts(wire.out) /\ Has(board.known)
      <4>1. Head(wire.out) = NoText /\ NoTexts(Tail(wire.out))
        BY <2>1, <3>2, TailEnds
      <4>2. phone' = phone /\ (Newer => Newer')
        BY <1>2, <2>1, <4>1 DEF Newer
      <4>3. QED
        BY <1>2, <2>1, <3>2, <4>1, <4>2 DEF Gets, Has
    <3>3. QED
      BY <2>1, <2>2, <3>1, <3>2 DEF Gets
  <2>3. QED
    BY <1>2, <1>3, <1>4, <1>6, <2>2 DEF Follows
<1>8. CASE EventSets
  <2>1. /\ events.hand # NoText /\ events'.hand = NoText /\ wire' = wire
        /\ phone'.text = events.hand /\ phone'.last = phone.last
    BY <1>8 DEF EventSets, ClipTypes
  <2>2. Gets(board.known) => Gets(board.known)'
    BY <1>2, <2>1 DEF Gets, Has
  <2>3. QED
    BY <1>2, <1>3, <1>4, <1>6, <2>2 DEF Follows
<1>9. QED
  BY <1>7, <1>8

\* Something on the desktop copies; its owner answers, or does not.
LEMMA SelectionFollows ==
  ASSUME ClipTypes, ClipInv, UNCHANGED <<up, focused>>, DesktopCopy \/ PullEnds \/ PullFails
  PROVE  ClipInv'
<1>1. SUFFICES ASSUME ~apart' PROVE Follows'
  BY DEF ClipInv
<1>2. phone' = phone /\ events' = events /\ render' = render /\ wire'.in = wire.in
  BY DEF DesktopCopy, PullEnds, PullFails, SendToConsumer, ClipTypes
<1>3. (Newer <=> Newer') /\ Outgoing' = Outgoing
  BY <1>2 DEF Newer, Outgoing
<1>4. CASE DesktopCopy
  <2>1. PICK t \in Copies :
          /\ board' = [board EXCEPT !.text = t, !.pulls = Asked(t)]
          /\ apart' = (\/ ~up \/ Outbound \/ (OnKWin /\ board.pulls # {})
                       \/ (apart /\ OnKWin /\ t = board.known))
    BY <1>4 DEF DesktopCopy
  <2>2. up /\ ~Outbound /\ (OnKWin => board.pulls = {}) /\ ~(apart /\ OnKWin /\ t = board.known)
    BY <1>1, <2>1
  <2>3. Outgoing = <<>>
    BY <2>2, OutOfIs DEF Outbound, Outgoing, ClipTypes
  <2>4. Asked(t) = {t}
    BY <2>2 DEF Asked, Drained
  <2>5. board'.text = t /\ board'.known = board.known /\ board'.pulls = {t} /\ (OnKWin' <=> OnKWin)
    BY <2>1, <2>4 DEF ClipTypes, OnKWin
  <2>6. CASE OnKWin /\ t = board.known
    <3>1. Follows
      BY <2>2, <2>6 DEF ClipInv
    <3>2. Gets(board.known)
      BY <2>2, <2>3, <2>6, <3>1 DEF Follows
    <3>3. wire' = wire
      BY <1>4 DEF DesktopCopy
    <3>4. Gets(board.known)'
      BY <1>2, <1>3, <2>5, <3>2, <3>3 DEF Gets, Has
    <3>5. QED
      BY <1>3, <2>3, <2>5, <2>6, <3>4 DEF Follows
  <2>7. CASE ~(OnKWin /\ t = board.known)
    BY <1>3, <2>3, <2>5, <2>7 DEF Follows
  <2>8. QED
    BY <2>6, <2>7
<1>5. CASE PullEnds
  <2>1. up /\ ~apart
    BY <1>1, <1>5 DEF PullEnds
  <2>2. Follows
    BY <2>1 DEF ClipInv
  <2>3. PICK t \in board.pulls :
          IF OnKWin /\ (~up \/ t = board.known)
          THEN board' = [board EXCEPT !.pulls = @ \ {t}] /\ UNCHANGED wire
          ELSE board' = [board EXCEPT !.pulls = @ \ {t}, !.known = t] /\ SendToConsumer(t)
    BY <1>5 DEF PullEnds
  <2>4. t = board.text /\ board.pulls = {t} /\ t \in Copies
    BY <2>2, <2>3 DEF Follows, ClipTypes
  <2>5. Outgoing = <<>>
    BY <2>2, <2>4 DEF Follows, Inbound
  <2>6. CASE OnKWin /\ t = board.known
    <3>1. board'.text = board.text /\ board'.known = board.known /\ board'.pulls = {} /\ wire' = wire
      BY <2>3, <2>4, <2>6 DEF ClipTypes
    <3>2. board.known = board.text /\ Gets(board.known)
      BY <2>2, <2>4, <2>5, <2>6 DEF Follows
    <3>3. Gets(board.known)'
      BY <1>2, <1>3, <3>1, <3>2 DEF Gets, Has
    <3>4. QED
      BY <1>3, <2>5, <3>1, <3>2, <3>3 DEF Follows
  <2>7. CASE ~(OnKWin /\ t = board.known)
    <3>1. /\ board'.text = t /\ board'.known = t /\ board'.pulls = {}
          /\ wire'.out = Append(wire.out, t)
      BY <2>1, <2>3, <2>4, <2>7 DEF ClipTypes, SendToConsumer
    <3>2. EndsIn(Append(wire.out, t), t)
      BY <2>4, AppendEnds, ClipboardAssumption DEF ClipTypes
    <3>3. Gets(board.known)'
      BY <3>1, <3>2 DEF Gets
    <3>4. QED
      BY <1>3, <2>5, <3>1, <3>3 DEF Follows
  <2>8. QED
    BY <2>6, <2>7
<1>6. CASE PullFails
  BY <1>1, <1>6 DEF PullFails
<1>7. QED
  BY <1>4, <1>5, <1>6

\* The desktop takes the first of what goes out.
LEMMA TakenFollows ==
  ASSUME ClipTypes, ClipInv, UNCHANGED <<up, focused>>, DesktopTakes
  PROVE  ClipInv'
<1>1. SUFFICES ASSUME ~apart' PROVE Follows'
  BY DEF ClipInv
<1> DEFINE t == Head(wire.in)
<1>2. /\ up /\ wire.in \in Seq(Copies) /\ wire.in # <<>> /\ wire'.in = Tail(wire.in) /\ wire'.out = wire.out
      /\ board' = (IF t = board.known THEN board ELSE Owned(t))
      /\ phone' = phone /\ events' = events /\ render' = render /\ apart' = apart
  BY DEF DesktopTakes, Arrives, ClipTypes
<1>3. /\ Outgoing[1] = t /\ Outgoing # <<>> /\ Outgoing' = Tail(Outgoing)
      /\ Outgoing \in Seq(Copies) /\ t \in Copies
      /\ Outgoing' # <<>> => Last(Outgoing') = Last(Outgoing)
      /\ Outgoing' = <<>> => Last(Outgoing) = t /\ Len(Outgoing) = 1
  <2>1. /\ OutOf(wire.in, render)[1] = t /\ OutOf(wire.in, render) # <<>>
        /\ OutOf(Tail(wire.in), render) = Tail(OutOf(wire.in, render))
        /\ OutOf(wire.in, render) \in Seq(Copies) /\ t \in Copies
        /\ OutOf(Tail(wire.in), render) # <<>> => Last(OutOf(Tail(wire.in), render)) = Last(OutOf(wire.in, render))
        /\ OutOf(Tail(wire.in), render) = <<>> => Last(OutOf(wire.in, render)) = t /\ Len(OutOf(wire.in, render)) = 1
    BY <1>2, OutOfTail
  <2>2. QED
    BY <1>2, <2>1 DEF Outgoing
<1>4. /\ Len(Outgoing) \in Nat /\ 1 \in 1..Len(Outgoing) /\ Len(Outgoing') = Len(Outgoing) - 1
      /\ \A n \in 1..Len(Outgoing) - 1 : Outgoing'[n] = Outgoing[n + 1]
  <2>1. /\ Len(Outgoing) \in Nat /\ 1 \in 1..Len(Outgoing) /\ Len(Tail(Outgoing)) = Len(Outgoing) - 1
        /\ \A n \in 1..Len(Outgoing) - 1 : Tail(Outgoing)[n] = Outgoing[n + 1]
    BY <1>3, Taken1
  <2>2. QED
    BY <1>3, <2>1
<1>5. Follows
  BY <1>1, <1>2 DEF ClipInv
<1>6. /\ ~Inbound /\ Has(Last(Outgoing)) /\ (OnKWin => Len(Outgoing) = 1)
      /\ board.known = board.text \/ \E n \in 1..Len(Outgoing) : Outgoing[n] # board.known
  BY <1>3, <1>5 DEF Follows
<1>7. events'.hand = NoText /\ wire'.out = <<>> /\ board.pulls = {} /\ (OnKWin <=> board.on = "kwin")
  BY <1>2, <1>6 DEF Inbound, OnKWin
<1>8. Newer <=> Newer'
  BY <1>2 DEF Newer
<1>9. Has(Last(Outgoing)) => Has(Last(Outgoing))' \/ Outgoing' = <<>>
  BY <1>2, <1>3, <1>8 DEF Has
<1>10. OnKWin => Outgoing' = <<>>
  <2>0. Len(Outgoing) = 1 => Len(Outgoing') = 0
    BY <1>4
  <2>1. OnKWin => Len(Outgoing') = 0
    BY <1>6, <2>0
  <2>2. Outgoing' \in Seq(Copies)
    BY <1>3, Taken1
  <2>3. QED
    BY <2>1, <2>2, EmptySeq
<1>11. NoTexts(wire.out)'
  BY <1>7, NoneEnds
<1>12. Outgoing' = <<>> => phone'.last = t /\ (phone'.text = t \/ Newer')
  BY <1>2, <1>3, <1>6, <1>8 DEF Has
<1>13. CASE t = board.known
  <2>1. board' = board /\ ~Inbound' /\ (OnKWin' <=> OnKWin)
    BY <1>2, <1>7, <1>13 DEF Inbound, OnKWin
  <2>2. board.known = board.text \/ \E n \in 1..Len(Outgoing') : Outgoing'[n] # board.known
    <3>1. SUFFICES ASSUME NEW n \in 1..Len(Outgoing), Outgoing[n] # board.known
                   PROVE  \E m \in 1..Len(Outgoing') : Outgoing'[m] # board.known
      BY <1>6
    <3>2. n # 1
      BY <1>3, <1>13, <3>1
    <3>3. n - 1 \in 1..Len(Outgoing') /\ Outgoing'[n - 1] = Outgoing[n]
      BY <1>4, <3>2
    <3>4. QED
      BY <3>1, <3>3
  <2>3. CASE Outgoing' # <<>>
    BY <1>6, <1>7, <1>9, <1>10, <2>1, <2>2, <2>3 DEF Follows
  <2>4. CASE Outgoing' = <<>>
    <3>1. \A n \in 1..Len(Outgoing') : FALSE
      <4>1. Len(Outgoing') = 0
        BY <1>3, <1>4, <2>4
      <4>2. QED
        BY <4>1
    <3>2. board.known = board.text
      BY <2>2, <3>1
    <3>3. Gets(board.known)'
      BY <1>7, <1>11, <1>12, <1>13, <2>1, <2>4 DEF Gets, Has
    <3>4. QED
      BY <1>7, <2>1, <2>4, <3>2, <3>3 DEF Follows
  <2>5. QED
    BY <2>3, <2>4
<1>14. CASE t # board.known
  <2>1. board'.text = t /\ board'.known = t /\ board'.on = board.on
        /\ board'.pulls = IF OnKWin THEN Drained(t) ELSE {}
    BY <1>2, <1>14 DEF Owned, ClipTypes
  <2>2. board'.pulls \subseteq {board'.text} /\ (~OnKWin => board'.pulls = {}) /\ (OnKWin' <=> OnKWin)
    BY <1>7, <2>1 DEF Drained, OnKWin
  <2>3. CASE Outgoing' # <<>>
    <3>1. ~OnKWin /\ ~Inbound'
      BY <1>7, <1>10, <2>2, <2>3 DEF Inbound
    <3>2. QED
      BY <1>6, <1>9, <2>1, <2>2, <2>3, <3>1 DEF Follows
  <2>4. CASE Outgoing' = <<>>
    <3>1. Gets(board.known)'
      BY <1>7, <1>11, <1>12, <2>1, <2>4 DEF Gets, Has
    <3>2. QED
      BY <2>1, <2>2, <2>4, <3>1 DEF Follows
  <2>5. QED
    BY <2>3, <2>4
<1>15. QED
  BY <1>13, <1>14

-----------------------------------------------------------------------------
(* Sessions, and the rest of the phone's input.                            *)

\* A session made or lost with nothing on the channel changes no clipboard.
LEMMA TransportKeeps ==
  ASSUME ClipTypes, Transport, ~apart'
  PROVE  ~apart /\ board' = board /\ wire'.out = wire.out /\ wire'.in = wire.in
<1>1. /\ wire.in = <<>> /\ wire.out = <<>> /\ board'.pulls = board.pulls /\ ~apart
      /\ wire' = [in |-> <<>>, out |-> <<>>]
  BY DEF Transport
<1>2. board' = [on |-> board.on, text |-> board.text, known |-> board.known, pulls |-> board'.pulls]
  BY TransportTypes
<1>3. board' = board
  BY <1>1, <1>2 DEF ClipTypes
<1>4. QED
  BY <1>1, <1>3

LEMMA SessionFollows ==
  ASSUME ClipTypes, ListenInv, ClipInv, (ClipOpens /\ up') \/ (ClipLoses /\ ~up') \/ (ClipStops /\ ~up')
  PROVE  ClipInv'
<1>1. SUFFICES ASSUME ~apart' PROVE ClipInv'
  BY DEF ClipInv
<1>2. CASE ClipOpens /\ up'
  <2>1. /\ render = "none" /\ render' = (IF phone.service THEN "listen" ELSE "none")
        /\ Transport /\ phone' = phone /\ events' = events
    BY <1>2 DEF ClipOpens
  <2>2. ~apart /\ board' = board /\ wire'.out = wire.out /\ wire'.in = wire.in
    BY <1>1, <2>1, TransportKeeps
  <2>3. "none" \notin Copies /\ "listen" \notin Copies
    BY ClipboardAssumption
  <2>4. Outgoing' = Outgoing
    BY <2>1, <2>2, <2>3 DEF Outgoing, OutOf
  <2>5. Newer' \/ (phone'.text = phone.text /\ ~Newer)
    <3>1. CASE phone.service
      BY <2>1, <3>1 DEF Newer
    <3>2. CASE ~phone.service
      BY <2>1, <3>2 DEF Newer, ListenInv
    <3>3. QED
      BY <3>1, <3>2
  <2>6. QED
    BY <2>1, <2>2, <2>4, <2>5, StaysFollowing
<1>3. ASSUME ClipLoses \/ ClipStops, ~up'
      PROVE  ClipInv'
  <2>1. /\ phone'.text = phone.text /\ phone'.last = phone.last /\ events'.hand = events.hand
        /\ render' = render
    BY <1>3 DEF ClipLoses, ClipStops, ClipTypes
  <2>2. ~apart /\ board' = board /\ wire'.out = wire.out /\ wire'.in = wire.in
    <3>1. CASE Transport
      BY <1>1, <3>1, TransportKeeps
    <3>2. CASE UNCHANGED <<wire, board, apart>>
      BY <1>1, <3>2
    <3>3. QED
      BY <1>3, <3>1, <3>2 DEF ClipLoses, ClipStops
  <2>3. Outgoing' = Outgoing
    BY <2>1, <2>2 DEF Outgoing
  <2>4. Newer' \/ (phone'.text = phone.text /\ ~Newer)
    BY <1>3, <2>1 DEF Newer
  <2>5. QED
    BY <2>1, <2>2, <2>3, <2>4, StaysFollowing
<1>4. QED
  BY <1>2, <1>3

\* The focus is lost, or the session gone, without a word to the clipboards.
LEMMA QuietFollows ==
  ASSUME ClipTypes, ListenInv, ClipInv, UNCHANGED clipVars, ~up' \/ (up' = up /\ (focused' => focused))
  PROVE  ClipTypes' /\ ListenInv' /\ ClipInv'
<1>1. /\ phone' = phone /\ events' = events /\ render' = render /\ wire' = wire /\ board' = board
      /\ apart' = apart
  BY DEF clipVars
<1>2. ClipTypes' /\ ListenInv'
  BY <1>1 DEF ClipTypes, ListenInv
<1>3. Outgoing' = Outgoing
  BY <1>1 DEF Outgoing
<1>4. Newer' \/ (phone'.text = phone.text /\ ~Newer)
  BY <1>1 DEF Newer
<1>5. QED
  BY <1>1, <1>2, <1>3, <1>4, StaysFollowing

LEMMA FollowsFollow ==
  ASSUME ClipTypes, ListenInv, ClipInv, ClipFollows, focused' => focused
  PROVE  ClipTypes' /\ ListenInv' /\ ClipInv'
<1>1. CASE up' = up
  BY <1>1, QuietFollows DEF ClipFollows
<1>2. CASE up' # up
  <2>1. (ClipOpens /\ up') \/ (ClipLoses /\ ~up')
    BY <1>2 DEF ClipFollows
  <2>2. QED
    BY <2>1, SessionTypes, SessionFollows
<1>3. QED
  BY <1>1, <1>2

ClipHolds == ClipTypes /\ ListenInv /\ ClipInv

LEMMA ClipStarts == Init => ClipHolds
<1>1. SUFFICES ASSUME Init PROVE ClipHolds
  OBVIOUS
<1>2. ClipInit
  BY <1>1 DEF Init
<1>3. <<>> \in Seq(Copies) /\ <<>> \in Seq(Copies \cup {NoText}) /\ "none" \notin Copies
  BY EmptySeq, ClipboardAssumption
<1>4. /\ phone.text = NoText /\ phone.last = NoText /\ phone.listening = FALSE /\ phone.heard = FALSE
      /\ phone.service = (left.copy > 0)
      /\ phone = [text |-> phone.text, last |-> phone.last, listening |-> phone.listening,
                  heard |-> phone.heard, service |-> phone.service]
  BY <1>2 DEF ClipInit
<1>5. /\ events = [on |-> events.on, hand |-> events.hand] /\ events.on = FALSE /\ events.hand = NoText
      /\ render = "none" /\ wire = [in |-> wire.in, out |-> wire.out] /\ wire.in = <<>> /\ wire.out = <<>>
      /\ board = [on |-> board.on, text |-> board.text, known |-> board.known, pulls |-> board.pulls]
      /\ board.text = NoText /\ board.known = NoText /\ board.pulls = {} /\ apart = FALSE
  BY <1>2 DEF ClipInit
<1>6. phone.service \in BOOLEAN
  BY <1>4
<1>7. ClipTypes
  BY <1>3, <1>4, <1>5, <1>6 DEF ClipTypes
<1>8. ListenInv
  <2>1. ~up
    BY <1>1 DEF Init, SeatInit
  <2>2. QED
    BY <1>4, <1>5, <2>1 DEF ListenInv
<1>9. Outgoing = <<>>
  BY <1>3, <1>5, OutOfIs DEF Outgoing
<1>10. Gets(board.known)
  BY <1>4, <1>5, NoneEnds DEF Gets, Has
<1>11. Follows
  BY <1>5, <1>9, <1>10 DEF Follows
<1>12. QED
  BY <1>7, <1>8, <1>11 DEF ClipHolds, ClipInv

LEMMA ClipNext == ClipHolds /\ [Next]_vars => ClipHolds'
<1>1. SUFFICES ASSUME ClipTypes, ListenInv, ClipInv, [Next]_vars PROVE ClipTypes' /\ ListenInv' /\ ClipInv'
  BY DEF ClipHolds
<1>2. CASE TouchStep /\ UNCHANGED <<focused, soft, hard>> /\ ClipFollows
  BY <1>1, <1>2, FollowsFollow
<1>3. CASE SoftStep /\ UNCHANGED <<focused, touch, hard>> /\ ClipFollows
  BY <1>1, <1>3, FollowsFollow
<1>4. CASE HardStep /\ ClipFollows
  <2>1. focused' => focused
    BY <1>4 DEF HardStep, HwDown, HwUp, FocusLost, SettingChanges, ServiceConnects
  <2>2. QED
    BY <1>1, <1>4, <2>1, FollowsFollow
<1>5. CASE UNCHANGED focused /\ ClipStep
  <2>1. UNCHANGED up
    BY <1>5 DEF ClipStep, PhoneCopy, ListenerRuns, RenderListens, RenderStarts, RenderReads, RenderSends,
                EventTakes, EventSets, DesktopCopy, PullEnds, PullFails, DesktopTakes, seat
  <2>2. ClipTypes' /\ ListenInv'
    BY <1>1, <1>5, <2>1, StepTypes
  <2>3. CASE PhoneCopy \/ ListenerRuns \/ RenderListens \/ RenderStarts \/ RenderReads \/ RenderSends
    BY <1>1, <1>5, <2>1, <2>2, <2>3, PhoneFollows
  <2>4. CASE EventTakes \/ EventSets
    BY <1>1, <1>5, <2>1, <2>2, <2>4, EventsFollow
  <2>5. CASE DesktopCopy \/ PullEnds \/ PullFails
    BY <1>1, <1>5, <2>1, <2>2, <2>5, SelectionFollows
  <2>6. CASE DesktopTakes
    BY <1>1, <1>5, <2>1, <2>2, <2>6, TakenFollows
  <2>7. QED
    BY <1>5, <2>3, <2>4, <2>5, <2>6 DEF ClipStep
<1>6. CASE FocusGained
  <2>1. Push(phone) /\ UNCHANGED <<up, events, render, board>>
    BY <1>6 DEF FocusGained, seat
  <2>2. QED
    BY <1>1, <2>1, PushTypes, PushFollows
<1>7. CASE (SessionOpens \/ SessionLost) /\ UNCHANGED <<focused, left, touch, soft, hard>> /\ ClipFollows
  BY <1>1, <1>7, FollowsFollow
<1>8. CASE Resume /\ UNCHANGED clipVars
  BY <1>1, <1>8, QuietFollows DEF Resume
<1>9. CASE (Pause \/ SurfaceChanged) /\ ClipStops
  <2>1. ~up'
    BY <1>9 DEF Pause, SurfaceChanged, TouchPause, SendAndStop
  <2>2. QED
    BY <1>1, <1>9, <2>1, SessionTypes, SessionFollows
<1>10. CASE UNCHANGED vars
  <2>1. UNCHANGED clipVars /\ up' = up /\ focused' = focused
    BY <1>10 DEF vars
  <2>2. QED
    BY <1>1, <2>1, QuietFollows
<1>11. QED
  BY <1>1, <1>2, <1>3, <1>4, <1>5, <1>6, <1>7, <1>8, <1>9, <1>10 DEF Next

-----------------------------------------------------------------------------
\* One text prevails, for any texts, copies, losses and sessions: unless a text was lost or
\* met another, what is under way ends in the text that both sides will have (Clipboard.java,
\* pushClipboard and setFromProducer; anland_backend.cpp, sendClipboardToKWin;
\* meta-anland-clipboard.c, send_contents).
THEOREM OneTextPrevails == Spec => []ClipInv
<1>1. ClipHolds => ClipInv
  BY DEF ClipHolds
<1>2. QED
  BY ClipStarts, ClipNext, <1>1, PTL DEF Spec

\* So when nothing is under way the two clipboards hold one text.
THEOREM ClipboardsOne == Spec => []ClipboardsAgree
<1>1. ClipHolds => ClipboardsAgree
  <2>1. SUFFICES ASSUME ClipTypes, ClipInv, Settled, ~apart PROVE phone.text = board.text
    BY DEF ClipHolds, ClipboardsAgree
  <2>2. /\ ~Newer /\ events.hand = NoText /\ wire.out = <<>> /\ board.pulls = {} /\ wire.in = <<>>
        /\ render \notin Copies
    BY <2>1 DEF Settled, Newer, Inbound, Outbound
  <2>3. Outgoing = <<>>
    BY <2>1, <2>2, OutOfIs DEF Outgoing, ClipTypes
  <2>4. board.known = board.text /\ Gets(board.known)
    BY <2>1, <2>2, <2>3 DEF ClipInv, Follows
  <2>5. Has(board.known)
    BY <2>2, <2>4, NoneEnds DEF Gets
  <2>6. QED
    BY <2>2, <2>4, <2>5 DEF Has
<1>2. QED
  BY ClipStarts, ClipNext, <1>1, PTL DEF Spec

-----------------------------------------------------------------------------
(* Lists of events, one after another.                                      *)

\* The least of some numbers: what is so of all that come before, and then of the next, is
\* so of all.
LEMMA Least ==
  ASSUME NEW T \in SUBSET Nat, T # {}
  PROVE  \E m \in T : \A n \in T : m <= n
<1>1. IsWellFoundedOn(OpToRel(<, Nat), Nat)
  BY NatLessThanWellFounded
<1>2. PICK m \in T : \A n \in T : ~(<<n, m>> \in OpToRel(<, Nat))
  BY <1>1, WFMin
<1>3. \A n \in T : <<n, m>> \in OpToRel(<, Nat) <=> n < m
  BY DEF OpToRel
<1>4. \A n \in T : ~(n < m) /\ n \in Nat /\ m \in Nat
  BY <1>2, <1>3
<1>5. QED
  BY <1>4

IsTrace(g, d, evs, m) == g = [n \in 0..m |-> IF n = 0 THEN d ELSE Take(g[n - 1], evs[n])]

\* There is a list of what the desktop has after each event, as Trace says: by induction on
\* the number of events.
LEMMA TraceIs ==
  ASSUME NEW d, NEW evs, Len(evs) \in Nat
  PROVE  /\ Trace(d, evs)[0] = d
         /\ \A n \in 1..Len(evs) : Trace(d, evs)[n] = Take(Trace(d, evs)[n - 1], evs[n])
<1> DEFINE T == {m \in Nat : ~\E g : IsTrace(g, d, evs, m)}
<1>1. T = {}
  <2>1. SUFFICES ASSUME T # {} PROVE FALSE
    OBVIOUS
  <2>2. PICK m \in T : \A n \in T : m <= n
    BY <2>1, Least
  <2>3. CASE m = 0
    <3>1. IsTrace([n \in 0..0 |-> d], d, evs, 0)
      BY DEF IsTrace
    <3>2. QED
      BY <2>3, <3>1
  <2>4. CASE m # 0
    <3>1. m - 1 \in Nat /\ m - 1 \notin T
      BY <2>2, <2>4
    <3>2. PICK g : IsTrace(g, d, evs, m - 1)
      BY <3>1
    <3> DEFINE h == [n \in 0..m |-> IF n = m THEN Take(g[m - 1], evs[m]) ELSE g[n]]
    <3>3. m \in Nat
      OBVIOUS
    <3>4. IsTrace(h, d, evs, m)
      BY <2>4, <3>1, <3>2, <3>3 DEF IsTrace
    <3>5. QED
      BY <3>4
  <2>5. QED
    BY <2>3, <2>4
<1>2. \E g : g = [n \in 0..Len(evs) |-> IF n = 0 THEN d ELSE Take(g[n - 1], evs[n])]
  BY <1>1 DEF IsTrace
<1>3. Trace(d, evs) = [n \in 0..Len(evs) |-> IF n = 0 THEN d ELSE Take(Trace(d, evs)[n - 1], evs[n])]
  BY <1>2 DEF Trace
<1>4. QED
  BY <1>3

\* There is one trace of events that begin alike.
BeginAlike(evs, ews, m) ==
  /\ Len(evs) \in Nat /\ Len(ews) \in Nat /\ m \in Nat /\ m <= Len(evs) /\ m <= Len(ews)
  /\ \A n \in 1..m : evs[n] = ews[n]

LEMMA TraceAlone ==
  ASSUME NEW d, NEW evs, NEW ews, NEW m, BeginAlike(evs, ews, m)
  PROVE  \A n \in 0..m : Trace(d, evs)[n] = Trace(d, ews)[n]
<1>0. /\ Len(evs) \in Nat /\ Len(ews) \in Nat /\ m \in Nat /\ m <= Len(evs) /\ m <= Len(ews)
      /\ \A n \in 1..m : evs[n] = ews[n]
  BY DEF BeginAlike
<1> DEFINE T == {n \in 0..m : Trace(d, evs)[n] # Trace(d, ews)[n]}
<1>1. SUFFICES ASSUME T # {} PROVE FALSE
  OBVIOUS
<1>2. T \in SUBSET Nat
  BY <1>0
<1>3. PICK n \in T : \A k \in T : n <= k
  BY <1>1, <1>2, Least
<1>4. n # 0
  BY <1>0, TraceIs
<1>5. n - 1 \in 0..m /\ n - 1 \notin T /\ n \in 1..m /\ n \in 1..Len(evs) /\ n \in 1..Len(ews)
  BY <1>0, <1>3, <1>4
<1>6. QED
  BY <1>0, <1>5, TraceIs

-----------------------------------------------------------------------------
(* Events, and what one of them does.                                       *)

TouchEvents == {Touch(a, x) : a \in {"down", "move", "up"}, x \in Ids}
IsQuiet(ev) == ev.type \in {"PRESS", "TEXT"} /\ (ev.type = "TEXT" => ev.action = "down")
IsEvent(ev) == IsQuiet(ev) \/ ev = Frame \/ ev \in TouchEvents

\* Lists of keys and text, and of any events.
Quiet(s) == \E S : s \in Seq(S) /\ \A ev \in S : IsQuiet(ev)
List(s)  == \E S : s \in Seq(S) /\ \A ev \in S : IsEvent(ev)

\* A record with these fields.
IsRecord(r, fields) == r = [f \in fields |-> r[f]]

DeskFields == {"on", "touch", "lifting", "open", "held", "text", "torn", "stale", "deaf"}
IsDesk(d) ==
  /\ IsRecord(d, DeskFields) /\ d.on \in {"kwin", "gnome"} /\ d.open \in BOOLEAN /\ d.torn \in BOOLEAN

SameContacts(d, e) ==
  e.on = d.on /\ e.touch = d.touch /\ e.lifting = d.lifting /\ e.open = d.open /\ e.torn = d.torn

\* What a contact that goes down changes, for both compositors; then one that moves, one that
\* is lifted, and the frame that passes on what Mutter has kept.
LEMMA DownIs ==
  ASSUME NEW d, IsDesk(d), NEW x
  PROVE  LET e == Take(d, Touch("down", x)) IN
         /\ IsDesk(e) /\ e.on = d.on /\ (d.torn => e.torn)
         /\ x \notin d.touch /\ ~d.torn => ~e.torn
         /\ e.touch = d.touch \cup {x} /\ e.lifting = d.lifting
         /\ d.on = "kwin" => e.open = d.open
<1> DEFINE odd == (x \in d.touch) = (TRUE)
           l == d.lifting \cup {id \in {x} \cap d.touch : FALSE}
           t == d.touch \cup {x}
           o == d.open \/ (d.on = "gnome" /\ ~odd)
           r == d.torn \/ odd
           e == [d EXCEPT !.torn = r, !.touch = t, !.lifting = l, !.open = o]
           ev == Touch("down", x)
<1>1. ev.type = "TOUCH" /\ ev.action = "down" /\ ev.what = x
  BY DEF Touch
<1> HIDE DEF ev
<1>2. Take(d, ev) = TakeTouch(d, ev)
  BY <1>1 DEF Take
<1>3. TakeTouch(d, ev) = e
  BY <1>1 DEF TakeTouch
<1>4. /\ l = d.lifting /\ t = d.touch \cup {x}
      /\ o \in BOOLEAN /\ r \in BOOLEAN /\ d.on \in {"kwin", "gnome"}
      /\ (d.torn => r) /\ (x \notin d.touch /\ ~d.torn => ~r)
      /\ d.on = "kwin" => o = d.open
  BY DEF IsDesk
<1> HIDE DEF t, l, o, r
<1>5. IsRecord(e, DeskFields) /\ e.on = d.on /\ e.touch = t /\ e.lifting = l /\ e.open = o /\ e.torn = r
  BY DEF IsDesk, IsRecord, DeskFields
<1> HIDE DEF e
<1>6. QED
  BY <1>2, <1>3, <1>4, <1>5 DEF IsDesk, ev

LEMMA MoveIs ==
  ASSUME NEW d, IsDesk(d), NEW x
  PROVE  LET e == Take(d, Touch("move", x)) IN
         /\ IsDesk(e) /\ e.on = d.on /\ (d.torn => e.torn)
         /\ x \in d.touch /\ ~d.torn => ~e.torn
         /\ e.touch = d.touch /\ e.lifting = d.lifting
         /\ d.on = "kwin" \/ x \notin d.touch => e.open = d.open
<1> DEFINE odd == (x \in d.touch) = (FALSE)
           l == d.lifting \cup {id \in {x} \cap d.touch : FALSE}
           t == d.touch
           o == d.open \/ (d.on = "gnome" /\ ~odd)
           r == d.torn \/ odd
           e == [d EXCEPT !.torn = r, !.touch = t, !.lifting = l, !.open = o]
           ev == Touch("move", x)
<1>1. ev.type = "TOUCH" /\ ev.action = "move" /\ ev.what = x
  BY DEF Touch
<1> HIDE DEF ev
<1>2. Take(d, ev) = TakeTouch(d, ev)
  BY <1>1 DEF Take
<1>3. TakeTouch(d, ev) = e
  BY <1>1 DEF TakeTouch
<1>4. /\ l = d.lifting /\ t = d.touch
      /\ o \in BOOLEAN /\ r \in BOOLEAN /\ d.on \in {"kwin", "gnome"}
      /\ (d.torn => r) /\ (x \in d.touch /\ ~d.torn => ~r)
      /\ d.on = "kwin" \/ x \notin d.touch => o = d.open
  BY DEF IsDesk
<1> HIDE DEF t, l, o, r
<1>5. IsRecord(e, DeskFields) /\ e.on = d.on /\ e.touch = t /\ e.lifting = l /\ e.open = o /\ e.torn = r
  BY DEF IsDesk, IsRecord, DeskFields
<1> HIDE DEF e
<1>6. QED
  BY <1>2, <1>3, <1>4, <1>5 DEF IsDesk, ev

LEMMA UpIs ==
  ASSUME NEW d, IsDesk(d), NEW x
  PROVE  LET e == Take(d, Touch("up", x)) IN
         /\ IsDesk(e) /\ e.on = d.on /\ (d.torn => e.torn)
         /\ x \in d.touch /\ ~d.torn => ~e.torn
         /\ e.touch = (IF d.on = "kwin" THEN d.touch \ {x} ELSE d.touch) /\ e.lifting = (IF d.on = "gnome" /\ x \in d.touch THEN d.lifting \cup {x} ELSE d.lifting)
         /\ d.on = "kwin" \/ x \notin d.touch => e.open = d.open
<1> DEFINE odd == (x \in d.touch) = (FALSE)
           l == d.lifting \cup {id \in {x} \cap d.touch : d.on = "gnome"}
           t == (IF d.on = "kwin" THEN d.touch \ {x} ELSE d.touch)
           o == d.open \/ (d.on = "gnome" /\ ~odd)
           r == d.torn \/ odd
           e == [d EXCEPT !.torn = r, !.touch = t, !.lifting = l, !.open = o]
           ev == Touch("up", x)
<1>1. ev.type = "TOUCH" /\ ev.action = "up" /\ ev.what = x
  BY DEF Touch
<1> HIDE DEF ev
<1>2. Take(d, ev) = TakeTouch(d, ev)
  BY <1>1 DEF Take
<1>3. TakeTouch(d, ev) = e
  BY <1>1 DEF TakeTouch
<1>4. /\ l = (IF d.on = "gnome" /\ x \in d.touch THEN d.lifting \cup {x} ELSE d.lifting) /\ t = (IF d.on = "kwin" THEN d.touch \ {x} ELSE d.touch)
      /\ o \in BOOLEAN /\ r \in BOOLEAN /\ d.on \in {"kwin", "gnome"}
      /\ (d.torn => r) /\ (x \in d.touch /\ ~d.torn => ~r)
      /\ d.on = "kwin" \/ x \notin d.touch => o = d.open
  BY DEF IsDesk
<1> HIDE DEF t, l, o, r
<1>5. IsRecord(e, DeskFields) /\ e.on = d.on /\ e.touch = t /\ e.lifting = l /\ e.open = o /\ e.torn = r
  BY DEF IsDesk, IsRecord, DeskFields
<1> HIDE DEF e
<1>6. QED
  BY <1>2, <1>3, <1>4, <1>5 DEF IsDesk, ev

LEMMA FrameIs ==
  ASSUME NEW d, IsDesk(d)
  PROVE  LET e == Take(d, Frame) IN
         /\ IsDesk(e) /\ e.on = d.on /\ e.torn = d.torn
         /\ e.touch = d.touch \ d.lifting /\ e.lifting = {} /\ e.open = FALSE
<1>1. Take(d, Frame) = [d EXCEPT !.touch = d.touch \ d.lifting, !.lifting = {}, !.open = FALSE]
  <2>1. Take(d, Frame) = TakeFrame(d)
    BY DEF Take, Frame
  <2>2. QED
    BY <2>1 DEF TakeFrame
<1>2. QED
  BY <1>1 DEF IsDesk, IsRecord, DeskFields

\* Keys and text change no contact.
LEMMA QuietIs ==
  ASSUME NEW d, IsDesk(d), NEW ev, IsQuiet(ev)
  PROVE  IsDesk(Take(d, ev)) /\ SameContacts(d, Take(d, ev))
<1>1. CASE ev.type = "PRESS"
  <2> DEFINE h == IF ev.action = "down" THEN d.held \cup {ev.what} ELSE d.held \ {ev.what}
             x == CASE ev = Press("BACKSPACE") /\ d.text # <<>> -> Front(d.text)
                    [] ev = Press("ENTER")                     -> Append(d.text, "ENTER")
                    [] OTHER                                   -> d.text
             s == d.stale \ {ev.what}
  <2>1. Take(d, ev) = TakePress(d, ev)
    BY <1>1 DEF Take
  <2>2. TakePress(d, ev) = d \/ TakePress(d, ev) = [d EXCEPT !.held = h, !.stale = s, !.text = x]
    BY DEF TakePress
  <2> HIDE DEF h, x, s
  <2>3. QED
    BY <2>1, <2>2 DEF IsDesk, IsRecord, DeskFields, SameContacts
<1>2. CASE ev.type = "TEXT"
  <2> DEFINE x == d.text \o ev.what
  <2>1. Take(d, ev) = [d EXCEPT !.text = x]
    BY <1>2 DEF Take, TakeText
  <2> HIDE DEF x
  <2>2. QED
    BY <2>1 DEF IsDesk, IsRecord, DeskFields, SameContacts
<1>3. QED
  BY <1>1, <1>2 DEF IsQuiet

LEMMA TakeKeeps ==
  ASSUME NEW d, IsDesk(d), NEW ev, IsEvent(ev)
  PROVE  IsDesk(Take(d, ev)) /\ Take(d, ev).on = d.on /\ (d.torn => Take(d, ev).torn)
<1>1. CASE ev \in TouchEvents
  <2>1. PICK a \in {"down", "move", "up"}, x \in Ids : ev = Touch(a, x)
    BY <1>1 DEF TouchEvents
  <2>2. a = "down" \/ a = "move" \/ a = "up"
    BY <2>1
  <2>3. CASE ev = Touch("down", x)
    BY <2>3, DownIs
  <2>4. CASE ev = Touch("move", x)
    BY <2>4, MoveIs
  <2>5. CASE ev = Touch("up", x)
    BY <2>5, UpIs
  <2>6. QED
    BY <2>1, <2>2, <2>3, <2>4, <2>5
<1>2. CASE ev = Frame
  BY <1>2, FrameIs
<1>3. CASE IsQuiet(ev)
  BY <1>3, QuietIs DEF SameContacts
<1>4. QED
  BY <1>1, <1>2, <1>3 DEF IsEvent

-----------------------------------------------------------------------------
(* What a list of events does.                                              *)

LEMMA ListFacts ==
  ASSUME NEW s, List(s)
  PROVE  Len(s) \in Nat /\ \A i \in 1..Len(s) : IsEvent(s[i])
<1>1. PICK S : s \in Seq(S) /\ \A ev \in S : IsEvent(ev)
  BY DEF List
<1>2. QED
  BY <1>1, ElementOfSeq, LenProperties

LEMMA TraceKeeps ==
  ASSUME NEW d, IsDesk(d), NEW evs, List(evs)
  PROVE  \A n \in 0..Len(evs) : LET e == Trace(d, evs)[n] IN
           IsDesk(e) /\ e.on = d.on /\ (d.torn => e.torn)
<1> DEFINE t == Trace(d, evs)
           l == Len(evs)
           Good(n) == IsDesk(t[n]) /\ t[n].on = d.on /\ (d.torn => t[n].torn)
           T == {n \in 0..l : ~Good(n)}
<1>1. l \in Nat /\ t[0] = d /\ \A n \in 1..l : t[n] = Take(t[n - 1], evs[n]) /\ IsEvent(evs[n])
  BY TraceIs, ListFacts
<1> HIDE DEF t, l
<1>2. SUFFICES ASSUME T # {} PROVE FALSE
  BY DEF t, l
<1>3. T \in SUBSET Nat
  BY <1>1
<1>4. PICK n \in T : \A k \in T : n <= k
  BY <1>2, <1>3, Least
<1>5. n # 0
  BY <1>1
<1>6. n \in 1..l /\ n - 1 \in 0..l /\ n - 1 \notin T
  BY <1>1, <1>4, <1>5
<1>7. Good(n - 1) /\ t[n] = Take(t[n - 1], evs[n]) /\ IsEvent(evs[n])
  BY <1>1, <1>6
<1>8. Good(n)
  BY <1>7, TakeKeeps
<1>9. QED
  BY <1>8

\* After any events the desktop is one, and torn if it was.
LEMMA TakenKeeps ==
  ASSUME NEW d, IsDesk(d), NEW evs, List(evs)
  PROVE  LET e == TakenBy(d, evs) IN IsDesk(e) /\ e.on = d.on /\ (d.torn => e.torn)
<1>1. Len(evs) \in Nat
  BY ListFacts
<1>2. QED
  BY <1>1, TraceKeeps DEF TakenBy

LEMMA TakenOne ==
  ASSUME NEW d, NEW ev
  PROVE  TakenBy(d, <<ev>>) = Take(d, ev)
<1> DEFINE s == <<ev>>
<1>1. Len(s) = 1 /\ s[1] = ev
  OBVIOUS
<1> HIDE DEF s
<1>2. Trace(d, s)[0] = d /\ \A n \in 1..1 : Trace(d, s)[n] = Take(Trace(d, s)[n - 1], s[n])
  BY <1>1, TraceIs
<1>3. Trace(d, s)[1] = Take(d, ev)
  BY <1>1, <1>2
<1>4. QED
  BY <1>1, <1>3 DEF TakenBy, s

\* One list, then another.
LEMMA TakenBoth ==
  ASSUME NEW d, NEW a, NEW b, NEW c, Len(a) \in Nat, Len(b) \in Nat, Len(c) = Len(a) + Len(b),
         \A i \in 1..Len(a) : c[i] = a[i], \A i \in 1..Len(b) : c[Len(a) + i] = b[i]
  PROVE  TakenBy(d, c) = TakenBy(TakenBy(d, a), b)
<1> DEFINE la == Len(a)
           lb == Len(b)
           t == Trace(d, c)
           m == TakenBy(d, a)
           u == Trace(m, b)
           T == {n \in 0..lb : t[la + n] # u[n]}
<1>1. la \in Nat /\ lb \in Nat /\ Len(c) = la + lb
  OBVIOUS
<1>2. t[la] = m
  <2>1. PICK k : k = Len(a)
    OBVIOUS
  <2>2. k \in Nat /\ k <= Len(c) /\ k <= Len(a) /\ Len(c) \in Nat /\ Len(a) \in Nat /\ \A n \in 1..k : c[n] = a[n]
    BY <1>1, <2>1
  <2>3. BeginAlike(c, a, k)
    BY <2>2 DEF BeginAlike
  <2>4. \A n \in 0..k : Trace(d, c)[n] = Trace(d, a)[n]
    BY <2>3, TraceAlone
  <2>5. QED
    BY <2>1, <2>2, <2>4 DEF TakenBy
<1>3. \A n \in 1..lb : t[la + n] = Take(t[la + n - 1], b[n])
  <2>1. \A n \in 1..la + lb : t[n] = Take(t[n - 1], c[n])
    BY <1>1, TraceIs
  <2>2. \A n \in 1..lb : la + n \in 1..la + lb
    BY <1>1
  <2>3. QED
    BY <2>1, <2>2
<1>4. u[0] = m /\ \A n \in 1..lb : u[n] = Take(u[n - 1], b[n])
  BY <1>1, TraceIs
<1> HIDE DEF t, m, u
<1>5. T = {}
  <2>1. SUFFICES ASSUME T # {} PROVE FALSE
    OBVIOUS
  <2>2. T \in SUBSET Nat
    BY <1>1
  <2> HIDE DEF la, lb
  <2>3. PICK n \in T : \A k \in T : n <= k
    BY <2>1, <2>2, Least
  <2>4. n # 0
    BY <1>1, <1>2, <1>4
  <2>5. n \in 1..lb /\ n - 1 \in 0..lb
    BY <1>1, <2>3, <2>4
  <2>5a. n - 1 \notin T
    BY <2>3, <2>5
  <2>6. t[la + (n - 1)] = u[n - 1] /\ la + (n - 1) = la + n - 1
    BY <1>1, <2>5, <2>5a
  <2>7. t[la + n] = u[n]
    BY <1>3, <1>4, <2>5, <2>6
  <2>8. QED
    BY <2>3, <2>7
<1>6. t[la + lb] = u[lb]
  BY <1>1, <1>5
<1>7. QED
  BY <1>1, <1>6 DEF TakenBy, t, u, m

\* Events after others are taken after them.
LEMMA TakenConcat ==
  ASSUME NEW d, NEW S, NEW a \in Seq(S), NEW b \in Seq(S)
  PROVE  TakenBy(d, a \o b) = TakenBy(TakenBy(d, a), b)
<1> DEFINE c == a \o b
<1>1. /\ Len(a) \in Nat /\ Len(b) \in Nat /\ Len(c) = Len(a) + Len(b)
      /\ \A i \in 1 .. Len(a) + Len(b) : c[i] = IF i <= Len(a) THEN a[i] ELSE b[i - Len(a)]
  BY ConcatProperties, LenProperties
<1> HIDE DEF c
<1>2. \A i \in 1..Len(a) : c[i] = a[i]
  BY <1>1
<1>3. \A i \in 1..Len(b) : c[Len(a) + i] = b[i]
  <2>1. \A i \in 1..Len(b) : /\ Len(a) + i \in 1..Len(a) + Len(b) /\ ~(Len(a) + i <= Len(a))
                             /\ Len(a) + i - Len(a) = i
    BY <1>1
  <2>2. QED
    BY <1>1, <2>1
<1>4. TakenBy(d, c) = TakenBy(TakenBy(d, a), b)
  BY <1>1, <1>2, <1>3, TakenBoth
<1>5. QED
  BY <1>4 DEF c

LEMMA Wider ==
  ASSUME NEW S, NEW T, NEW s \in Seq(S), S \subseteq T
  PROVE  s \in Seq(T)
<1>1. Len(s) \in Nat /\ s \in [1..Len(s) -> S]
  BY LenProperties
<1>2. s \in [1..Len(s) -> T]
  BY <1>1
<1>3. QED
  BY <1>1, <1>2

\* Lists, put together and taken apart.
LEMMA ListsMade ==
  /\ Quiet(<<>>) /\ List(<<>>)
  /\ \A ev : IsQuiet(ev) => Quiet(<<ev>>)
  /\ \A ev : IsEvent(ev) => List(<<ev>>)
  /\ \A s : Quiet(s) => List(s)
  /\ \A a, b : Quiet(a) /\ Quiet(b) => Quiet(a \o b)
  /\ \A a, b : List(a) /\ List(b) => List(a \o b)
<1>1. Quiet(<<>>) /\ List(<<>>)
  <2>1. PICK S : S = {}
    OBVIOUS
  <2>2. <<>> \in Seq(S)
    BY <2>1
  <2>3. QED
    BY <2>1, <2>2 DEF Quiet, List
<1>2. ASSUME NEW ev PROVE \E S : S = {ev} /\ <<ev>> \in Seq(S)
  <2>1. PICK S : S = {ev}
    OBVIOUS
  <2>2. QED
    BY <2>1
<1>3. \A ev : IsQuiet(ev) => Quiet(<<ev>>)
  BY <1>2 DEF Quiet
<1>4. \A ev : IsEvent(ev) => List(<<ev>>)
  BY <1>2 DEF List
<1>5. \A s : Quiet(s) => List(s)
  BY DEF Quiet, List, IsEvent
<1>6. ASSUME NEW a, NEW b, NEW S, NEW T, a \in Seq(S), b \in Seq(T) PROVE a \o b \in Seq(S \cup T)
  <2>1. a \in Seq(S \cup T) /\ b \in Seq(S \cup T)
    BY <1>6, Wider
  <2>2. QED
    BY <2>1, ConcatProperties
<1>7. \A a, b : Quiet(a) /\ Quiet(b) => Quiet(a \o b)
  <2>1. SUFFICES ASSUME NEW a, NEW b, Quiet(a), Quiet(b) PROVE Quiet(a \o b)
    OBVIOUS
  <2>2. PICK S : a \in Seq(S) /\ \A ev \in S : IsQuiet(ev)
    BY <2>1 DEF Quiet
  <2>3. PICK T : b \in Seq(T) /\ \A ev \in T : IsQuiet(ev)
    BY <2>1 DEF Quiet
  <2>4. a \o b \in Seq(S \cup T) /\ \A ev \in S \cup T : IsQuiet(ev)
    BY <1>6, <2>2, <2>3
  <2>5. QED
    BY <2>4 DEF Quiet
<1>8. \A a, b : List(a) /\ List(b) => List(a \o b)
  <2>1. SUFFICES ASSUME NEW a, NEW b, List(a), List(b) PROVE List(a \o b)
    OBVIOUS
  <2>2. PICK S : a \in Seq(S) /\ \A ev \in S : IsEvent(ev)
    BY <2>1 DEF List
  <2>3. PICK T : b \in Seq(T) /\ \A ev \in T : IsEvent(ev)
    BY <2>1 DEF List
  <2>4. a \o b \in Seq(S \cup T) /\ \A ev \in S \cup T : IsEvent(ev)
    BY <1>6, <2>2, <2>3
  <2>5. QED
    BY <2>4 DEF List
<1>9. QED
  BY <1>1, <1>3, <1>4, <1>5, <1>7, <1>8

LEMMA TakenLists ==
  ASSUME NEW d, NEW a, NEW b, List(a), List(b)
  PROVE  TakenBy(d, a \o b) = TakenBy(TakenBy(d, a), b)
<1>1. PICK S : a \in Seq(S)
  BY DEF List
<1>2. PICK T : b \in Seq(T)
  BY DEF List
<1>3. a \in Seq(S \cup T) /\ b \in Seq(S \cup T)
  BY <1>1, <1>2, Wider
<1>4. QED
  BY <1>3, TakenConcat

\* The first n, and the rest.
LEMMA TakenApart ==
  ASSUME NEW d, NEW s, List(s), NEW n \in 0..Len(s)
  PROVE  /\ List(SubSeq(s, 1, n)) /\ List(SubSeq(s, n + 1, Len(s)))
         /\ TakenBy(d, s) = TakenBy(TakenBy(d, SubSeq(s, 1, n)), SubSeq(s, n + 1, Len(s)))
<1> DEFINE l == Len(s)
           a == SubSeq(s, 1, n)
           b == SubSeq(s, n + 1, l)
<1>1. PICK S : s \in Seq(S) /\ \A ev \in S : IsEvent(ev)
  BY DEF List
<1>2. l \in Nat /\ n \in Nat /\ n <= l /\ \A i \in 1..l : s[i] \in S
  BY <1>1, LenProperties, ElementOfSeq
<1>3. n + 1 \in Int /\ \A i \in n + 1..l : s[i] \in S
  BY <1>2
<1>4. \A i \in 1..n : s[i] \in S
  BY <1>2
<1>5. /\ a \in Seq(S) /\ Len(a) = n
      /\ \A i \in 1..n : a[i] = s[i]
  <2>1. /\ a \in Seq(S) /\ Len(a) = IF 1 <= n THEN n - 1 + 1 ELSE 0
        /\ \A i \in 1..n - 1 + 1 : a[i] = s[1 + i - 1]
    BY <1>2, <1>4, SubSeqProperties
  <2>2. QED
    BY <1>2, <2>1
<1>6. /\ b \in Seq(S) /\ Len(b) = l - n
      /\ \A i \in 1..l - n : b[i] = s[n + i]
  <2>1. /\ b \in Seq(S) /\ Len(b) = IF n + 1 <= l THEN l - (n + 1) + 1 ELSE 0
        /\ \A i \in 1..l - (n + 1) + 1 : b[i] = s[n + 1 + i - 1]
    BY <1>2, <1>3, SubSeqProperties
  <2> HIDE DEF b, l
  <2>2. l - (n + 1) + 1 = l - n /\ \A i \in 1..l - n : n + 1 + i - 1 = n + i
    BY <1>2
  <2>3. Len(b) = l - n
    BY <1>2, <2>1
  <2>4. \A i \in 1..l - n : b[i] = s[n + i]
    BY <2>1, <2>2
  <2>5. QED
    BY <2>1, <2>3, <2>4
<1>7. List(a) /\ List(b)
  BY <1>1, <1>5, <1>6 DEF List
<1> HIDE DEF a, b
<1>8. TakenBy(d, s) = TakenBy(TakenBy(d, a), b)
  <2>1. Len(s) = Len(a) + Len(b) /\ Len(a) \in Nat /\ Len(b) \in Nat
    BY <1>2, <1>5, <1>6
  <2>2. \A i \in 1..Len(a) : s[i] = a[i]
    BY <1>5
  <2>3. \A i \in 1..Len(b) : s[Len(a) + i] = b[i]
    BY <1>5, <1>6
  <2>4. QED
    BY <2>1, <2>2, <2>3, TakenBoth
<1>9. QED
  BY <1>7, <1>8 DEF a, b

-----------------------------------------------------------------------------
(* One contact after another.                                               *)

\* Contacts s[1], s[2], ... and so on, each once.
All(a, s, e) == Len(e) \in Nat /\ \A i \in 1..Len(e) : e[i] = Touch(a, s[i])
Once(s, n)   == \A i, j \in 1..n : s[i] = s[j] => i = j
Upto(s, n)   == {s[i] : i \in 1..n}

LEMMA UptoNext ==
  ASSUME NEW s, NEW n \in Nat, n # 0
  PROVE  /\ Upto(s, n) = Upto(s, n - 1) \cup {s[n]} /\ n - 1 \in Nat /\ Upto(s, 0) = {}
         /\ \A m \in Nat : n <= m /\ Once(s, m) => s[n] \notin Upto(s, n - 1)
<1>1. n - 1 \in Nat /\ 1..n = (1..n - 1) \cup {n} /\ n \notin 1..n - 1 /\ 1..0 = {}
  OBVIOUS
<1>2. Upto(s, n) = Upto(s, n - 1) \cup {s[n]} /\ Upto(s, 0) = {}
  BY <1>1 DEF Upto
<1>3. ASSUME NEW m \in Nat, n <= m, Once(s, m) PROVE s[n] \notin Upto(s, n - 1)
  <2>1. \A i \in 1..n - 1 : i \in 1..m /\ n \in 1..m /\ i # n
    BY <1>3
  <2>2. QED
    BY <1>3, <2>1 DEF Once, Upto
<1>4. QED
  BY <1>1, <1>2, <1>3

\* Several contacts go down, move or are lifted, one after another: each once, and the
\* desktop has them, or not, as it should.
LEMMA DownsTaken ==
  ASSUME NEW d, IsDesk(d), NEW s, NEW e, All("down", s, e)
  PROVE  LET r == TakenBy(d, e) IN
         /\ IsDesk(r) /\ r.on = d.on
         /\ (Once(s, Len(e)) /\ \A i \in 1..Len(e) : s[i] \notin d.touch) /\ ~d.torn => ~r.torn
         /\ r.touch = d.touch \cup Upto(s, Len(e)) /\ r.lifting = d.lifting
<1> DEFINE t == Trace(d, e)
           l == Len(e)
           fresh == (Once(s, Len(e)) /\ \A i \in 1..Len(e) : s[i] \notin d.touch) /\ ~d.torn
           Good(n) == /\ IsDesk(t[n]) /\ t[n].on = d.on /\ (fresh => ~t[n].torn)
                      /\ t[n].touch = d.touch \cup Upto(s, n) /\ t[n].lifting = d.lifting
           T == {n \in 0..l : ~Good(n)}
<1>1. l \in Nat /\ t[0] = d /\ \A n \in 1..l : t[n] = Take(t[n - 1], Touch("down", s[n]))
  BY TraceIs DEF All
<1>2. T = {}
  <2>1. SUFFICES ASSUME T # {} PROVE FALSE
    OBVIOUS
  <2> HIDE DEF t, l
  <2>2. T \in SUBSET Nat
    BY <1>1
  <2>3. PICK n \in T : \A k \in T : n <= k
    BY <2>1, <2>2, Least
  <2>4. n # 0
    <3>1. Upto(s, 0) = {}
      BY DEF Upto
    <3>2. QED
      BY <1>1, <3>1
  <2>5. n \in 1..l /\ n \in Nat /\ n <= l /\ n - 1 \in 0..l
    BY <1>1, <2>3, <2>4
  <2>6. n - 1 \notin T
    BY <2>3, <2>5
  <2>7. Good(n - 1) /\ t[n] = Take(t[n - 1], Touch("down", s[n]))
    BY <1>1, <2>5, <2>6
  <2>8. Upto(s, n) = Upto(s, n - 1) \cup {s[n]} /\ (Once(s, l) => s[n] \notin Upto(s, n - 1))
    BY <1>1, <2>4, <2>5, UptoNext
  <2>9. Good(n)
    <3> DEFINE p == t[n - 1]
    <3>1. LET q == Take(p, Touch("down", s[n])) IN
            /\ IsDesk(q) /\ q.on = p.on /\ (s[n] \notin p.touch /\ ~p.torn => ~q.torn)
            /\ q.touch = p.touch \cup {s[n]} /\ q.lifting = p.lifting
      BY <2>7, DownIs
    <3>2. fresh => s[n] \notin d.touch /\ s[n] \notin Upto(s, n - 1)
      BY <2>5, <2>8 DEF l
    <3> HIDE DEF p, fresh
    <3>3. QED
      BY <2>7, <2>8, <3>1, <3>2 DEF p
  <2>10. QED
    BY <2>3, <2>9
<1>3. Good(l)
  BY <1>1, <1>2
<1>4. QED
  BY <1>3 DEF TakenBy

LEMMA MovesTaken ==
  ASSUME NEW d, IsDesk(d), NEW s, NEW e, All("move", s, e)
  PROVE  LET r == TakenBy(d, e) IN
         /\ IsDesk(r) /\ r.on = d.on
         /\ (\A i \in 1..Len(e) : s[i] \in d.touch) /\ ~d.torn => ~r.torn
         /\ r.touch = d.touch /\ r.lifting = d.lifting
<1> DEFINE t == Trace(d, e)
           l == Len(e)
           fresh == (\A i \in 1..Len(e) : s[i] \in d.touch) /\ ~d.torn
           Good(n) == /\ IsDesk(t[n]) /\ t[n].on = d.on /\ (fresh => ~t[n].torn)
                      /\ t[n].touch = d.touch /\ t[n].lifting = d.lifting
           T == {n \in 0..l : ~Good(n)}
<1>1. l \in Nat /\ t[0] = d /\ \A n \in 1..l : t[n] = Take(t[n - 1], Touch("move", s[n]))
  BY TraceIs DEF All
<1>2. T = {}
  <2>1. SUFFICES ASSUME T # {} PROVE FALSE
    OBVIOUS
  <2> HIDE DEF t, l
  <2>2. T \in SUBSET Nat
    BY <1>1
  <2>3. PICK n \in T : \A k \in T : n <= k
    BY <2>1, <2>2, Least
  <2>4. n # 0
    <3>1. Upto(s, 0) = {}
      BY DEF Upto
    <3>2. QED
      BY <1>1, <3>1
  <2>5. n \in 1..l /\ n \in Nat /\ n <= l /\ n - 1 \in 0..l
    BY <1>1, <2>3, <2>4
  <2>6. n - 1 \notin T
    BY <2>3, <2>5
  <2>7. Good(n - 1) /\ t[n] = Take(t[n - 1], Touch("move", s[n]))
    BY <1>1, <2>5, <2>6
  <2>8. Upto(s, n) = Upto(s, n - 1) \cup {s[n]} /\ (Once(s, l) => s[n] \notin Upto(s, n - 1))
    BY <1>1, <2>4, <2>5, UptoNext
  <2>9. Good(n)
    <3> DEFINE p == t[n - 1]
    <3>1. LET q == Take(p, Touch("move", s[n])) IN
            /\ IsDesk(q) /\ q.on = p.on /\ (s[n] \in p.touch /\ ~p.torn => ~q.torn)
            /\ q.touch = p.touch /\ q.lifting = p.lifting
      BY <2>7, MoveIs
    <3>2. fresh => s[n] \in d.touch
      BY <2>5 DEF l
    <3> HIDE DEF p, fresh
    <3>3. QED
      BY <2>7, <3>1, <3>2 DEF p
  <2>10. QED
    BY <2>3, <2>9
<1>3. Good(l)
  BY <1>1, <1>2
<1>4. QED
  BY <1>3 DEF TakenBy

LEMMA UpsTaken ==
  ASSUME NEW d, IsDesk(d), NEW s, NEW e, All("up", s, e)
  PROVE  LET r == TakenBy(d, e) IN
         /\ IsDesk(r) /\ r.on = d.on
         /\ (Once(s, Len(e)) /\ \A i \in 1..Len(e) : s[i] \in d.touch) /\ ~d.torn => ~r.torn
         /\ d.on = "kwin" => r.touch = d.touch \ Upto(s, Len(e)) /\ r.lifting = d.lifting
         /\ d.on # "kwin" => r.touch = d.touch /\ r.lifting = d.lifting \cup (Upto(s, Len(e)) \cap d.touch)
<1> DEFINE t == Trace(d, e)
           l == Len(e)
           fresh == (Once(s, Len(e)) /\ \A i \in 1..Len(e) : s[i] \in d.touch) /\ ~d.torn
           Good(n) == /\ IsDesk(t[n]) /\ t[n].on = d.on /\ (fresh => ~t[n].torn)
                      /\ d.on = "kwin" => t[n].touch = d.touch \ Upto(s, n) /\ t[n].lifting = d.lifting
                      /\ d.on # "kwin" => /\ t[n].touch = d.touch
                                          /\ t[n].lifting = d.lifting \cup (Upto(s, n) \cap d.touch)
           T == {n \in 0..l : ~Good(n)}
<1>1. l \in Nat /\ t[0] = d /\ \A n \in 1..l : t[n] = Take(t[n - 1], Touch("up", s[n]))
  BY TraceIs DEF All
<1>2. T = {}
  <2>1. SUFFICES ASSUME T # {} PROVE FALSE
    OBVIOUS
  <2> HIDE DEF t, l
  <2>2. T \in SUBSET Nat
    BY <1>1
  <2>3. PICK n \in T : \A k \in T : n <= k
    BY <2>1, <2>2, Least
  <2>4. n # 0
    <3>1. Upto(s, 0) = {}
      BY DEF Upto
    <3>2. QED
      BY <1>1, <3>1
  <2>5. n \in 1..l /\ n \in Nat /\ n <= l /\ n - 1 \in 0..l
    BY <1>1, <2>3, <2>4
  <2>6. n - 1 \notin T
    BY <2>3, <2>5
  <2>7. Good(n - 1) /\ t[n] = Take(t[n - 1], Touch("up", s[n]))
    BY <1>1, <2>5, <2>6
  <2>8. Upto(s, n) = Upto(s, n - 1) \cup {s[n]} /\ (Once(s, l) => s[n] \notin Upto(s, n - 1))
    BY <1>1, <2>4, <2>5, UptoNext
  <2>9. Good(n)
    <3> DEFINE p == t[n - 1]
    <3>1. LET q == Take(p, Touch("up", s[n])) IN
            /\ IsDesk(q) /\ q.on = p.on /\ (s[n] \in p.touch /\ ~p.torn => ~q.torn)
            /\ q.touch = (IF p.on = "kwin" THEN p.touch \ {s[n]} ELSE p.touch)
            /\ q.lifting = (IF p.on = "gnome" /\ s[n] \in p.touch THEN p.lifting \cup {s[n]} ELSE p.lifting)
      BY <2>7, UpIs
    <3>2. fresh => s[n] \in d.touch /\ s[n] \notin Upto(s, n - 1)
      BY <2>5, <2>8 DEF l
    <3>3. d.on \in {"kwin", "gnome"}
      BY DEF IsDesk
    <3> HIDE DEF p, fresh
    <3>4. CASE d.on = "kwin"
      BY <2>7, <2>8, <3>1, <3>2, <3>4 DEF p
    <3>5. CASE d.on = "gnome"
      BY <2>7, <2>8, <3>1, <3>2, <3>5 DEF p
    <3>6. QED
      BY <3>3, <3>4, <3>5
  <2>10. QED
    BY <2>3, <2>9
<1>3. Good(l)
  BY <1>1, <1>2
<1>4. QED
  BY <1>3 DEF TakenBy

-----------------------------------------------------------------------------
(* What a call of the UI thread sends.                                      *)

\* Nothing is down, and nothing waits for a frame.
Clear(d) == IsDesk(d) /\ d.touch = {} /\ d.lifting = {} /\ d.open = FALSE

\* e sends each contact of S, once.
Sends(a, S, e) == List(e) /\ \E s : All(a, s, e) /\ Once(s, Len(e)) /\ Upto(s, Len(e)) = S

\* The contacts D go down, M move and U are lifted, all of it framed, and what goes down is new
\* and what moves or is lifted there, if it is so before; and what comes after a frame that
\* was late leaves no other contact.
Makes(e, D, M, U) ==
  /\ List(e)
  /\ \A d : IsDesk(d) /\ d.lifting = {} /\ d.open = FALSE =>
       LET r == TakenBy(d, e) IN
       /\ r.lifting = {} /\ r.open = FALSE /\ r.touch = (d.touch \cup D) \ U
       /\ D \cap d.touch = {} /\ M \cup U \subseteq d.touch \cup D /\ ~d.torn => ~r.torn
  /\ \A d, n : Clear(d) /\ n \in 0..Len(e) =>
       LET r == TakenBy(d, SubSeq(e, n + 1, Len(e))) IN
       r.lifting = {} /\ r.open = FALSE /\ r.touch \subseteq D \ U

\* Keys and text, any number of them.
LEMMA QuietTaken ==
  ASSUME NEW d, IsDesk(d), NEW q, Quiet(q)
  PROVE  IsDesk(TakenBy(d, q)) /\ SameContacts(d, TakenBy(d, q))
<1> DEFINE t == Trace(d, q)
           l == Len(q)
           Good(n) == IsDesk(t[n]) /\ SameContacts(d, t[n])
           T == {n \in 0..l : ~Good(n)}
<1>1. PICK S : q \in Seq(S) /\ \A ev \in S : IsQuiet(ev)
  BY DEF Quiet
<1>2. l \in Nat /\ t[0] = d /\ \A n \in 1..l : t[n] = Take(t[n - 1], q[n]) /\ IsQuiet(q[n])
  BY <1>1, TraceIs, LenProperties, ElementOfSeq
<1>3. T = {}
  <2>1. SUFFICES ASSUME T # {} PROVE FALSE
    OBVIOUS
  <2> HIDE DEF t, l
  <2>2. T \in SUBSET Nat
    BY <1>2
  <2>3. PICK n \in T : \A k \in T : n <= k
    BY <2>1, <2>2, Least
  <2>4. n # 0
    BY <1>2 DEF SameContacts
  <2>5. n \in 1..l /\ n - 1 \in 0..l
    BY <1>2, <2>3, <2>4
  <2>6. n - 1 \notin T
    BY <2>3, <2>5
  <2>7. Good(n - 1) /\ t[n] = Take(t[n - 1], q[n]) /\ IsQuiet(q[n])
    BY <1>2, <2>5, <2>6
  <2>8. IsDesk(t[n]) /\ SameContacts(t[n - 1], t[n])
    BY <2>7, QuietIs
  <2>9. Good(n)
    BY <2>7, <2>8 DEF SameContacts
  <2>10. QED
    BY <2>3, <2>9
<1>4. Good(l)
  BY <1>2, <1>3
<1>5. QED
  BY <1>4 DEF TakenBy

\* Where no contact goes down, none is.
LEMMA NoDowns ==
  ASSUME NEW d, Clear(d), NEW e, List(e), \A i \in 1..Len(e), x \in Ids : e[i] # Touch("down", x)
  PROVE  Clear(TakenBy(d, e))
<1> DEFINE t == Trace(d, e)
           l == Len(e)
           T == {n \in 0..l : ~Clear(t[n])}
<1>1. l \in Nat /\ t[0] = d /\ \A n \in 1..l : t[n] = Take(t[n - 1], e[n]) /\ IsEvent(e[n])
  BY TraceIs, ListFacts
<1>2. T = {}
  <2>1. SUFFICES ASSUME T # {} PROVE FALSE
    OBVIOUS
  <2>2. \A n \in 1..l, x \in Ids : e[n] # Touch("down", x)
    OBVIOUS
  <2> HIDE DEF t, l
  <2>3. T \in SUBSET Nat
    BY <1>1
  <2>4. PICK n \in T : \A k \in T : n <= k
    BY <2>1, <2>3, Least
  <2>5. n # 0
    BY <1>1
  <2>6. n \in 1..l /\ n - 1 \in 0..l
    BY <1>1, <2>4, <2>5
  <2>7. n - 1 \notin T
    BY <2>4, <2>6
  <2> DEFINE p == t[n - 1]
  <2>8. Clear(p) /\ t[n] = Take(p, e[n]) /\ IsEvent(e[n])
    BY <1>1, <2>6, <2>7
  <2> HIDE DEF p
  <2>8a. IsDesk(p)
    BY <2>8 DEF Clear
  <2>9. CASE IsQuiet(e[n])
    <3>1. IsDesk(Take(p, e[n])) /\ SameContacts(p, Take(p, e[n]))
      BY <2>8, <2>9, QuietIs DEF Clear
    <3>2. QED
      BY <2>4, <2>8, <3>1 DEF Clear, SameContacts
  <2>10. CASE e[n] = Frame
    <3>1. LET q == Take(p, Frame) IN
            IsDesk(q) /\ q.touch = p.touch \ p.lifting /\ q.lifting = {} /\ q.open = FALSE
      BY <2>8, FrameIs DEF Clear
    <3>2. QED
      BY <2>4, <2>8, <2>10, <3>1 DEF Clear
  <2>11. CASE e[n] \in TouchEvents
    <3>1. PICK a \in {"down", "move", "up"}, x \in Ids : e[n] = Touch(a, x)
      BY <2>11 DEF TouchEvents
    <3>2. a = "move" \/ a = "up"
      BY <2>2, <2>6, <3>1
    <3>3. CASE e[n] = Touch("move", x)
      <4>1. LET q == Take(p, Touch("move", x)) IN
              /\ IsDesk(q) /\ q.touch = p.touch /\ q.lifting = p.lifting
              /\ (p.on = "kwin" \/ x \notin p.touch => q.open = p.open)
        BY <2>8a, MoveIs
      <4>2. QED
        BY <2>4, <2>8, <3>3, <4>1 DEF Clear
    <3>4. CASE e[n] = Touch("up", x)
      <4>1. LET q == Take(p, Touch("up", x)) IN
              /\ IsDesk(q) /\ q.touch = (IF p.on = "kwin" THEN p.touch \ {x} ELSE p.touch)
              /\ q.lifting = (IF p.on = "gnome" /\ x \in p.touch THEN p.lifting \cup {x} ELSE p.lifting)
              /\ (p.on = "kwin" \/ x \notin p.touch => q.open = p.open)
        BY <2>8a, UpIs
      <4>2. QED
        BY <2>4, <2>8, <3>4, <4>1 DEF Clear
    <3>5. QED
      BY <3>1, <3>2, <3>3, <3>4
  <2>12. QED
    BY <2>8, <2>9, <2>10, <2>11 DEF IsEvent
<1>3. Clear(t[l])
  BY <1>1, <1>2
<1>4. QED
  BY <1>3 DEF TakenBy

\* The end of two lists.
LEMMA EndOfBoth ==
  ASSUME NEW a, NEW b, List(a), List(b), NEW n \in 0..Len(a \o b)
  PROVE  /\ Len(a) \in Nat /\ Len(b) \in Nat
         /\ IF n <= Len(a) THEN /\ n \in 0..Len(a)
                               /\ SubSeq(a \o b, n + 1, Len(a \o b)) = SubSeq(a, n + 1, Len(a)) \o b
            ELSE /\ n - Len(a) \in 0..Len(b)
                 /\ SubSeq(a \o b, n + 1, Len(a \o b)) = SubSeq(b, (n - Len(a)) + 1, Len(b))
<1> DEFINE c == a \o b
           la == Len(a)
           lb == Len(b)
           e == SubSeq(c, n + 1, Len(c))
<1>1. PICK S : a \in Seq(S) /\ b \in Seq(S)
  <2>1. PICK S : a \in Seq(S)
    BY DEF List
  <2>2. PICK T : b \in Seq(T)
    BY DEF List
  <2>3. a \in Seq(S \cup T) /\ b \in Seq(S \cup T)
    BY <2>1, <2>2, Wider
  <2>4. QED
    BY <2>3
<1>2. /\ la \in Nat /\ lb \in Nat /\ Len(c) = la + lb /\ c \in Seq(S)
      /\ \A i \in 1..la + lb : c[i] = IF i <= la THEN a[i] ELSE b[i - la]
      /\ \A i \in 1..la : a[i] \in S
      /\ \A i \in 1..lb : b[i] \in S
  BY <1>1, ConcatProperties, LenProperties, ElementOfSeq
<1>3. n \in Nat /\ n <= la + lb
  BY <1>2
<1> HIDE DEF c, la, lb
<1>4. \A m \in Int, h \in Int : \A s : (\A i \in m..h : s[i] \in S) =>
         /\ SubSeq(s, m, h) \in Seq(S)
         /\ Len(SubSeq(s, m, h)) = IF m <= h THEN h - m + 1 ELSE 0
         /\ \A i \in 1..h - m + 1 : SubSeq(s, m, h)[i] = s[m + i - 1]
  BY SubSeqProperties
<1>5. /\ e \in Seq(S) /\ Len(e) = la + lb - n
      /\ \A i \in 1..la + lb - n : e[i] = c[n + i]
  <2>1. n + 1 \in Int /\ la + lb \in Int /\ \A i \in n + 1..la + lb : c[i] \in S
    <3>1. \A i \in 1..la + lb : c[i] \in S
      BY <1>2, ElementOfSeq
    <3>2. QED
      BY <1>2, <1>3, <3>1
  <2>2. /\ e \in Seq(S) /\ Len(e) = IF n + 1 <= la + lb THEN la + lb - (n + 1) + 1 ELSE 0
        /\ \A i \in 1..la + lb - (n + 1) + 1 : e[i] = c[n + 1 + i - 1]
    BY <1>2, <1>4, <2>1
  <2> HIDE DEF e
  <2>3. la + lb - (n + 1) + 1 = la + lb - n /\ \A i \in 1..la + lb - n : n + 1 + i - 1 = n + i
    BY <1>2, <1>3
  <2>4. Len(e) = la + lb - n
    BY <1>2, <1>3, <2>2
  <2>5. QED
    BY <2>2, <2>3, <2>4
<1> HIDE DEF e
<1>6. CASE n <= la
  <2> DEFINE p == SubSeq(a, n + 1, la)
  <2>1. n + 1 \in Int /\ la \in Int /\ \A i \in n + 1..la : a[i] \in S
    BY <1>2, <1>3
  <2>2. /\ p \in Seq(S) /\ Len(p) = IF n + 1 <= la THEN la - (n + 1) + 1 ELSE 0
        /\ \A i \in 1..la - (n + 1) + 1 : p[i] = a[n + 1 + i - 1]
    BY <1>4, <2>1
  <2> HIDE DEF p
  <2>3. la - (n + 1) + 1 = la - n /\ \A i \in 1..la - n : n + 1 + i - 1 = n + i
    BY <1>2, <1>3
  <2>4. Len(p) = la - n /\ \A i \in 1..la - n : p[i] = a[n + i]
    BY <1>2, <1>3, <1>6, <2>2, <2>3
  <2> DEFINE f == p \o b
  <2>4a. /\ f \in Seq(S) /\ Len(f) = Len(p) + Len(b)
         /\ \A i \in 1..Len(p) + Len(b) : f[i] = IF i <= Len(p) THEN p[i] ELSE b[i - Len(p)]
    BY <1>1, <2>2, ConcatProperties
  <2> HIDE DEF f
  <2>5. /\ f \in Seq(S) /\ Len(f) = la - n + lb
        /\ \A i \in 1..la - n + lb : f[i] = IF i <= la - n THEN p[i] ELSE b[i - (la - n)]
    BY <2>4, <2>4a DEF lb
  <2>6. Len(e) = Len(f) /\ la + lb - n = la - n + lb
    BY <1>2, <1>3, <1>5, <2>5
  <2>7. ASSUME NEW i \in 1..la + lb - n PROVE e[i] = f[i]
    <3>1. e[i] = c[n + i] /\ n + i \in 1..la + lb
      BY <1>2, <1>3, <1>5
    <3>2. CASE i <= la - n
      <4>1. n + i <= la /\ i \in 1..la - n /\ i \in 1..la - n + lb
        BY <1>2, <1>3, <3>2
      <4>2. QED
        BY <1>2, <2>4, <2>5, <3>1, <3>2, <4>1
    <3>3. CASE ~(i <= la - n)
      <4>1. ~(n + i <= la) /\ n + i - la = i - (la - n) /\ i \in 1..la - n + lb
        BY <1>2, <1>3, <3>3
      <4>2. c[n + i] = b[n + i - la]
        BY <1>2, <3>1, <4>1
      <4>3. f[i] = b[i - (la - n)]
        BY <2>5, <3>3, <4>1
      <4>4. QED
        BY <3>1, <4>1, <4>2, <4>3
    <3>4. QED
      BY <3>2, <3>3
  <2>8. e = f
    BY <1>5, <2>5, <2>6, <2>7, SeqEqual
  <2>9. n \in 0..la
    BY <1>2, <1>3, <1>6
  <2>10. QED
    BY <1>2, <1>6, <2>8, <2>9 DEF e, f, p, c, la, lb
<1>7. CASE ~(n <= la)
  <2> DEFINE k == n - la
             p == SubSeq(b, k + 1, lb)
  <2>1. k \in Nat /\ k + 1 \in Int /\ lb \in Int /\ k <= lb /\ \A i \in k + 1..lb : b[i] \in S
    BY <1>2, <1>3, <1>7
  <2>2. n = la + k /\ la + lb - n = lb - k
    BY <1>2, <1>3
  <2> HIDE DEF k
  <2>3. /\ p \in Seq(S) /\ Len(p) = IF k + 1 <= lb THEN lb - (k + 1) + 1 ELSE 0
        /\ \A i \in 1..lb - (k + 1) + 1 : p[i] = b[k + 1 + i - 1]
    BY <1>4, <2>1
  <2> HIDE DEF p
  <2>4. lb - (k + 1) + 1 = lb - k /\ \A i \in 1..lb - k : k + 1 + i - 1 = k + i
    BY <1>2, <2>1
  <2>5. Len(p) = lb - k /\ \A i \in 1..lb - k : p[i] = b[k + i]
    BY <1>2, <2>1, <2>3, <2>4
  <2>6. ASSUME NEW i \in 1..lb - k PROVE e[i] = p[i]
    <3>1. e[i] = c[n + i] /\ n + i \in 1..la + lb /\ ~(n + i <= la) /\ n + i - la = k + i
      BY <1>2, <1>5, <2>1, <2>2
    <3>2. QED
      BY <1>2, <2>5, <3>1
  <2>7. e = p
    BY <1>5, <2>2, <2>3, <2>5, <2>6, SeqEqual
  <2>8. QED
    BY <1>2, <1>7, <2>1, <2>7 DEF e, p, k, c, la, lb
<1>8. QED
  BY <1>6, <1>7

\* Keys and text, alone, before or after.
LEMMA QuietEnd ==
  ASSUME NEW q, Quiet(q), NEW n \in 0..Len(q)
  PROVE  Quiet(SubSeq(q, n + 1, Len(q))) /\ Len(q) \in Nat
<1>1. PICK S : q \in Seq(S) /\ \A ev \in S : IsQuiet(ev)
  BY DEF Quiet
<1>2. Len(q) \in Nat /\ \A i \in 1..Len(q) : q[i] \in S
  BY <1>1, LenProperties, ElementOfSeq
<1>3. n + 1 \in Int /\ Len(q) \in Int /\ \A i \in n + 1..Len(q) : q[i] \in S
  BY <1>2
<1>4. SubSeq(q, n + 1, Len(q)) \in Seq(S)
  BY <1>3, SubSeqProperties
<1>5. QED
  BY <1>1, <1>2, <1>4 DEF Quiet

\* Keys and text send no contact down, and may come before or after what does.
LEMMA MakesNone ==
  ASSUME NEW q, Quiet(q)
  PROVE  Makes(q, {}, {}, {})
<1>1. List(q)
  BY ListsMade
<1>2. ASSUME NEW d, IsDesk(d), d.lifting = {}, d.open = FALSE
      PROVE  LET r == TakenBy(d, q) IN
             /\ r.lifting = {} /\ r.open = FALSE /\ r.touch = (d.touch \cup {}) \ {}
             /\ {} \cap d.touch = {} /\ {} \cup {} \subseteq d.touch \cup {} /\ ~d.torn => ~r.torn
  BY <1>2, QuietTaken DEF SameContacts
<1>3. ASSUME NEW d, NEW n, Clear(d), n \in 0..Len(q)
      PROVE  LET r == TakenBy(d, SubSeq(q, n + 1, Len(q))) IN
             r.lifting = {} /\ r.open = FALSE /\ r.touch \subseteq {} \ {}
  <2>1. Quiet(SubSeq(q, n + 1, Len(q)))
    BY <1>3, QuietEnd
  <2>2. SameContacts(d, TakenBy(d, SubSeq(q, n + 1, Len(q))))
    BY <1>3, <2>1, QuietTaken DEF Clear
  <2>3. QED
    BY <1>3, <2>2 DEF SameContacts, Clear
<1>4. QED
  BY <1>1, <1>2, <1>3 DEF Makes

LEMMA MakesBefore ==
  ASSUME NEW q, Quiet(q), NEW e, NEW D, NEW M, NEW U, Makes(e, D, M, U)
  PROVE  Makes(q \o e, D, M, U)
<1> DEFINE c == q \o e
<1>1. List(q) /\ List(e) /\ List(c)
  BY ListsMade DEF Makes
<1>2. ASSUME NEW d, IsDesk(d), d.lifting = {}, d.open = FALSE
      PROVE  LET r == TakenBy(d, c) IN
             /\ r.lifting = {} /\ r.open = FALSE /\ r.touch = (d.touch \cup D) \ U
             /\ D \cap d.touch = {} /\ M \cup U \subseteq d.touch \cup D /\ ~d.torn => ~r.torn
  <2> DEFINE m == TakenBy(d, q)
  <2>1. IsDesk(m) /\ SameContacts(d, m)
    BY <1>2, QuietTaken
  <2>2. TakenBy(d, c) = TakenBy(m, e)
    BY <1>1, TakenLists
  <2> HIDE DEF m, c
  <2>3. LET r == TakenBy(m, e) IN
        /\ r.lifting = {} /\ r.open = FALSE /\ r.touch = (m.touch \cup D) \ U
        /\ D \cap m.touch = {} /\ M \cup U \subseteq m.touch \cup D /\ ~m.torn => ~r.torn
    BY <1>2, <2>1 DEF Makes, SameContacts
  <2>4. m.touch = d.touch /\ m.torn = d.torn
    BY <2>1 DEF SameContacts
  <2>5. QED
    BY <2>2, <2>3, <2>4
<1>3. ASSUME NEW d, NEW n, Clear(d), n \in 0..Len(c)
      PROVE  LET r == TakenBy(d, SubSeq(c, n + 1, Len(c))) IN
             r.lifting = {} /\ r.open = FALSE /\ r.touch \subseteq D \ U
  <2>1. CASE n <= Len(q)
    <3> DEFINE p == SubSeq(q, n + 1, Len(q))
               m == TakenBy(d, p)
    <3>1. SubSeq(c, n + 1, Len(c)) = p \o e /\ n \in 0..Len(q)
      BY <1>1, <1>3, <2>1, EndOfBoth
    <3>2. Quiet(p)
      BY <3>1, QuietEnd
    <3>3. IsDesk(m) /\ SameContacts(d, m)
      BY <1>3, <3>2, QuietTaken DEF Clear
    <3> HIDE DEF p
    <3>4. TakenBy(d, p \o e) = TakenBy(m, e)
      BY <1>1, <3>2, TakenLists, ListsMade
    <3> HIDE DEF m, c
    <3>5. IsDesk(m) /\ m.touch = {} /\ m.lifting = {} /\ m.open = FALSE
      BY <1>3, <3>3 DEF Clear, SameContacts
    <3>6. LET r == TakenBy(m, e) IN r.lifting = {} /\ r.open = FALSE /\ r.touch = (m.touch \cup D) \ U
      BY <3>5 DEF Makes
    <3>7. QED
      BY <3>1, <3>4, <3>5, <3>6
  <2>2. CASE ~(n <= Len(q))
    <3> DEFINE k == n - Len(q)
    <3>1. SubSeq(c, n + 1, Len(c)) = SubSeq(e, k + 1, Len(e)) /\ k \in 0..Len(e)
      BY <1>1, <1>3, <2>2, EndOfBoth
    <3> HIDE DEF k, c
    <3>2. QED
      BY <1>3, <3>1 DEF Makes
  <2>3. QED
    BY <2>1, <2>2
<1> HIDE DEF c
<1>4. Makes(c, D, M, U)
  BY <1>1, <1>2, <1>3 DEF Makes
<1>5. QED
  BY <1>4 DEF c

LEMMA MakesAfter ==
  ASSUME NEW q, Quiet(q), NEW e, NEW D, NEW M, NEW U, Makes(e, D, M, U)
  PROVE  Makes(e \o q, D, M, U)
<1> DEFINE c == e \o q
<1>1. List(q) /\ List(e) /\ List(c)
  BY ListsMade DEF Makes
<1>2. ASSUME NEW d, IsDesk(d), d.lifting = {}, d.open = FALSE
      PROVE  LET r == TakenBy(d, c) IN
             /\ r.lifting = {} /\ r.open = FALSE /\ r.touch = (d.touch \cup D) \ U
             /\ D \cap d.touch = {} /\ M \cup U \subseteq d.touch \cup D /\ ~d.torn => ~r.torn
  <2> DEFINE m == TakenBy(d, e)
  <2>1. /\ m.lifting = {} /\ m.open = FALSE /\ m.touch = (d.touch \cup D) \ U
        /\ D \cap d.touch = {} /\ M \cup U \subseteq d.touch \cup D /\ ~d.torn => ~m.torn
    BY <1>2 DEF Makes
  <2>2. IsDesk(m)
    BY <1>1, <1>2, TakenKeeps
  <2>3. TakenBy(d, c) = TakenBy(m, q)
    BY <1>1, TakenLists
  <2> HIDE DEF m, c
  <2>4. SameContacts(m, TakenBy(m, q))
    BY <2>2, QuietTaken
  <2>5. QED
    BY <2>1, <2>3, <2>4 DEF SameContacts
<1>3. ASSUME NEW d, NEW n, Clear(d), n \in 0..Len(c)
      PROVE  LET r == TakenBy(d, SubSeq(c, n + 1, Len(c))) IN
             r.lifting = {} /\ r.open = FALSE /\ r.touch \subseteq D \ U
  <2>1. CASE n <= Len(e)
    <3> DEFINE p == SubSeq(e, n + 1, Len(e))
               m == TakenBy(d, p)
    <3>1. SubSeq(c, n + 1, Len(c)) = p \o q /\ n \in 0..Len(e)
      BY <1>1, <1>3, <2>1, EndOfBoth
    <3>2. List(p)
      BY <1>1, <3>1, TakenApart
    <3>3. m.lifting = {} /\ m.open = FALSE /\ m.touch \subseteq D \ U
      BY <1>3, <3>1 DEF Makes
    <3> HIDE DEF p
    <3>4. IsDesk(m)
      BY <1>3, <3>2, TakenKeeps DEF Clear
    <3>5. TakenBy(d, p \o q) = TakenBy(m, q)
      BY <1>1, <3>2, TakenLists
    <3> HIDE DEF m, c
    <3>6. SameContacts(m, TakenBy(m, q))
      BY <3>4, QuietTaken
    <3>7. QED
      BY <3>1, <3>3, <3>5, <3>6 DEF SameContacts
  <2>2. CASE ~(n <= Len(e))
    <3> DEFINE k == n - Len(e)
               p == SubSeq(q, k + 1, Len(q))
    <3>1. SubSeq(c, n + 1, Len(c)) = p /\ k \in 0..Len(q)
      BY <1>1, <1>3, <2>2, EndOfBoth
    <3> HIDE DEF k, c
    <3>2. Quiet(p)
      BY <3>1, QuietEnd
    <3> HIDE DEF p
    <3>3. SameContacts(d, TakenBy(d, p))
      BY <1>3, <3>2, QuietTaken DEF Clear
    <3>4. QED
      BY <1>3, <3>1, <3>3 DEF SameContacts, Clear
  <2>3. QED
    BY <2>1, <2>2
<1> HIDE DEF c
<1>4. Makes(c, D, M, U)
  BY <1>1, <1>2, <1>3 DEF Makes
<1>5. QED
  BY <1>4 DEF c

\* No contact goes down.
Free(e) == \A i \in 1..Len(e), x \in Ids : e[i] # Touch("down", x)

LEMMA FreeParts ==
  ASSUME NEW a, NEW b, List(a), List(b), Free(a), Free(b)
  PROVE  Free(a \o b)
<1>1. PICK S : a \in Seq(S)
  BY DEF List
<1>2. PICK T : b \in Seq(T)
  BY DEF List
<1>3. a \in Seq(S \cup T) /\ b \in Seq(S \cup T)
  BY <1>1, <1>2, Wider
<1> DEFINE c == a \o b
<1>4. /\ Len(a) \in Nat /\ Len(b) \in Nat /\ Len(c) = Len(a) + Len(b)
      /\ \A i \in 1..Len(a) + Len(b) : c[i] = IF i <= Len(a) THEN a[i] ELSE b[i - Len(a)]
  BY <1>3, ConcatProperties, LenProperties
<1> HIDE DEF c
<1>5. ASSUME NEW i \in 1..Len(c), NEW x \in Ids PROVE c[i] # Touch("down", x)
  <2>1. CASE i <= Len(a)
    <3>1. i \in 1..Len(a)
      BY <1>4, <2>1
    <3>2. QED
      BY <1>4, <2>1, <3>1 DEF Free
  <2>2. CASE ~(i <= Len(a))
    <3>1. i - Len(a) \in 1..Len(b)
      BY <1>4, <2>2
    <3>2. QED
      BY <1>4, <2>2, <3>1 DEF Free
  <2>3. QED
    BY <2>1, <2>2
<1>6. QED
  BY <1>5 DEF Free, c

LEMMA EndIs ==
  ASSUME NEW e, List(e), NEW n \in 0..Len(e)
  PROVE  LET s == SubSeq(e, n + 1, Len(e)) IN
         /\ List(s) /\ Len(e) \in Nat /\ Len(s) \in Nat /\ Len(s) = Len(e) - n
         /\ \A i \in 1..Len(s) : s[i] = e[n + i] /\ n + i \in 1..Len(e)
<1> DEFINE l == Len(e)
           s == SubSeq(e, n + 1, l)
<1>1. PICK S : e \in Seq(S)
  BY DEF List
<1>2. l \in Nat /\ \A i \in 1..l : e[i] \in S
  BY <1>1, LenProperties, ElementOfSeq
<1>3. n + 1 \in Int /\ l \in Int /\ n \in Nat /\ n <= l /\ \A i \in n + 1..l : e[i] \in S
  BY <1>2
<1>4. /\ Len(s) = IF n + 1 <= l THEN l - (n + 1) + 1 ELSE 0
      /\ \A i \in 1..l - (n + 1) + 1 : s[i] = e[n + 1 + i - 1]
  BY <1>3, SubSeqProperties
<1>5. List(s)
  BY TakenApart
<1> HIDE DEF s, l
<1>6. Len(s) = l - n
  BY <1>3, <1>2, <1>4
<1>7. l - (n + 1) + 1 = l - n /\ \A i \in 1..l - n : n + 1 + i - 1 = n + i /\ n + i \in 1..l
  BY <1>2, <1>3
<1>8. l - n \in Nat /\ \A i \in 1..l - n : s[i] = e[n + i]
  BY <1>2, <1>3, <1>4, <1>7
<1>9. QED
  BY <1>2, <1>5, <1>6, <1>7, <1>8 DEF s, l

LEMMA FreeEnd ==
  ASSUME NEW e, List(e), Free(e), NEW n \in 0..Len(e)
  PROVE  List(SubSeq(e, n + 1, Len(e))) /\ Free(SubSeq(e, n + 1, Len(e)))
<1> DEFINE s == SubSeq(e, n + 1, Len(e))
<1>1. List(s) /\ \A i \in 1..Len(s) : s[i] = e[n + i] /\ n + i \in 1..Len(e)
  BY EndIs
<1> HIDE DEF s
<1>2. Free(s)
  BY <1>1 DEF Free
<1>3. QED
  BY <1>1, <1>2 DEF s

\* Motion, what is lifted, and the frame.
LEMMA RestTaken ==
  ASSUME NEW d, IsDesk(d), d.lifting = {}, NEW q, NEW r, NEW M, NEW U,
         Sends("move", M, q), Sends("up", U, r)
  PROVE  LET z == TakenBy(d, (q \o r) \o <<Frame>>) IN
         /\ IsDesk(z) /\ z.touch = d.touch \ U /\ z.lifting = {} /\ z.open = FALSE
         /\ M \cup U \subseteq d.touch /\ ~d.torn => ~z.torn
<1> DEFINE m == TakenBy(d, q)
           k == TakenBy(m, r)
           z == Take(k, Frame)
<1>1. List(q) /\ List(r) /\ List(q \o r) /\ List(<<Frame>>)
  BY ListsMade DEF Sends, IsEvent
<1>2. TakenBy(d, (q \o r) \o <<Frame>>) = z
  BY <1>1, TakenLists, TakenOne
<1>3. PICK s : All("move", s, q) /\ Upto(s, Len(q)) = M
  BY DEF Sends
<1>4. PICK u : All("up", u, r) /\ Once(u, Len(r)) /\ Upto(u, Len(r)) = U
  BY DEF Sends
<1>5. /\ IsDesk(m) /\ m.on = d.on /\ m.touch = d.touch /\ m.lifting = {}
      /\ (\A i \in 1..Len(q) : s[i] \in d.touch) /\ ~d.torn => ~m.torn
  BY <1>3, MovesTaken
<1> HIDE DEF m
<1>6. /\ IsDesk(k) /\ k.on = m.on
      /\ Once(u, Len(r)) /\ (\A i \in 1..Len(r) : u[i] \in m.touch) /\ ~m.torn => ~k.torn
      /\ m.on = "kwin" => k.touch = m.touch \ Upto(u, Len(r)) /\ k.lifting = m.lifting
      /\ m.on # "kwin" => k.touch = m.touch /\ k.lifting = m.lifting \cup (Upto(u, Len(r)) \cap m.touch)
  BY <1>4, <1>5, UpsTaken
<1> HIDE DEF k
<1>7. /\ IsDesk(z) /\ z.torn = k.torn /\ z.touch = k.touch \ k.lifting /\ z.lifting = {} /\ z.open = FALSE
  BY <1>6, FrameIs
<1> HIDE DEF z
<1>8. z.touch = d.touch \ U
  BY <1>4, <1>5, <1>6, <1>7
<1>9. M \cup U \subseteq d.touch /\ ~d.torn => ~z.torn
  BY <1>3, <1>4, <1>5, <1>6, <1>7 DEF Upto
<1>10. QED
  BY <1>2, <1>7, <1>8, <1>9

LEMMA JoinedRight ==
  ASSUME NEW a, NEW b, NEW c, List(a), List(b), List(c)
  PROVE  (a \o b) \o c = a \o (b \o c)
<1>1. PICK S : a \in Seq(S)
  BY DEF List
<1>2. PICK T : b \in Seq(T)
  BY DEF List
<1>3. PICK R : c \in Seq(R)
  BY DEF List
<1> DEFINE A == S \cup T \cup R
<1>4. S \subseteq A /\ T \subseteq A /\ R \subseteq A
  OBVIOUS
<1> HIDE DEF A
<1>5. a \in Seq(A) /\ b \in Seq(A) /\ c \in Seq(A)
  BY <1>1, <1>2, <1>3, <1>4, Wider
<1>6. QED
  BY <1>5, ConcatAssociative

LEMMA NothingJoined ==
  ASSUME NEW a, List(a)
  PROVE  a \o <<>> = a /\ <<>> \o a = a
BY ConcatEmptySeq DEF List

\* One frame's worth.
LEMMA BatchMakes ==
  ASSUME NEW p, NEW q, NEW r, NEW D, NEW M, NEW U,
         Sends("down", D, p), Sends("move", M, q), Sends("up", U, r)
  PROVE  Makes(((p \o q) \o r) \o <<Frame>>, D, M, U)
<1> DEFINE f == (q \o r) \o <<Frame>>
           c == p \o f
<1>1. /\ List(p) /\ List(q) /\ List(r) /\ List(<<Frame>>) /\ List(p \o q) /\ List(q \o r) /\ List(f)
      /\ List(c)
  BY ListsMade DEF Sends, IsEvent
<1>2. ((p \o q) \o r) \o <<Frame>> = c
  <2>1. List(p) /\ List(q) /\ List(r)
    BY <1>1
  <2>2. (p \o q) \o r = p \o (q \o r)
    BY <2>1, JoinedRight
  <2>3. \A x, y : List(x) /\ List(y) => (p \o x) \o y = p \o (x \o y)
    BY <2>1, JoinedRight
  <2>4. (p \o (q \o r)) \o <<Frame>> = p \o ((q \o r) \o <<Frame>>)
    BY <1>1, <2>3
  <2>5. QED
    BY <2>2, <2>4
<1>3. PICK s : All("down", s, p) /\ Once(s, Len(p)) /\ Upto(s, Len(p)) = D
  BY DEF Sends
<1>4. \A d : IsDesk(d) /\ d.lifting = {} =>
        LET z == TakenBy(d, f) IN
        /\ IsDesk(z) /\ z.touch = d.touch \ U /\ z.lifting = {} /\ z.open = FALSE
        /\ M \cup U \subseteq d.touch /\ ~d.torn => ~z.torn
  BY RestTaken
<1>5. Free(f)
  <2>1. PICK sq : All("move", sq, q)
    BY DEF Sends
  <2>2. PICK sr : All("up", sr, r)
    BY DEF Sends
  <2>3. \A x, y : Touch("move", x) # Touch("down", y) /\ Touch("up", x) # Touch("down", y) /\ Frame # Touch("down", y)
    BY DEF Touch, Frame
  <2>4. Free(q) /\ Free(r)
    BY <2>1, <2>2, <2>3 DEF Free, All
  <2>5. Len(<<Frame>>) = 1 /\ <<Frame>>[1] = Frame
    OBVIOUS
  <2>6. Free(<<Frame>>)
    BY <2>3, <2>5 DEF Free
  <2>7. QED
    BY <1>1, <2>4, <2>6, FreeParts
<1> HIDE DEF f
<1>6. ASSUME NEW d, IsDesk(d), d.lifting = {}, d.open = FALSE
      PROVE  LET z == TakenBy(d, c) IN
             /\ z.lifting = {} /\ z.open = FALSE /\ z.touch = (d.touch \cup D) \ U
             /\ D \cap d.touch = {} /\ M \cup U \subseteq d.touch \cup D /\ ~d.torn => ~z.torn
  <2> DEFINE m == TakenBy(d, p)
             z == TakenBy(m, f)
  <2>1. TakenBy(d, c) = z
    BY <1>1, TakenLists
  <2>2. /\ IsDesk(m) /\ m.touch = d.touch \cup Upto(s, Len(p)) /\ m.lifting = d.lifting
        /\ (Once(s, Len(p)) /\ \A i \in 1..Len(p) : s[i] \notin d.touch) /\ ~d.torn => ~m.torn
    BY <1>3, <1>6, DownsTaken
  <2> HIDE DEF m
  <2>3. /\ IsDesk(z) /\ z.touch = m.touch \ U /\ z.lifting = {} /\ z.open = FALSE
        /\ M \cup U \subseteq m.touch /\ ~m.torn => ~z.torn
    BY <1>4, <1>6, <2>2
  <2> HIDE DEF z, c
  <2>4. \A i \in 1..Len(p) : s[i] \in D
    BY <1>3 DEF Upto
  <2>5. QED
    BY <1>3, <2>1, <2>2, <2>3, <2>4
<1>7. ASSUME NEW d, NEW n, Clear(d), n \in 0..Len(c)
      PROVE  LET z == TakenBy(d, SubSeq(c, n + 1, Len(c))) IN
             z.lifting = {} /\ z.open = FALSE /\ z.touch \subseteq D \ U
  <2>1. CASE n <= Len(p)
    <3> DEFINE e == SubSeq(p, n + 1, Len(p))
               u == [i \in 1..Len(e) |-> s[n + i]]
               m == TakenBy(d, e)
    <3>1. SubSeq(c, n + 1, Len(c)) = e \o f /\ n \in 0..Len(p)
      BY <1>1, <1>7, <2>1, EndOfBoth
    <3>2. List(e) /\ Len(e) \in Nat /\ \A i \in 1..Len(e) : e[i] = p[n + i] /\ n + i \in 1..Len(p)
      BY <1>1, <3>1, EndIs
    <3> HIDE DEF e
    <3>3. All("down", u, e) /\ Upto(u, Len(e)) \subseteq D
      BY <1>3, <3>2 DEF All, Upto
    <3> HIDE DEF u
    <3>4. IsDesk(m) /\ m.touch = d.touch \cup Upto(u, Len(e)) /\ m.lifting = d.lifting
      BY <1>7, <3>3, DownsTaken DEF Clear
    <3>5. TakenBy(d, e \o f) = TakenBy(m, f)
      BY <1>1, <3>2, TakenLists
    <3> HIDE DEF m, c
    <3>6. LET z == TakenBy(m, f) IN z.touch = m.touch \ U /\ z.lifting = {} /\ z.open = FALSE
      BY <1>4, <1>7, <3>4 DEF Clear
    <3>7. d.touch = {}
      BY <1>7 DEF Clear
    <3>8. QED
      BY <3>1, <3>3, <3>4, <3>5, <3>6, <3>7
  <2>2. CASE ~(n <= Len(p))
    <3> DEFINE k == n - Len(p)
               e == SubSeq(f, k + 1, Len(f))
    <3>1. SubSeq(c, n + 1, Len(c)) = e /\ k \in 0..Len(f)
      BY <1>1, <1>7, <2>2, EndOfBoth
    <3> HIDE DEF k
    <3>2. List(e) /\ Free(e)
      BY <1>1, <1>5, <3>1, FreeEnd
    <3> HIDE DEF e
    <3>3. Clear(TakenBy(d, e))
      BY <1>7, <3>2, NoDowns DEF Free
    <3> HIDE DEF c
    <3>4. QED
      BY <3>1, <3>3 DEF Clear
  <2>3. QED
    BY <2>1, <2>2
<1> HIDE DEF c
<1>8. Makes(c, D, M, U)
  BY <1>1, <1>6, <1>7 DEF Makes
<1>9. QED
  BY <1>2, <1>8

-----------------------------------------------------------------------------
(* The desktop and the fingers.                                             *)

\* The desktop has contacts that the code takes it to have, and none without a session; and
\* it has them all, unless fingers are down that were shared or had no session.
SeatInv ==
  /\ IsDesk(desk) /\ desk.lifting = {} /\ desk.open = FALSE
  /\ up \in BOOLEAN /\ straddled \in BOOLEAN /\ losses \in Nat
  /\ desk.touch \subseteq Believed /\ (~up => desk.touch = {}) /\ (~shown => ~up)
  /\ desk.torn => straddled
  /\ ~straddled => /\ IF up THEN desk.touch = Believed ELSE Believed = {}
                   /\ fingers.screen = {} \/ fingers.pad = {}

\* There is one device at most that has fingers, before and after.
OneDevice == (fingers.screen = {} \/ fingers.pad = {}) /\ (fingers.screen = {} \/ fingers.pad = {})'

\* A session that ends leaves no contact.
LEMMA FallenIs ==
  ASSUME NEW d, IsDesk(d), NEW y
  PROVE  LET e == Fallen([d EXCEPT !.deaf = y]) IN
         IsDesk(e) /\ e.touch = {} /\ e.lifting = {} /\ e.open = FALSE /\ e.torn = d.torn
<1> DEFINE c == [d EXCEPT !.deaf = y]
           a == [c EXCEPT !.touch = {}, !.lifting = {}, !.open = FALSE]
           s == IF a.on = "kwin" THEN a.held ELSE {}
           h == IF a.on = "kwin" THEN a.held ELSE {}
           e == [a EXCEPT !.stale = s, !.held = h]
<1>1. IsDesk(c) /\ c.torn = d.torn
  BY DEF IsDesk, IsRecord, DeskFields
<1> HIDE DEF c
<1>2. IsDesk(a) /\ a.torn = c.torn /\ a.touch = {} /\ a.lifting = {} /\ a.open = FALSE
  BY <1>1 DEF IsDesk, IsRecord, DeskFields
<1>3. AllLifted(c) = a
  BY DEF AllLifted
<1> HIDE DEF a
<1>4. a.on = c.on
  BY <1>1 DEF IsDesk, IsRecord, DeskFields, a
<1>5. Fallen(c) = e
  <2>1. "held" \in DOMAIN a /\ "stale" \in DOMAIN a
    BY <1>2 DEF IsDesk, IsRecord, DeskFields
  <2>2. c.on = a.on /\ c.held = a.held
    BY <1>1 DEF IsDesk, IsRecord, DeskFields, a
  <2>3. QED
    BY <1>3, <2>1, <2>2 DEF Fallen
<1> HIDE DEF s, h
<1>6. IsDesk(e) /\ e.torn = a.torn /\ e.touch = a.touch /\ e.lifting = a.lifting /\ e.open = a.open
  BY <1>2 DEF IsDesk, IsRecord, DeskFields
<1>7. QED
  BY <1>1, <1>2, <1>5, <1>6 DEF c

\* Nor does a frame that is late.
LEMMA LiftedIs ==
  ASSUME NEW d, IsDesk(d)
  PROVE  Clear([AllLifted(d) EXCEPT !.deaf = TRUE])
<1> DEFINE a == [d EXCEPT !.touch = {}, !.lifting = {}, !.open = FALSE]
<1>1. AllLifted(d) = a
  BY DEF AllLifted
<1>2. IsDesk(a) /\ a.touch = {} /\ a.lifting = {} /\ a.open = FALSE
  BY DEF IsDesk, IsRecord, DeskFields
<1> HIDE DEF a
<1>3. QED
  BY <1>1, <1>2 DEF Clear, IsDesk, IsRecord, DeskFields

\* What comes of what is not torn any more.
LEMMA Mended ==
  ASSUME IsDesk(desk), NEW y
  PROVE  LET d == [desk EXCEPT !.torn = FALSE]
             e == [desk EXCEPT !.torn = FALSE, !.deaf = y]
         IN /\ IsDesk(d) /\ d.touch = desk.touch /\ d.lifting = desk.lifting /\ d.open = desk.open /\ ~d.torn
            /\ IsDesk(e) /\ e.touch = desk.touch /\ e.lifting = desk.lifting /\ e.open = desk.open /\ ~e.torn
<1> DEFINE d == [desk EXCEPT !.torn = FALSE]
           e == [desk EXCEPT !.torn = FALSE, !.deaf = y]
<1>1. IsDesk(d) /\ d.touch = desk.touch /\ d.lifting = desk.lifting /\ d.open = desk.open /\ d.torn = FALSE
  BY DEF IsDesk, IsRecord, DeskFields
<1>2. IsDesk(e) /\ e.touch = desk.touch /\ e.lifting = desk.lifting /\ e.open = desk.open /\ e.torn = FALSE
  BY DEF IsDesk, IsRecord, DeskFields
<1>3. QED
  BY <1>1, <1>2

\* What a step that is watched leaves to be shown.
LEMMA Watched ==
  ASSUME SeatInv, Watch, Believed \subseteq fingers.screen \cup fingers.pad
  PROVE  /\ straddled' \in BOOLEAN
         /\ ~straddled' => /\ OneDevice /\ (~up' => Believed' = {})
                           /\ losses' # losses => ~desk'.torn /\ Believed' = {}
                           /\ straddled => Believed = {} /\ ~desk'.torn
                           /\ up => desk.touch = Believed
                           /\ ~up => Believed = {}
BY DEF SeatInv, Watch, OneDevice, AnyFinger

\* A call sends D down, moves M and lifts U, and the code takes the desktop to have what
\* is left.  Whether all of it is taken, none, or a part before the session ends or the frame
\* is late: what the desktop has is among what it is taken to have.
LEMMA SendHolds ==
  ASSUME SeatInv, Watch, Believed \subseteq fingers.screen \cup fingers.pad,
         NEW e, NEW D, NEW M, NEW U, Makes(e, D, M, U), Send(e),
         (Believed \cup D) \ U \subseteq Believed',
         OneDevice => D \cap Believed = {} /\ M \cup U \subseteq Believed \cup D
                      /\ Believed' = (Believed \cup D) \ U
  PROVE  SeatInv'
<1> DEFINE d == [desk EXCEPT !.torn = FALSE]
           B == Believed
           C == Believed'
<1>1. List(e) /\ Len(e) \in Nat
  BY ListFacts DEF Makes
<1>2. IsDesk(d) /\ d.touch = desk.touch /\ d.lifting = {} /\ d.open = FALSE /\ ~d.torn
  BY Mended DEF SeatInv
<1>3. /\ straddled' \in BOOLEAN
      /\ ~straddled' => /\ OneDevice /\ (~up' => C = {})
                        /\ losses' # losses => ~desk'.torn /\ C = {}
                        /\ straddled => B = {} /\ ~desk'.torn
                        /\ up => desk.touch = B
                        /\ ~up => B = {}
  BY Watched
<1>4. /\ up \in BOOLEAN /\ losses \in Nat /\ desk.touch \subseteq B /\ (~up => desk.touch = {})
      /\ (~shown => ~up) /\ shown' = shown /\ IsDesk(desk) /\ desk.lifting = {} /\ desk.open = FALSE
  BY DEF SeatInv, Send
<1>5. /\ (B \cup D) \ U \subseteq C
      /\ OneDevice => D \cap B = {} /\ M \cup U \subseteq B \cup D /\ C = (B \cup D) \ U
  OBVIOUS
<1>6. (fingers.screen = {} \/ fingers.pad = {})' \/ ~OneDevice
  BY DEF OneDevice
<1> DEFINE Shows == /\ IsDesk(desk') /\ desk'.lifting = {} /\ desk'.open = FALSE
                    /\ up' \in BOOLEAN /\ losses' \in Nat
                    /\ desk'.touch \subseteq C /\ (~up' => desk'.touch = {}) /\ (~shown' => ~up')
                    /\ desk'.torn => straddled'
                    /\ ~straddled' => IF up' THEN desk'.touch = C ELSE C = {}
<1>7. Shows => SeatInv'
  BY <1>3, <1>6 DEF SeatInv
<1> HIDE DEF d, B, C
<1>8. CASE up /\ desk' = Taken(e) /\ UNCHANGED <<up, losses>>
  <2>1. desk' = TakenBy(d, e)
    BY <1>8 DEF Taken, d
  <2>2. /\ desk'.lifting = {} /\ desk'.open = FALSE /\ desk'.touch = (d.touch \cup D) \ U
        /\ D \cap d.touch = {} /\ M \cup U \subseteq d.touch \cup D /\ ~d.torn => ~desk'.torn
    BY <1>2, <2>1 DEF Makes
  <2>3. IsDesk(desk')
    BY <1>1, <1>2, <2>1, TakenKeeps
  <2>4. desk'.torn => straddled'
    BY <1>2, <1>3, <1>5, <1>8, <2>2
  <2>5. desk'.touch \subseteq C
    BY <1>2, <1>4, <1>5, <2>2
  <2>6. ~straddled' => desk'.touch = C
    BY <1>2, <1>3, <1>5, <1>8, <2>2
  <2>7. Shows
    BY <1>4, <1>8, <2>2, <2>3, <2>4, <2>5, <2>6
  <2>8. QED
    BY <1>7, <2>7
<1>9. CASE ~up /\ desk' = [desk EXCEPT !.torn = FALSE, !.deaf = @ \/ e # <<>>] /\ UNCHANGED <<up, losses>>
  <2>1. /\ IsDesk(desk') /\ desk'.touch = desk.touch /\ desk'.lifting = desk.lifting
        /\ desk'.open = desk.open /\ ~desk'.torn
    BY <1>4, <1>9, Mended
  <2>2. Shows
    BY <1>3, <1>4, <1>9, <2>1
  <2>3. QED
    BY <1>7, <2>2
<1>10. CASE /\ up /\ losses < MaxLosses /\ losses' = losses + 1 /\ up' = FALSE
            /\ \E n \in 0 .. Len(e) - 1 :
                 desk' = Fallen([Taken(SubSeq(e, 1, n)) EXCEPT !.deaf = TRUE])
  <2>1. PICK n \in 0 .. Len(e) - 1 : desk' = Fallen([Taken(SubSeq(e, 1, n)) EXCEPT !.deaf = TRUE])
    BY <1>10
  <2>2. List(SubSeq(e, 1, n))
    BY <1>1, TakenApart
  <2>3. IsDesk(Taken(SubSeq(e, 1, n)))
    BY <1>2, <2>2, TakenKeeps DEF Taken, d
  <2>4. IsDesk(desk') /\ desk'.touch = {} /\ desk'.lifting = {} /\ desk'.open = FALSE
    BY <2>1, <2>3, FallenIs
  <2>5. losses' \in Nat /\ losses' # losses /\ up' = FALSE
    BY <1>4, <1>10
  <2>6. Shows
    BY <1>3, <2>4, <2>5
  <2>7. QED
    BY <1>7, <2>6
<1>11. CASE /\ up /\ losses < MaxLosses /\ losses' = losses + 1 /\ UNCHANGED up
            /\ \E n \in {m \in 1 .. Len(e) - 1 : Taken(SubSeq(e, 1, m)).open} : desk' = TakenLate(e, n)
  <2>1. PICK n \in 1 .. Len(e) - 1 : desk' = TakenLate(e, n)
    BY <1>11
  <2>2. n \in 0..Len(e)
    BY <1>1
  <2> DEFINE p == SubSeq(e, 1, n)
             s == SubSeq(e, n + 1, Len(e))
             m == [AllLifted(Taken(p)) EXCEPT !.deaf = TRUE]
  <2>3. List(p) /\ List(s)
    BY <1>1, <2>2, TakenApart
  <2>4. desk' = TakenBy(m, s)
    BY <2>1 DEF TakenLate
  <2>5. \A k : Clear(k) => LET r == TakenBy(k, s) IN r.lifting = {} /\ r.open = FALSE /\ r.touch \subseteq D \ U
    BY <2>2 DEF Makes
  <2> HIDE DEF p, s
  <2>6. IsDesk(Taken(p))
    BY <1>2, <2>3, TakenKeeps DEF Taken, d
  <2>7. Clear(m)
    BY <2>6, LiftedIs
  <2> HIDE DEF m
  <2>8. IsDesk(desk') /\ desk'.lifting = {} /\ desk'.open = FALSE /\ desk'.touch \subseteq D \ U
    BY <2>3, <2>4, <2>5, <2>7, TakenKeeps DEF Clear
  <2>9. losses' \in Nat /\ losses' # losses /\ up' = up /\ up
    BY <1>4, <1>11
  <2>10. Shows
    BY <1>3, <1>4, <1>5, <2>8, <2>9
  <2>11. QED
    BY <1>7, <2>10
<1>12. QED
  BY <1>8, <1>9, <1>10, <1>11 DEF Send

\* The last call of a session.
LEMMA StopHolds ==
  ASSUME SeatInv, Watch, Believed \subseteq fingers.screen \cup fingers.pad,
         NEW e, NEW D, NEW M, NEW U, Makes(e, D, M, U), SendAndStop(e),
         OneDevice => D \cap Believed = {} /\ M \cup U \subseteq Believed \cup D
  PROVE  SeatInv'
<1> DEFINE d == [desk EXCEPT !.torn = FALSE]
           B == Believed
           C == Believed'
<1>1. List(e) /\ Len(e) \in Nat
  BY ListFacts DEF Makes
<1>2. IsDesk(d) /\ d.touch = desk.touch /\ d.lifting = {} /\ d.open = FALSE /\ ~d.torn
  BY Mended DEF SeatInv
<1>3. /\ straddled' \in BOOLEAN
      /\ ~straddled' => /\ OneDevice /\ (~up' => C = {})
                        /\ losses' # losses => ~desk'.torn /\ C = {}
                        /\ straddled => B = {} /\ ~desk'.torn
                        /\ up => desk.touch = B
                        /\ ~up => B = {}
  BY Watched
<1>4. /\ up' = FALSE /\ losses' = losses /\ losses \in Nat /\ up \in BOOLEAN /\ (~up => desk.touch = {})
      /\ IsDesk(desk) /\ desk.lifting = {} /\ desk.open = FALSE
  BY DEF SeatInv, SendAndStop
<1>5. OneDevice => D \cap B = {} /\ M \cup U \subseteq B \cup D
  OBVIOUS
<1>6. (fingers.screen = {} \/ fingers.pad = {})' \/ ~OneDevice
  BY DEF OneDevice
<1>7. /\ IsDesk(desk') /\ desk'.lifting = {} /\ desk'.open = FALSE /\ desk'.touch = {}
      /\ (desk'.torn => straddled')
      => SeatInv'
  BY <1>3, <1>4, <1>6 DEF SeatInv
<1> HIDE DEF d, B, C
<1>8. CASE up
  <2>1. PICK n \in 0 .. Len(e) :
          desk' = Fallen([Taken(SubSeq(e, 1, n)) EXCEPT !.deaf = @ \/ n < Len(e)])
    BY <1>8 DEF SendAndStop
  <2> DEFINE p == SubSeq(e, 1, n)
             s == SubSeq(e, n + 1, Len(e))
             m == TakenBy(d, p)
             y == m.deaf \/ n < Len(e)
  <2>2. List(p) /\ List(s) /\ TakenBy(d, e) = TakenBy(m, s)
    BY <1>1, TakenApart
  <2>3. Taken(p) = m
    BY DEF Taken, d
  <2>4. IsDesk(m)
    BY <1>2, <2>2, TakenKeeps
  <2>5. m.torn => TakenBy(d, e).torn
    BY <2>2, <2>4, TakenKeeps
  <2>6. D \cap d.touch = {} /\ M \cup U \subseteq d.touch \cup D => ~TakenBy(d, e).torn
    BY <1>2 DEF Makes
  <2>7. desk' = Fallen([m EXCEPT !.deaf = y])
    <3>1. "deaf" \in DOMAIN m
      BY <2>4 DEF IsDesk, IsRecord, DeskFields
    <3>2. QED
      BY <2>1, <2>3, <3>1
  <2> HIDE DEF p, s, m, y
  <2>8. /\ IsDesk(desk') /\ desk'.touch = {} /\ desk'.lifting = {} /\ desk'.open = FALSE
        /\ desk'.torn = m.torn
    BY <2>4, <2>7, FallenIs
  <2>9. desk'.torn => straddled'
    BY <1>2, <1>3, <1>5, <1>8, <2>5, <2>6, <2>8
  <2>10. QED
    BY <1>7, <2>8, <2>9
<1>9. CASE ~up
  <2>1. desk' = [desk EXCEPT !.torn = FALSE, !.deaf = @ \/ e # <<>>]
    BY <1>9 DEF SendAndStop
  <2>2. /\ IsDesk(desk') /\ desk'.touch = desk.touch /\ desk'.lifting = desk.lifting
        /\ desk'.open = desk.open /\ ~desk'.torn
    BY <1>4, <2>1, Mended
  <2>3. QED
    BY <1>4, <1>7, <1>9, <2>2
<1>10. QED
  BY <1>8, <1>9

\* Nothing is sent, and what the desktop is taken to have is the same.
LEMMA StillHolds ==
  ASSUME SeatInv, Watch, Believed \subseteq fingers.screen \cup fingers.pad,
         UNCHANGED seat, Believed' = Believed
  PROVE  SeatInv'
<1>1. /\ straddled' \in BOOLEAN
      /\ ~straddled' => /\ OneDevice /\ (~up' => Believed' = {})
                        /\ losses' # losses => ~desk'.torn /\ Believed' = {}
                        /\ straddled => Believed = {} /\ ~desk'.torn
                        /\ up => desk.touch = Believed
                        /\ ~up => Believed = {}
  BY Watched
<1>2. shown' = shown /\ up' = up /\ desk' = desk /\ losses' = losses
  BY DEF seat
<1>3. desk'.torn => straddled'
  BY <1>1, <1>2 DEF SeatInv
<1>4. OneDevice => (fingers.screen = {} \/ fingers.pad = {})'
  BY DEF OneDevice
<1>5. QED
  BY <1>1, <1>2, <1>3, <1>4 DEF SeatInv

-----------------------------------------------------------------------------
(* The lists that the phone makes.                                          *)

\* A finite set as a list has each member once.
LEMMA SetListed ==
  ASSUME NEW S, IsFiniteSet(S)
  PROVE  LET s == SetToSeq(S) IN
         /\ s \in Seq(S) /\ Len(s) \in Nat /\ Once(s, Len(s)) /\ Upto(s, Len(s)) = S
         /\ \A i \in 1..Len(s) : s[i] \in S
<1> DEFINE n == Cardinality(S)
           f == SetToSeq(S)
<1>1. n \in Nat /\ Bijection(1..n, S) # {}
  BY FS_CardinalityType DEF ExistsBijection
<1>2. \E g \in [1..n -> S] : IsInjective(g)
  BY <1>1 DEF Bijection, Injection
<1>3. f \in [1..n -> S] /\ IsInjective(f)
  BY <1>2 DEF SetToSeq
<1> HIDE DEF f
<1>4. f \in Injection(1..n, S)
  BY <1>3 DEF Injection
<1>5. Cardinality(1..n) = n
  BY <1>1, FS_Interval
<1>6. f \in Surjection(1..n, S)
  BY <1>4, <1>5, FS_Injection
<1> HIDE DEF n
<1>7. f \in Seq(S) /\ Len(f) = n
  BY <1>1, <1>3
<1>8. Upto(f, n) = S
  BY <1>3, <1>6 DEF Surjection, Upto
<1>9. Once(f, n)
  BY <1>3 DEF Once, IsInjective
<1>10. \A i \in 1..n : f[i] \in S
  BY <1>3
<1>11. QED
  BY <1>1, <1>7, <1>8, <1>9, <1>10 DEF f

\* A list of touches does to the contacts what it says.
LEMMA TouchesSend ==
  ASSUME NEW a \in {"down", "move", "up"}, NEW S, IsFiniteSet(S), S \subseteq Ids
  PROVE  Sends(a, S, Touches(a, S))
<1> DEFINE s == SetToSeq(S)
           e == Touches(a, S)
<1>1. /\ Len(s) \in Nat /\ Once(s, Len(s)) /\ Upto(s, Len(s)) = S
      /\ \A i \in 1..Len(s) : s[i] \in Ids
  BY SetListed
<1>2. e = [i \in 1..Len(s) |-> Touch(a, s[i])]
  BY DEF Touches, Each
<1> HIDE DEF s, e
<1>3. e \in Seq(TouchEvents) /\ Len(e) = Len(s)
  <2>1. \A i \in 1..Len(s) : Touch(a, s[i]) \in TouchEvents
    BY <1>1 DEF TouchEvents
  <2>2. e \in [1..Len(s) -> TouchEvents]
    BY <1>2, <2>1
  <2>3. QED
    BY <1>1, <2>2
<1>4. List(e)
  BY <1>3 DEF List, IsEvent
<1>5. All(a, s, e)
  BY <1>1, <1>2, <1>3 DEF All
<1>6. QED
  BY <1>1, <1>3, <1>4, <1>5 DEF Sends, e

LEMMA OneSent ==
  ASSUME NEW a \in {"down", "move", "up"}, NEW x \in Ids
  PROVE  Sends(a, {x}, <<Touch(a, x)>>)
<1> DEFINE e == <<Touch(a, x)>>
           s == <<x>>
<1>1. Len(e) = 1 /\ e[1] = Touch(a, x) /\ s[1] = x
  OBVIOUS
<1>2. List(e)
  <2>1. IsEvent(Touch(a, x))
    BY DEF IsEvent, TouchEvents
  <2>2. QED
    BY <2>1, ListsMade
<1> HIDE DEF e, s
<1>3. All(a, s, e) /\ Once(s, Len(e)) /\ Upto(s, Len(e)) = {x}
  BY <1>1 DEF All, Once, Upto
<1>4. QED
  BY <1>2, <1>3 DEF Sends, e

\* Lists of keys, buttons and text.
LEMMA EachQuiet ==
  ASSUME NEW S, IsFiniteSet(S)
  PROVE  Quiet(Each(Release, S)) /\ Quiet(Each(Press, S))
<1> DEFINE s == SetToSeq(S)
           e == [i \in 1..Len(s) |-> Release(s[i])]
           f == [i \in 1..Len(s) |-> Press(s[i])]
<1>1. Len(s) \in Nat
  BY SetListed
<1>2. Each(Release, S) = e /\ Each(Press, S) = f
  BY DEF Each
<1> HIDE DEF s
<1>3. PICK E : E = {Release(s[i]) : i \in 1..Len(s)}
  OBVIOUS
<1>4. PICK F : F = {Press(s[i]) : i \in 1..Len(s)}
  OBVIOUS
<1>5. e \in Seq(E) /\ f \in Seq(F)
  <2>1. e \in [1..Len(s) -> E]
    BY <1>3
  <2>2. f \in [1..Len(s) -> F]
    BY <1>4
  <2>3. QED
    BY <1>1, <2>1, <2>2
<1> HIDE DEF e, f
<1>6. \A x : IsQuiet(Release(x)) /\ IsQuiet(Press(x))
  BY DEF IsQuiet, Release, Press
<1>7. Quiet(e)
  BY <1>3, <1>5, <1>6 DEF Quiet
<1>8. Quiet(f)
  BY <1>4, <1>5, <1>6 DEF Quiet
<1>9. QED
  BY <1>2, <1>7, <1>8

LEMMA ChangeQuiet ==
  ASSUME IsFiniteSet(saved), NEW bs, IsFiniteSet(bs)
  PROVE  Quiet(Change(bs))
<1>1. IsFiniteSet(saved \ bs) /\ IsFiniteSet(bs \ saved)
  BY FS_Subset
<1>2. Quiet(Each(Release, saved \ bs)) /\ Quiet(Each(Press, bs \ saved))
  BY <1>1, EachQuiet
<1>3. QED
  BY <1>2, ListsMade DEF Change

\* Keys, each pressed or released.
LEMMA KeysQuiet ==
  /\ \A x : IsQuiet(Press(x)) /\ IsQuiet(Release(x))
  /\ \A x : Quiet(<<Press(x)>>) /\ Quiet(<<Release(x)>>) /\ Quiet(Tap(x)) /\ Quiet(Text(x))
  /\ \A x, y : /\ Quiet(<<Press(x), Press(y)>>) /\ Quiet(<<Release(x), Release(y)>>)
               /\ Quiet(<<Press(x), Release(y)>>)
<1>1. \A x : IsQuiet(Press(x)) /\ IsQuiet(Release(x))
  BY DEF IsQuiet, Press, Release
<1>2. ASSUME NEW x, NEW y, IsQuiet(x), IsQuiet(y) PROVE Quiet(<<x, y>>)
  <2>1. PICK S : S = {x, y}
    OBVIOUS
  <2>2. <<x, y>> \in Seq(S)
    BY <2>1
  <2>3. QED
    BY <1>2, <2>1, <2>2 DEF Quiet
<1>3. ASSUME NEW x PROVE Quiet(Text(x))
  <2> DEFINE ev == [type |-> "TEXT", action |-> "down", what |-> x]
  <2>1. IsQuiet(ev)
    BY DEF IsQuiet
  <2> HIDE DEF ev
  <2>2. Quiet(<<ev>>) /\ Quiet(<<>>)
    BY <2>1, ListsMade
  <2>3. QED
    BY <2>2 DEF Text, ev
<1>4. QED
  BY <1>1, <1>2, <1>3, ListsMade DEF Tap

LEMMA UndragQuiet ==
  ASSUME NEW p
  PROVE  Quiet(Undrag(p))
BY KeysQuiet, ListsMade DEF Undrag

\* What Touchpad.java hands over at once, and what it lifts.
LEMMA FramedMakes ==
  ASSUME NEW p, NEW q, NEW r, NEW D, NEW M, NEW U,
         Sends("down", D, p), Sends("move", M, q), Sends("up", U, r)
  PROVE  Makes(Framed((p \o q) \o r), D, M, U)
<1> DEFINE e == (p \o q) \o r
<1>1. List(p) /\ List(q) /\ List(r) /\ List(p \o q) /\ List(e)
  BY ListsMade DEF Sends
<1>2. CASE e = <<>>
  <2>1. Makes(e, {}, {}, {})
    <3>1. Quiet(<<>>)
      BY ListsMade
    <3>2. QED
      BY <1>2, <3>1, MakesNone
  <2>2. Len(p) = 0 /\ Len(q) = 0 /\ Len(r) = 0
    <3>1. \A a, b : List(a) /\ List(b) /\ a \o b = <<>> => Len(a) = 0 /\ Len(b) = 0 /\ a = <<>>
      <4>1. SUFFICES ASSUME NEW a, NEW b, List(a), List(b), a \o b = <<>>
                     PROVE  Len(a) = 0 /\ Len(b) = 0 /\ a = <<>>
        OBVIOUS
      <4>2. PICK S : a \in Seq(S)
        BY <4>1 DEF List
      <4>3. PICK T : b \in Seq(T)
        BY <4>1 DEF List
      <4>4. PICK A : A = S \cup T
        OBVIOUS
      <4>5. a \in Seq(A) /\ b \in Seq(A)
        BY <4>2, <4>3, <4>4, Wider
      <4>6. Len(a) \in Nat /\ Len(b) \in Nat /\ Len(a \o b) = Len(a) + Len(b)
        BY <4>5, ConcatProperties, LenProperties
      <4>7. Len(<<>>) = 0
        OBVIOUS
      <4>8. Len(a) = 0 /\ Len(b) = 0
        BY <4>1, <4>6, <4>7
      <4>9. a = <<>>
        BY <4>5, <4>8, EmptySeq
      <4>10. QED
        BY <4>8, <4>9
    <3>2. QED
      BY <1>1, <1>2, <3>1
  <2>3. \A s : Upto(s, 0) = {}
    BY DEF Upto
  <2>4. D = {} /\ M = {} /\ U = {}
    BY <2>2, <2>3 DEF Sends
  <2>5. QED
    BY <1>2, <2>1, <2>4 DEF Framed
<1>3. CASE e # <<>>
  <2>1. Append(e, Frame) = e \o <<Frame>>
    <3>1. PICK S : e \in Seq(S)
      BY <1>1 DEF List
    <3> HIDE DEF e
    <3>2. PICK A : A = S \cup {Frame}
      OBVIOUS
    <3>3. e \in Seq(A) /\ Frame \in A
      BY <3>1, <3>2, Wider
    <3>4. QED
      BY <3>3, AppendIsConcat
  <2>2. Makes(e \o <<Frame>>, D, M, U)
    BY BatchMakes
  <2>3. QED
    BY <1>3, <2>1, <2>2 DEF Framed
<1>4. QED
  BY <1>2, <1>3

LEMMA NoneSent ==
  Sends("down", {}, <<>>) /\ Sends("move", {}, <<>>) /\ Sends("up", {}, <<>>)
<1>1. List(<<>>)
  BY ListsMade
<1>2. PICK e : e = <<>>
  OBVIOUS
<1>3. Len(e) = 0 /\ List(e)
  BY <1>1, <1>2
<1>4. \A a, s : All(a, s, e) /\ Once(s, Len(e)) /\ Upto(s, Len(e)) = {}
  BY <1>3 DEF All, Once, Upto
<1>5. QED
  BY <1>2, <1>3, <1>4 DEF Sends

LEMMA LiftMakes ==
  ASSUME NEW S, IsFiniteSet(S), S \subseteq Ids
  PROVE  Makes(Framed(Touches("up", S)), {}, {}, S)
<1> DEFINE r == Touches("up", S)
<1>1. Sends("up", S, r)
  BY TouchesSend
<1>2. (<<>> \o <<>>) \o r = r
  BY <1>1, NoneSent, NothingJoined DEF Sends
<1> HIDE DEF r
<1>3. Makes(Framed(r), {}, {}, S)
  BY <1>1, <1>2, NoneSent, FramedMakes
<1>4. QED
  BY <1>3 DEF r

LEMMA CancelMakes ==
  ASSUME NEW p, IsFiniteSet(p.fwd), p.fwd \subseteq Ids
  PROVE  Makes(Cancel(p).out, {}, {}, p.fwd) /\ Cancel(p).p = Rest
<1>1. Makes(Framed(Touches("up", p.fwd)), {}, {}, p.fwd)
  BY LiftMakes
<1>2. Makes(Framed(Touches("up", p.fwd)) \o Undrag(p), {}, {}, p.fwd)
  BY <1>1, UndragQuiet, MakesAfter
<1>3. QED
  BY <1>2 DEF Cancel, Result

-----------------------------------------------------------------------------
(* The touchpad.                                                            *)

PadFields == {"state", "mayDrag", "multi", "mode", "declined", "fwd"}
IsPad(p)  == IsRecord(p, PadFields) /\ p.declined \in BOOLEAN

\* What it has handed over is down, and the gesture is not its own then.
PadOK(p, F) == IsPad(p) /\ p.fwd \subseteq F /\ (p.fwd # {} => p.declined)

LEMMA RestIs ==
  /\ PadOK(Rest, {}) /\ Rest.fwd = {}
  /\ \A p : IsPad(p) => IsPad(Reset(p)) /\ Reset(p).fwd = p.fwd /\ Reset(p).declined = FALSE
<1>1. IsRecord(Rest, PadFields) /\ Rest.fwd = {} /\ Rest.declined = FALSE
  BY DEF Rest, IsRecord, PadFields
<1>2. ASSUME NEW y PROVE LET e == [Rest EXCEPT !.fwd = y] IN IsPad(e) /\ e.fwd = y /\ e.declined = FALSE
  <2> HIDE DEF Rest
  <2>1. QED
    BY <1>1 DEF IsPad, IsRecord, PadFields
<1>3. QED
  BY <1>1, <1>2 DEF PadOK, IsPad, Reset

\* What a result has.
Fine(p, act, r) ==
  /\ r = Result(r.p, r.out, r.handled) /\ IsPad(r.p) /\ r.p.fwd = p.fwd /\ Quiet(r.out)
  /\ r.handled \in BOOLEAN /\ (r.handled => ~p.declined)
  /\ ~r.handled => r.p.declined \/ act \in {"up", "cancel"}

LEMMA FineMade ==
  ASSUME NEW p, NEW act, NEW q, IsPad(q), q.fwd = p.fwd, NEW o, Quiet(o), NEW h \in BOOLEAN,
         h => ~p.declined, ~h => q.declined \/ act \in {"up", "cancel"}
  PROVE  Fine(p, act, Result(q, o, h))
BY DEF Fine, Result

\* The recognizer alone hands nothing over: it takes an event, or declines a gesture.
LEMMA RecognizeFine ==
  ASSUME NEW p, IsPad(p), NEW e, NEW r \in Recognize(p, e)
  PROVE  Fine(p, e.act, r)
<1> DEFINE n == Cardinality(e.ids)
<1>1. Quiet(<<>>) /\ Quiet(Undrag(p)) /\ \A k : Quiet(Tap(k)) /\ Quiet(<<Press(k)>>)
  BY ListsMade, KeysQuiet, UndragQuiet
<1>2. IsPad(Reset(p)) /\ Reset(p).fwd = p.fwd
  BY RestIs
<1>3. CASE p.declined
  <2>1. r = Result(IF e.act \in {"up", "cancel"} THEN Reset(p) ELSE p, <<>>, FALSE)
    BY <1>3 DEF Recognize
  <2>2. QED
    BY <1>1, <1>2, <1>3, <2>1, FineMade
<1>4. CASE ~p.declined
  <2>1. ASSUME NEW q, NEW o, IsPad(q), q.fwd = p.fwd, Quiet(o)
        PROVE  Fine(p, e.act, Result(q, o, TRUE)) /\ (q.declined => Fine(p, e.act, Result(q, o, FALSE)))
    BY <1>4, <2>1, FineMade
  <2>2. ASSUME NEW q, IsPad(q), q.fwd = p.fwd PROVE Fine(p, e.act, Decline(q))
    <3> DEFINE c == [q EXCEPT !.mayDrag = FALSE, !.declined = TRUE]
    <3>1. IsPad(c) /\ c.fwd = q.fwd /\ c.declined
      BY <2>2 DEF IsPad, IsRecord, PadFields
    <3> HIDE DEF c
    <3>2. Fine(p, e.act, Result(c, Undrag(q), FALSE))
      BY <2>1, <2>2, <3>1, UndragQuiet
    <3>3. QED
      BY <3>2 DEF Decline, c
  <2>3. CASE r \in OnDown(p)
    <3> DEFINE q == [Reset(p) EXCEPT !.state = "one", !.mayDrag = TRUE]
    <3>1. IsPad(q) /\ q.fwd = p.fwd
      BY <1>2 DEF IsPad, IsRecord, PadFields
    <3>2. r = Result(q, <<>>, TRUE)
      BY <2>3 DEF OnDown
    <3>3. QED
      BY <1>1, <2>1, <3>1, <3>2
  <2>4. CASE r \in OnPointerDown(p, n)
    <3> DEFINE q == [p EXCEPT !.multi = TRUE, !.mayDrag = FALSE]
               c == [q EXCEPT !.state = "two", !.mode = "undecided"]
    <3>1. IsPad(q) /\ q.fwd = p.fwd
      BY DEF IsPad, IsRecord, PadFields
    <3>2. r = Result(c, Undrag(p), TRUE) \/ r = Decline(q)
      BY <2>4 DEF OnPointerDown
    <3> HIDE DEF q
    <3>3. IsPad(c) /\ c.fwd = q.fwd
      BY <3>1 DEF IsPad, IsRecord, PadFields
    <3> HIDE DEF c
    <3>4. QED
      BY <1>1, <2>1, <2>2, <3>1, <3>2, <3>3
  <2>5. CASE r \in OnMove(p, n)
    <3> DEFINE q == [p EXCEPT !.mayDrag = FALSE]
               c == [p EXCEPT !.state = "drag", !.mayDrag = FALSE]
               f == [p EXCEPT !.mode = "scroll"]
    <3>1. IsPad(q) /\ q.fwd = p.fwd /\ IsPad(c) /\ c.fwd = p.fwd /\ IsPad(f) /\ f.fwd = p.fwd
      BY DEF IsPad, IsRecord, PadFields
    <3>2. \/ r = Result(p, <<>>, TRUE) \/ r = Result(q, <<>>, TRUE) \/ r = Result(c, <<Press("left")>>, TRUE)
          \/ r = Decline(p) \/ r = Result(f, <<>>, TRUE)
      <4>1. CASE r \in OnOneMoves(p)
        BY <4>1 DEF OnOneMoves
      <4>2. CASE r \in OnTwoMove(p)
        BY <4>2 DEF OnTwoMove
      <4>3. QED
        BY <2>5, <4>1, <4>2 DEF OnMove
    <3> HIDE DEF q, c, f
    <3>3. QED
      BY <1>1, <2>1, <2>2, <3>1, <3>2
  <2>6. CASE r \in OnPointerUp(p, n)
    <3> DEFINE q == [p EXCEPT !.multi = FALSE, !.mayDrag = FALSE, !.state = "one of two"]
    <3>1. IsPad(q) /\ q.fwd = p.fwd
      BY DEF IsPad, IsRecord, PadFields
    <3>2. r = Result(p, <<>>, TRUE) \/ r = Result(q, <<>>, TRUE)
      BY <2>6 DEF OnPointerUp
    <3> HIDE DEF q
    <3>3. QED
      BY <1>1, <2>1, <3>1, <3>2
  <2>7. CASE r \in OnUp(p)
    <3>1. PICK o : r = Result(Reset(p), o, TRUE) /\ (o = Undrag(p) \/ o = Tap("left") \/ o = Tap("right"))
      BY <2>7 DEF OnUp
    <3>2. QED
      BY <1>1, <1>2, <2>1, <3>1
  <2>8. CASE r = Result(Reset(p), Undrag(p), TRUE)
    BY <1>1, <1>2, <2>1, <2>8
  <2>9. QED
    BY <1>4, <2>3, <2>4, <2>5, <2>6, <2>7, <2>8 DEF Recognize
<1>5. QED
  BY <1>3, <1>4

\* The fingers after an event.
FingersAfter(e) == IF e.act = "cancel" THEN {}
           ELSE IF e.act \in {"up", "pointer_up"} THEN e.ids \ {e.id} ELSE e.ids

\* What a call of the touchpad does to what it has handed over.
LEMMA PadMakes ==
  ASSUME NEW d, NEW F, IsFiniteSet(F), F \subseteq Ids, PadOK(tp[d], F),
         NEW e, IsFiniteSet(e.ids), e.ids \subseteq Ids, F \subseteq e.ids,
         e.act = "up" => e.ids = {e.id},
         NEW r \in Pad(d, e)
  PROVE  /\ PadOK(r.p, FingersAfter(e))
         /\ \E D, M, U : /\ Makes(r.out, D, M, U) /\ D \subseteq FingersAfter(e) /\ D \cap tp[d].fwd = {}
                         /\ M \subseteq tp[d].fwd /\ U \subseteq tp[d].fwd
                         /\ r.p.fwd = (tp[d].fwd \cup D) \ U
<1> DEFINE p == tp[d]
           G == FingersAfter(e)
<1>1. IsPad(p) /\ p.fwd \subseteq F /\ (p.fwd # {} => p.declined)
  BY DEF PadOK
<1> HIDE DEF p, G
<1>2. PICK s \in Recognize(p, e) : r = IF s.handled THEN s ELSE Forward(s, e)
  BY DEF Pad, p
<1>3. Fine(p, e.act, s)
  BY <1>1, RecognizeFine
<1>4. /\ s = Result(s.p, s.out, s.handled) /\ IsPad(s.p) /\ s.p.fwd = p.fwd /\ Quiet(s.out)
      /\ s.handled \in BOOLEAN /\ (s.handled => ~p.declined)
      /\ ~s.handled => s.p.declined \/ e.act \in {"up", "cancel"}
  BY <1>3 DEF Fine
<1>5. CASE s.handled
  <2>1. r = s /\ p.fwd = {} /\ Makes(r.out, {}, {}, {})
    BY <1>1, <1>2, <1>4, <1>5, MakesNone
  <2>2. PadOK(r.p, G)
    BY <1>4, <2>1 DEF PadOK
  <2>3. QED
    BY <1>4, <2>1, <2>2 DEF p, G
<1>6. CASE ~s.handled /\ e.act = "cancel"
  <2> DEFINE o == s.out \o Framed(Touches("up", p.fwd))
             q == [s.p EXCEPT !.fwd = {}]
  <2>1. r = [[s EXCEPT !.p = q] EXCEPT !.out = o]
    BY <1>2, <1>4, <1>6 DEF Forward
  <2>2. r.p = q /\ r.out = o
    BY <1>4, <2>1 DEF Result
  <2>3. IsPad(q) /\ q.fwd = {}
    BY <1>4 DEF IsPad, IsRecord, PadFields
  <2>4. IsFiniteSet(p.fwd) /\ p.fwd \subseteq Ids
    BY <1>1, FS_Subset
  <2>5. Makes(Framed(Touches("up", p.fwd)), {}, {}, p.fwd)
    BY <2>4, LiftMakes
  <2>6. Makes(o, {}, {}, p.fwd)
    BY <1>4, <2>5, MakesBefore
  <2> HIDE DEF o, q
  <2>7. r.p.fwd = (p.fwd \cup {}) \ p.fwd
    BY <2>2, <2>3
  <2>8. QED
    BY <2>2, <2>3, <2>6, <2>7 DEF PadOK, p
<1>7. CASE ~s.handled /\ e.act # "cancel"
  <2> DEFINE gone == IF e.act \in {"up", "pointer_up"} THEN {e.id} ELSE {}
             stay == e.ids \ gone
             D == stay \ p.fwd
             M == IF e.act = "move" THEN stay \cap p.fwd ELSE {}
             U == gone \cap p.fwd
             x == Touches("down", D)
             y == IF e.act = "move" THEN Touches("move", stay \cap p.fwd) ELSE <<>>
             z == Touches("up", U)
             o == s.out \o Framed((x \o y) \o z)
             f == (p.fwd \cup stay) \ gone
             q == [s.p EXCEPT !.fwd = f]
  <2>1. r = [[s EXCEPT !.p = q] EXCEPT !.out = o]
    BY <1>2, <1>4, <1>7 DEF Forward
  <2>2. r.p = q /\ r.out = o
    BY <1>4, <2>1 DEF Result
  <2>3. G = stay
    BY <1>7 DEF FingersAfter, G
  <2>4. f = stay /\ f = (p.fwd \cup D) \ U /\ D \subseteq stay /\ D \cap p.fwd = {} /\ M \subseteq p.fwd /\ U \subseteq p.fwd
    BY <1>1
  <2>5. /\ IsFiniteSet(D) /\ D \subseteq Ids /\ IsFiniteSet(U) /\ U \subseteq Ids
        /\ IsFiniteSet(stay \cap p.fwd) /\ stay \cap p.fwd \subseteq Ids
    <3>1. D \subseteq e.ids /\ U \subseteq F /\ stay \cap p.fwd \subseteq F
      BY <1>1
    <3> HIDE DEF D, U, stay
    <3>2. QED
      BY <3>1, FS_Subset
  <2>6. e.act = "up" => stay = {}
    OBVIOUS
  <2> HIDE DEF gone, stay, D, U
  <2>7. Sends("down", D, x) /\ Sends("up", U, z)
    BY <2>5, TouchesSend
  <2>8. Sends("move", M, y)
    BY <2>5, TouchesSend, NoneSent
  <2> HIDE DEF x, y, z, M
  <2>9. Makes(Framed((x \o y) \o z), D, M, U)
    BY <2>7, <2>8, FramedMakes
  <2>10. Makes(o, D, M, U)
    BY <1>4, <2>9, MakesBefore
  <2> HIDE DEF o, f
  <2>11. IsPad(q) /\ q.fwd = f /\ q.declined = s.p.declined
    BY <1>4 DEF IsPad, IsRecord, PadFields
  <2> HIDE DEF q
  <2>12. f # {} => s.p.declined
    BY <1>4, <1>7, <2>4, <2>6
  <2>13. PadOK(r.p, G)
    BY <2>2, <2>3, <2>4, <2>11, <2>12 DEF PadOK
  <2>14. QED
    BY <2>2, <2>3, <2>4, <2>10, <2>11, <2>13 DEF p, G
<1>8. QED
  BY <1>5, <1>6, <1>7

-----------------------------------------------------------------------------
(* The screen, and the touchpad that is captured.                           *)

\* What the activity holds of the devices: each finger is on one of them, what it has handed
\* over is down, and one way at a time has contacts of the screen.
TouchInv ==
  /\ IsRecord(fingers, {"screen", "pad"}) /\ IsRecord(tp, {"screen", "pad"}) /\ IsRecord(hw, {"mouse", "pad"})
  /\ IsFiniteSet(fingers.screen) /\ fingers.screen \subseteq Ids /\ PadOK(tp.screen, fingers.screen)
  /\ IsFiniteSet(fingers.pad) /\ fingers.pad \subseteq Ids /\ PadOK(tp.pad, fingers.pad)
  /\ IsFiniteSet(hw.mouse) /\ IsFiniteSet(hw.pad) /\ IsFiniteSet(saved)
  /\ active \subseteq fingers.screen /\ captured \in BOOLEAN
  /\ padMode \in BOOLEAN /\ swipe \in BOOLEAN
  /\ padMode /\ ~swipe => active = {}
  /\ ~padMode \/ swipe => tp.screen.fwd = {}
  /\ ~captured => tp.pad.fwd = {}

\* What the code takes the desktop to have is under the user's fingers.
LEMMA BelievedTouched ==
  ASSUME TouchInv
  PROVE  Believed \subseteq fingers.screen \cup fingers.pad
BY DEF TouchInv, Believed, PadOK

\* A finger that comes gets an id no finger has.
LEMMA FreeIdIs ==
  ASSUME NEW d, Room(d), fingers[d] \subseteq Ids
  PROVE  FreeId(d) \in Ids \ fingers[d]
<1>1. Ids \ fingers[d] # {} /\ Ids \ fingers[d] \in SUBSET Nat
  BY TouchAssumption DEF Room
<1>2. \E i \in Ids \ fingers[d] : \A j \in Ids \ fingers[d] : i <= j
  BY <1>1, Least
<1>3. QED
  BY <1>2 DEF FreeId

\* What a device sends down, moves and lifts is its own: x before and z after, where the
\* other has y.
OwnSent(e, D, M, U, x, y, z) ==
  /\ Makes(e, D, M, U) /\ Send(e)
  /\ Believed = x \cup y /\ Believed' = z \cup y /\ z = (x \cup D) \ U
  /\ D \cap x = {} /\ M \cup U \subseteq x \cup D
  /\ OneDevice => y = {} \/ (x = {} /\ D = {})

LEMMA DeviceHolds ==
  ASSUME SeatInv, Watch, TouchInv,
         NEW e, NEW D, NEW M, NEW U, NEW x, NEW y, NEW z, OwnSent(e, D, M, U, x, y, z)
  PROVE  SeatInv'
<1>1. Makes(e, D, M, U) /\ Send(e)
  BY DEF OwnSent
<1>2. (Believed \cup D) \ U \subseteq Believed'
  BY DEF OwnSent
<1>3. OneDevice => D \cap Believed = {} /\ M \cup U \subseteq Believed \cup D /\ Believed' = (Believed \cup D) \ U
  BY DEF OwnSent
<1>4. QED
  BY <1>1, <1>2, <1>3, BelievedTouched, SendHolds

\* An event that the screen or the touchpad tells of, with F down that are known of.
EventOf(e, F) ==
  /\ IsFiniteSet(e.ids) /\ e.ids \subseteq Ids /\ F \subseteq e.ids
  /\ e.act = "up" => e.ids = {e.id}
  /\ e.act \in {"down", "pointer_down"} => e.id \in e.ids \ F
  /\ e.act \in {"up", "pointer_up"} => e.id \in e.ids

LEMMA BatchOf ==
  /\ IsEvent(Frame) /\ List(<<Frame>>)
  /\ \A a, b : <<a, b>> = <<a>> \o <<b>>
  /\ \A p, D : Sends("down", D, p) => Makes(p \o <<Frame>>, D, {}, {})
  /\ \A p, q, D, M : Sends("down", D, p) /\ Sends("move", M, q) => Makes((p \o q) \o <<Frame>>, D, M, {})
  /\ \A p, r, D, U : Sends("down", D, p) /\ Sends("up", U, r) => Makes((p \o r) \o <<Frame>>, D, {}, U)
  /\ \A r, U : Sends("up", U, r) => Makes(r \o <<Frame>>, {}, {}, U)
<1>1. IsEvent(Frame) /\ List(<<Frame>>)
  BY ListsMade DEF IsEvent
<1>2. ASSUME NEW a, NEW b PROVE <<a, b>> = <<a>> \o <<b>>
  <2>1. PICK S : S = {a, b}
    OBVIOUS
  <2>2. <<a>> \in Seq(S) /\ <<b>> \in Seq(S) /\ Len(<<a>>) = 1 /\ Len(<<b>>) = 1
    BY <2>1
  <2>3. PICK c : c = <<a>> \o <<b>>
    OBVIOUS
  <2>4. c \in Seq(S) /\ Len(c) = 2 /\ c[1] = a /\ c[2] = b
    BY <2>2, <2>3, ConcatProperties
  <2>5. c = <<a, b>>
    BY <2>4
  <2>6. QED
    BY <2>3, <2>5
<1>3. Sends("down", {}, <<>>) /\ Sends("move", {}, <<>>) /\ Sends("up", {}, <<>>)
  BY NoneSent
<1>4. \A a, S, p : Sends(a, S, p) => List(p)
  BY DEF Sends
<1>5. \A p : List(p) => p \o <<>> = p /\ <<>> \o p = p
  BY NothingJoined
<1>6. \A p, q : List(p) /\ List(q) => List(p \o q)
  BY ListsMade
<1>7. ASSUME NEW p, NEW D, Sends("down", D, p) PROVE Makes(p \o <<Frame>>, D, {}, {})
  <2>1. Makes(((p \o <<>>) \o <<>>) \o <<Frame>>, D, {}, {})
    BY <1>3, <1>7, BatchMakes
  <2>2. (p \o <<>>) \o <<>> = p
    BY <1>4, <1>5, <1>7
  <2>3. QED
    BY <2>1, <2>2
<1>8. ASSUME NEW p, NEW q, NEW D, NEW M, Sends("down", D, p), Sends("move", M, q)
      PROVE  Makes((p \o q) \o <<Frame>>, D, M, {})
  <2>1. Makes(((p \o q) \o <<>>) \o <<Frame>>, D, M, {})
    BY <1>3, <1>8, BatchMakes
  <2>2. (p \o q) \o <<>> = p \o q
    BY <1>4, <1>5, <1>6, <1>8
  <2>3. QED
    BY <2>1, <2>2
<1>9. ASSUME NEW p, NEW r, NEW D, NEW U, Sends("down", D, p), Sends("up", U, r)
      PROVE  Makes((p \o r) \o <<Frame>>, D, {}, U)
  <2>1. Makes(((p \o <<>>) \o r) \o <<Frame>>, D, {}, U)
    BY <1>3, <1>9, BatchMakes
  <2>2. p \o <<>> = p
    BY <1>4, <1>5, <1>9
  <2>3. QED
    BY <2>1, <2>2
<1>10. ASSUME NEW r, NEW U, Sends("up", U, r) PROVE Makes(r \o <<Frame>>, {}, {}, U)
  <2>1. Makes((<<>> \o r) \o <<Frame>>, {}, {}, U)
    BY <1>3, <1>9, <1>10
  <2>2. <<>> \o r = r
    BY <1>4, <1>5, <1>10
  <2>3. QED
    BY <2>1, <2>2
<1>11. QED
  BY <1>1, <1>2, <1>7, <1>8, <1>9, <1>10

\* What it comes to, with the contacts as they are now.
Told(e, r) ==
  \E D, M, U : /\ Makes(r.out, D, M, U) /\ D \subseteq e.ids /\ D \cap active = {}
               /\ M \cup U \subseteq active \cup D /\ r.active = (active \cup D) \ U
               /\ r.active \subseteq FingersAfter(e)

\* What handleTouchEvent sends, and what it remembers.
LEMMA TouchEventMakes ==
  ASSUME NEW e, EventOf(e, active)
  PROVE  Told(e, TouchEvent(e))
<1> DEFINE r == TouchEvent(e)
           id == e.id
<1>10. \A x, y, z : z = [active |-> x, out |-> y] => z.active = x /\ z.out = y
  OBVIOUS
<1>1. /\ IsFiniteSet(e.ids) /\ e.ids \subseteq Ids /\ active \subseteq e.ids
      /\ e.act \in {"down", "pointer_down"} => id \in e.ids \ active
      /\ e.act \in {"up", "pointer_up"} => id \in e.ids
  BY DEF EventOf
<1>2. CASE e.act \in {"down", "pointer_down"}
  <2>1. r = [active |-> active \cup {id}, out |-> <<Touch("down", id), Frame>>]
    BY <1>2 DEF TouchEvent
  <2>2. Sends("down", {id}, <<Touch("down", id)>>)
    BY <1>1, <1>2, OneSent
  <2>3. Makes(<<Touch("down", id)>> \o <<Frame>>, {id}, {}, {})
    BY <2>2, BatchOf
  <2>4. <<Touch("down", id), Frame>> = <<Touch("down", id)>> \o <<Frame>>
    BY BatchOf
  <2>5. Makes(r.out, {id}, {}, {}) /\ r.active = active \cup {id}
    <3>1. r.active = active \cup {id} /\ r.out = <<Touch("down", id)>> \o <<Frame>>
      BY <1>10, <2>1, <2>4
    <3>2. QED
      BY <3>1, <2>3
  <2>6. FingersAfter(e) = e.ids
    BY <1>2 DEF FingersAfter
  <2> HIDE DEF r
  <2>7. r.active = (active \cup {id}) \ {} /\ r.active \subseteq FingersAfter(e)
    BY <1>1, <1>2, <2>5, <2>6
  <2>8. {id} \subseteq e.ids /\ {id} \cap active = {}
    BY <1>1, <1>2
  <2>9. QED
    BY <2>5, <2>7, <2>8 DEF Told, r
<1>3. CASE e.act \in {"up", "pointer_up"}
  <2> DEFINE p == Touches("down", {id} \ active)
             q == <<Touch("up", id)>>
  <2>1. r = [active |-> active \ {id}, out |-> p \o <<Touch("up", id), Frame>>]
    BY <1>3 DEF TouchEvent
  <2>2. Sends("up", {id}, q)
    BY <1>1, <1>3, OneSent
  <2>3. Sends("down", {id} \ active, p)
    <3>1. IsFiniteSet({id}) /\ {id} \ active \subseteq {id}
      BY FS_Singleton
    <3>2. IsFiniteSet({id} \ active)
      BY <3>1, FS_Subset
    <3>3. QED
      BY <1>1, <1>3, <3>2, TouchesSend
  <2>4. Makes((p \o q) \o <<Frame>>, {id} \ active, {}, {id})
    BY <2>2, <2>3, BatchOf
  <2>5. p \o <<Touch("up", id), Frame>> = (p \o q) \o <<Frame>>
    <3>1. <<Touch("up", id), Frame>> = q \o <<Frame>>
      BY BatchOf
    <3>2. List(p) /\ List(q) /\ List(<<Frame>>)
      BY <2>2, <2>3, BatchOf DEF Sends
    <3> HIDE DEF p, q
    <3>3. QED
      BY <3>1, <3>2, JoinedRight
  <2>6. Makes(r.out, {id} \ active, {}, {id}) /\ r.active = active \ {id}
    <3> HIDE DEF p, q, r
    <3>1. r.active = active \ {id} /\ r.out = (p \o q) \o <<Frame>>
      BY <1>10, <2>1, <2>5
    <3>2. QED
      BY <3>1, <2>4
  <2>7. FingersAfter(e) = e.ids \ {id}
    BY <1>3 DEF FingersAfter
  <2> HIDE DEF r
  <2>8. r.active = (active \cup ({id} \ active)) \ {id} /\ r.active \subseteq FingersAfter(e)
    BY <1>1, <2>6, <2>7
  <2>9. /\ {id} \ active \subseteq e.ids /\ ({id} \ active) \cap active = {}
        /\ {} \cup {id} \subseteq active \cup ({id} \ active)
    BY <1>1, <1>3
  <2>10. QED
    BY <2>6, <2>8, <2>9 DEF Told, r
<1>4. CASE e.act = "move"
  <2> DEFINE p == Touches("down", e.ids \ active)
             q == Touches("move", e.ids \cap active)
  <2>1. r = [active |-> active \cup e.ids, out |-> (p \o q) \o <<Frame>>]
    BY <1>4 DEF TouchEvent
  <2>2. IsFiniteSet(e.ids \ active) /\ IsFiniteSet(e.ids \cap active)
    BY <1>1, FS_Subset
  <2>3. Sends("down", e.ids \ active, p) /\ Sends("move", e.ids \cap active, q)
    BY <1>1, <2>2, TouchesSend
  <2>4. Makes((p \o q) \o <<Frame>>, e.ids \ active, e.ids \cap active, {})
    BY <2>3, BatchOf
  <2>5. Makes(r.out, e.ids \ active, e.ids \cap active, {}) /\ r.active = active \cup e.ids
    <3>1. r.active = active \cup e.ids /\ r.out = (p \o q) \o <<Frame>>
      BY <1>10, <2>1
    <3>2. QED
      BY <3>1, <2>4
  <2>6. FingersAfter(e) = e.ids
    BY <1>4 DEF FingersAfter
  <2> HIDE DEF r
  <2>7. r.active = (active \cup (e.ids \ active)) \ {} /\ r.active \subseteq FingersAfter(e)
    BY <1>1, <2>5, <2>6
  <2>8. /\ e.ids \ active \subseteq e.ids /\ (e.ids \ active) \cap active = {}
        /\ (e.ids \cap active) \cup {} \subseteq active \cup (e.ids \ active)
    OBVIOUS
  <2>9. QED
    BY <2>5, <2>7, <2>8 DEF Told, r
<1>5. CASE e.act \notin {"down", "pointer_down", "up", "pointer_up", "move"}
  <2> DEFINE p == Touches("up", e.ids \cap active)
  <2>1. r = [active |-> {}, out |-> p \o <<Frame>>]
    BY <1>5 DEF TouchEvent
  <2>2. IsFiniteSet(e.ids \cap active)
    BY <1>1, FS_Subset
  <2>3. Sends("up", e.ids \cap active, p)
    BY <1>1, <2>2, TouchesSend
  <2>4. Makes(p \o <<Frame>>, {}, {}, e.ids \cap active)
    BY <2>3, BatchOf
  <2>5. Makes(r.out, {}, {}, e.ids \cap active) /\ r.active = {}
    <3>1. r.active = {} /\ r.out = p \o <<Frame>>
      BY <1>10, <2>1
    <3>2. QED
      BY <3>1, <2>4
  <2> HIDE DEF r
  <2>6. r.active = (active \cup {}) \ (e.ids \cap active) /\ r.active \subseteq FingersAfter(e)
    BY <1>1, <2>5
  <2>7. {} \subseteq e.ids /\ {} \cap active = {} /\ {} \cup (e.ids \cap active) \subseteq active \cup {}
    OBVIOUS
  <2>8. QED
    BY <2>5, <2>6, <2>7 DEF Told, r
<1>6. QED
  BY <1>2, <1>3, <1>4, <1>5

\* One device's contacts change, and what it is handed over for; the other has its own.
LEMMA ScreenHolds ==
  ASSUME TouchInv, SeatInv, Watch, NEW e, EventOf(e, fingers.screen), e.ids \subseteq fingers.screen \cup FingersAfter(e),
         fingers' = [fingers EXCEPT !.screen = FingersAfter(e)],
         NEW w \in BOOLEAN, w = swipe \/ fingers.screen = {}, Screen(e, w)
  PROVE  TouchInv' /\ SeatInv'
<1> DEFINE F == FingersAfter(e)
<1>1. fingers'.screen = F /\ fingers'.pad = fingers.pad /\ IsRecord(fingers', {"screen", "pad"})
  BY DEF TouchInv, IsRecord
<1>2. IsFiniteSet(F) /\ F \subseteq Ids
  <2>1. F \subseteq e.ids
    BY DEF FingersAfter, EventOf
  <2>2. QED
    BY <2>1, FS_Subset DEF EventOf
<1>3. /\ hw' = hw /\ saved' = saved /\ padMode' = padMode /\ captured' = captured
      /\ swipe' \in BOOLEAN /\ (swipe' = w \/ F = {})
  BY <1>1 DEF Screen
<1>4. /\ IsFiniteSet(fingers.screen) /\ fingers.screen \subseteq Ids /\ PadOK(tp.screen, fingers.screen)
      /\ tp.screen.fwd \subseteq fingers.screen
      /\ tp.pad.fwd \subseteq fingers.pad /\ active \subseteq fingers.screen /\ padMode \in BOOLEAN
      /\ (padMode /\ ~w => active = {}) /\ (~padMode \/ w => tp.screen.fwd = {})
  BY DEF TouchInv, PadOK
<1>5. OneDevice => fingers.pad = {} \/ (fingers.screen = {} /\ F = {})
  BY <1>1 DEF OneDevice
<1>6. Believed = (active \cup tp.screen.fwd) \cup tp.pad.fwd
  BY DEF Believed
<1>7. Believed' = (active' \cup tp'.screen.fwd) \cup tp'.pad.fwd
  BY DEF Believed
<1>8. /\ IsFiniteSet(e.ids) /\ e.ids \subseteq Ids /\ fingers.screen \subseteq e.ids
      /\ e.act = "up" => e.ids = {e.id}
  BY DEF EventOf
<1>9. e.ids \subseteq fingers.screen \cup F
  OBVIOUS
<1> HIDE DEF F
<1>10. CASE padMode /\ ~w
  <2>1. PICK r \in Pad("screen", e) : tp' = [tp EXCEPT !.screen = r.p] /\ Send(r.out) /\ active' = active
    BY <1>10 DEF Screen
  <2>2. tp'.screen = r.p /\ tp'.pad = tp.pad /\ IsRecord(tp', {"screen", "pad"})
    BY <2>1 DEF TouchInv, IsRecord
  <2>3. PICK S : S = fingers.screen
    OBVIOUS
  <2>4. /\ PadOK(r.p, FingersAfter(e))
        /\ \E D, M, U : /\ Makes(r.out, D, M, U) /\ D \subseteq FingersAfter(e) /\ D \cap tp["screen"].fwd = {}
                        /\ M \subseteq tp["screen"].fwd /\ U \subseteq tp["screen"].fwd
                        /\ r.p.fwd = (tp["screen"].fwd \cup D) \ U
    <3>1. IsFiniteSet(S) /\ S \subseteq Ids /\ PadOK(tp["screen"], S) /\ S \subseteq e.ids
      BY <1>4, <1>8, <2>3
    <3>2. QED
      BY <1>8, <3>1, PadMakes
  <2>5. TouchInv'
    <3>1. PadOK(r.p, F) /\ active' = {}
      BY <1>4, <1>10, <2>1, <2>4 DEF F
    <3>2. (padMode /\ ~swipe' => active' = {}) /\ (~padMode \/ swipe' => r.p.fwd = {})
      BY <1>3, <1>10, <3>1 DEF PadOK
    <3>3. QED
      BY <1>1, <1>2, <1>3, <2>2, <3>1, <3>2 DEF TouchInv
  <2>6. PICK D, M, U : /\ Makes(r.out, D, M, U) /\ D \subseteq F /\ D \cap tp.screen.fwd = {}
                       /\ M \subseteq tp.screen.fwd /\ U \subseteq tp.screen.fwd
                       /\ r.p.fwd = (tp.screen.fwd \cup D) \ U
    BY <2>4 DEF F
  <2>7. Believed = tp.screen.fwd \cup tp.pad.fwd /\ Believed' = r.p.fwd \cup tp.pad.fwd
    BY <1>4, <1>6, <1>7, <1>10, <2>1, <2>2
  <2>8. OneDevice => tp.pad.fwd = {} \/ (tp.screen.fwd = {} /\ D = {})
    BY <1>4, <1>5, <2>6
  <2>9. SeatInv'
    <3>1. PICK f : f = r.out
      OBVIOUS
    <3>2. PICK x, y, z : x = tp.screen.fwd /\ y = tp.pad.fwd /\ z = r.p.fwd
      OBVIOUS
    <3>3. Send(f) /\ Makes(f, D, M, U)
      BY <2>1, <2>6, <3>1
    <3>4. /\ Believed = x \cup y /\ Believed' = z \cup y /\ z = (x \cup D) \ U /\ D \cap x = {}
          /\ M \cup U \subseteq x \cup D /\ (OneDevice => y = {} \/ (x = {} /\ D = {}))
      BY <2>1, <2>6, <2>7, <2>8, <3>2
    <3>5. OwnSent(f, D, M, U, x, y, z)
      BY <3>3, <3>4 DEF OwnSent
    <3>6. QED
      BY <3>5, DeviceHolds
  <2>10. QED
    BY <2>5, <2>9
<1>11. CASE ~padMode \/ w
  <2>1. active' = TouchEvent(e).active /\ Send(TouchEvent(e).out) /\ tp' = tp
    BY <1>11 DEF Screen
  <2>2. EventOf(e, active)
    BY <1>4 DEF EventOf
  <2>3. PICK r : r = TouchEvent(e)
    OBVIOUS
  <2>4. PICK D, M, U : /\ Makes(r.out, D, M, U) /\ D \subseteq e.ids /\ D \cap active = {}
                       /\ M \cup U \subseteq active \cup D /\ r.active = (active \cup D) \ U
                       /\ r.active \subseteq FingersAfter(e)
    BY <2>2, <2>3, TouchEventMakes DEF Told
  <2>5. PadOK(tp.screen, F)
    BY <1>4, <1>11 DEF PadOK
  <2>6. TouchInv'
    <3>1. active' \subseteq F /\ tp.screen.fwd = {} /\ tp'.screen.fwd = {}
      BY <1>4, <1>11, <2>1, <2>3, <2>4 DEF F
    <3>2. (padMode /\ ~swipe' => active' = {}) /\ (~padMode \/ swipe' => tp'.screen.fwd = {})
      BY <1>3, <1>11, <3>1
    <3>3. QED
      BY <1>1, <1>2, <1>3, <2>1, <2>5, <3>1, <3>2 DEF TouchInv
  <2>7. Believed = active \cup tp.pad.fwd /\ Believed' = r.active \cup tp.pad.fwd
    BY <1>4, <1>6, <1>7, <1>11, <2>1, <2>3
  <2>8. OneDevice => tp.pad.fwd = {} \/ (active = {} /\ D = {})
    BY <1>4, <1>5, <1>9, <2>4
  <2>9. SeatInv'
    <3>1. PICK f : f = r.out
      OBVIOUS
    <3>2. PICK x, y, z : x = active /\ y = tp.pad.fwd /\ z = r.active
      OBVIOUS
    <3>3. Send(f) /\ Makes(f, D, M, U)
      BY <2>1, <2>3, <2>4, <3>1
    <3>4. /\ Believed = x \cup y /\ Believed' = z \cup y /\ z = (x \cup D) \ U /\ D \cap x = {}
          /\ M \cup U \subseteq x \cup D /\ (OneDevice => y = {} \/ (x = {} /\ D = {}))
      BY <2>1, <2>3, <2>4, <2>7, <2>8, <3>2
    <3>5. OwnSent(f, D, M, U, x, y, z)
      BY <3>3, <3>4 DEF OwnSent
    <3>6. QED
      BY <3>5, DeviceHolds
  <2>10. QED
    BY <2>6, <2>9
<1>12. QED
  BY <1>4, <1>10, <1>11

\* The touchpad: with the capture, events go through the recognizer or end the gesture;
\* without, nobody is told.
LEMMA PadHolds ==
  ASSUME TouchInv, SeatInv, Watch, NEW e, EventOf(e, fingers.pad), NEW how, NEW ids, ids = FingersAfter(e),
         NEW pressed, IsFiniteSet(pressed), PadEvent(e, how, ids, pressed)
  PROVE  TouchInv' /\ SeatInv'
<1>1. /\ fingers'.pad = ids /\ fingers'.screen = fingers.screen /\ IsRecord(fingers', {"screen", "pad"})
      /\ hw'.pad = pressed /\ hw'.mouse = hw.mouse /\ IsRecord(hw', {"mouse", "pad"})
  BY DEF TouchInv, IsRecord, PadEvent
<1>2. IsFiniteSet(ids) /\ ids \subseteq Ids
  <2>1. ids \subseteq e.ids
    BY DEF FingersAfter, EventOf
  <2>2. QED
    BY <2>1, FS_Subset DEF EventOf
<1>3. active' = active /\ padMode' = padMode /\ swipe' = swipe /\ captured' = captured
  BY DEF PadEvent
<1>4. /\ IsFiniteSet(fingers.pad) /\ fingers.pad \subseteq Ids /\ PadOK(tp.pad, fingers.pad)
      /\ tp.pad.fwd \subseteq fingers.pad /\ IsFiniteSet(saved) /\ IsFiniteSet(hw.mouse)
      /\ tp.screen.fwd \subseteq fingers.screen /\ active \subseteq fingers.screen /\ captured \in BOOLEAN
      /\ (~captured => tp.pad.fwd = {})
  BY DEF TouchInv, PadOK
<1>5. OneDevice => fingers.screen = {} \/ (fingers.pad = {} /\ ids = {})
  BY <1>1 DEF OneDevice
<1>6. Believed = tp.pad.fwd \cup (active \cup tp.screen.fwd)
  BY DEF Believed
<1>7. Believed' = tp'.pad.fwd \cup (active' \cup tp'.screen.fwd)
  BY DEF Believed
<1>8. /\ IsFiniteSet(e.ids) /\ e.ids \subseteq Ids /\ fingers.pad \subseteq e.ids
      /\ e.act = "up" => e.ids = {e.id}
  BY DEF EventOf
<1>9. CASE ~captured
  <2>1. tp' = tp /\ saved' = saved /\ UNCHANGED seat
    BY <1>9 DEF PadEvent
  <2>2. PadOK(tp.pad, ids)
    BY <1>4, <1>9 DEF PadOK
  <2>3. TouchInv'
    BY <1>1, <1>2, <1>3, <2>1, <2>2 DEF TouchInv
  <2>4. Believed' = Believed
    BY <1>3, <1>6, <1>7, <2>1
  <2>5. QED
    BY <2>1, <2>3, <2>4, BelievedTouched, StillHolds
<1>10. CASE captured
  <2>1. CapturedPad(e, how, pressed)
    BY <1>10 DEF PadEvent
  <2>2. PICK r, b : /\ r = Cancel(tp.pad) \/ r \in Pad("pad", e)
                    /\ b = [latch |-> "none", bs |-> {}] \/ b \in Buttons(e.act, pressed)
                    /\ tp' = [tp EXCEPT !.pad = r.p] /\ saved' = b.bs /\ Send(r.out \o Change(b.bs))
    BY <2>1 DEF CapturedPad
  <2>3. IsFiniteSet(b.bs)
    <3>1. b.bs = {} \/ b.bs = pressed \/ \E k : b.bs = {k}
      BY <2>2 DEF Buttons
    <3>2. IsFiniteSet({}) /\ \A k : IsFiniteSet({k})
      BY FS_EmptySet, FS_Singleton
    <3>3. QED
      BY <3>1, <3>2
  <2>4. Quiet(Change(b.bs))
    BY <1>4, <2>3, ChangeQuiet
  <2>5. tp'.pad = r.p /\ tp'.screen = tp.screen /\ IsRecord(tp', {"screen", "pad"})
    BY <2>2 DEF TouchInv, IsRecord
  <2>6. /\ PadOK(r.p, ids)
        /\ \E D, M, U : /\ Makes(r.out, D, M, U) /\ D \subseteq ids /\ D \cap tp.pad.fwd = {}
                        /\ M \subseteq tp.pad.fwd /\ U \subseteq tp.pad.fwd
                        /\ r.p.fwd = (tp.pad.fwd \cup D) \ U
    <3>1. CASE r = Cancel(tp.pad)
      <4>1. IsFiniteSet(tp.pad.fwd) /\ tp.pad.fwd \subseteq Ids
        BY <1>4, FS_Subset
      <4>2. PICK p : p = tp.pad
        OBVIOUS
      <4>3. Makes(r.out, {}, {}, p.fwd) /\ r.p = Rest
        BY <3>1, <4>1, <4>2, CancelMakes
      <4>4. PadOK(r.p, ids) /\ r.p.fwd = {}
        BY <4>3, RestIs DEF PadOK
      <4>5. r.p.fwd = (p.fwd \cup {}) \ p.fwd /\ {} \subseteq ids /\ {} \cap p.fwd = {} /\ {} \subseteq p.fwd
        BY <4>4
      <4>6. QED
        BY <4>2, <4>3, <4>4, <4>5
    <3>2. CASE r \in Pad("pad", e)
      <4>1. PICK S : S = fingers.pad
        OBVIOUS
      <4>2. IsFiniteSet(S) /\ S \subseteq Ids /\ PadOK(tp["pad"], S) /\ S \subseteq e.ids
        BY <1>4, <1>8, <4>1
      <4>3. QED
        BY <1>8, <3>2, <4>2, PadMakes
    <3>3. QED
      BY <2>2, <3>1, <3>2
  <2>7. TouchInv'
    BY <1>1, <1>2, <1>3, <1>10, <2>2, <2>3, <2>5, <2>6 DEF TouchInv
  <2>8. PICK D, M, U : /\ Makes(r.out, D, M, U) /\ D \subseteq ids /\ D \cap tp.pad.fwd = {}
                       /\ M \subseteq tp.pad.fwd /\ U \subseteq tp.pad.fwd
                       /\ r.p.fwd = (tp.pad.fwd \cup D) \ U
    BY <2>6
  <2>9. Makes(r.out \o Change(b.bs), D, M, U)
    BY <2>4, <2>8, MakesAfter
  <2>10. PICK y : y = active \cup tp.screen.fwd
    OBVIOUS
  <2>11. Believed = tp.pad.fwd \cup y /\ Believed' = r.p.fwd \cup y
    BY <1>3, <1>6, <1>7, <2>5, <2>10
  <2>12. OneDevice => y = {} \/ (tp.pad.fwd = {} /\ D = {})
    BY <1>4, <1>5, <2>8, <2>10
  <2>13. SeatInv'
    <3>1. PICK f : f = r.out \o Change(b.bs)
      OBVIOUS
    <3>2. PICK x, z : x = tp.pad.fwd /\ z = r.p.fwd
      OBVIOUS
    <3>3. Send(f) /\ Makes(f, D, M, U)
      BY <2>2, <2>9, <3>1
    <3>4. /\ Believed = x \cup y /\ Believed' = z \cup y /\ z = (x \cup D) \ U /\ D \cap x = {}
          /\ M \cup U \subseteq x \cup D /\ (OneDevice => y = {} \/ (x = {} /\ D = {}))
      BY <2>8, <2>11, <2>12, <3>2
    <3>5. OwnSent(f, D, M, U, x, y, z)
      BY <3>3, <3>4 DEF OwnSent
    <3>6. QED
      BY <3>5, DeviceHolds
  <2>14. QED
    BY <2>7, <2>13
<1>11. QED
  BY <1>4, <1>9, <1>10

\* The touchpad is let go of, and the fingers stay.
LEMMA LetGoIs ==
  ASSUME TouchInv, LetGo, UNCHANGED <<fingers, swipe, hw, padMode>>, active' \in {{}, active}, captured' \in BOOLEAN
  PROVE  /\ TouchInv' /\ Believed' = active' \cup tp.screen.fwd
         /\ Makes(LetGoSends, {}, {}, tp.pad.fwd)
<1>1. /\ IsFiniteSet(fingers.pad) /\ tp.pad.fwd \subseteq fingers.pad /\ fingers.pad \subseteq Ids /\ IsFiniteSet(saved)
  BY DEF TouchInv, PadOK
<1>2. IsFiniteSet(tp.pad.fwd) /\ tp.pad.fwd \subseteq Ids
  BY <1>1, FS_Subset
<1>3. PICK p : p = tp.pad
  OBVIOUS
<1>4. Makes(Cancel(p).out, {}, {}, p.fwd) /\ Cancel(p).p = Rest
  BY <1>2, <1>3, CancelMakes
<1>5. Quiet(Change({}))
  BY <1>1, FS_EmptySet, ChangeQuiet
<1>6. Makes(LetGoSends, {}, {}, tp.pad.fwd)
  <2>1. PICK f : f = Cancel(p).out
    OBVIOUS
  <2>2. Makes(Change({}) \o f, {}, {}, p.fwd)
    BY <1>4, <1>5, <2>1, MakesBefore
  <2>3. QED
    BY <1>3, <2>1, <2>2 DEF LetGoSends
<1>7. tp' = [tp EXCEPT !.pad = Rest] /\ saved' = {}
  BY <1>3, <1>4 DEF LetGo
<1>8. tp'.pad = Rest /\ tp'.screen = tp.screen /\ IsRecord(tp', {"screen", "pad"})
  BY <1>7 DEF TouchInv, IsRecord
<1>9. PadOK(Rest, fingers.pad) /\ Rest.fwd = {}
  BY RestIs DEF PadOK
<1>10. TouchInv'
  BY <1>7, <1>8, <1>9, FS_EmptySet DEF TouchInv
<1>11. Believed' = active' \cup tp.screen.fwd
  BY <1>8, <1>9 DEF Believed
<1>12. QED
  BY <1>6, <1>10, <1>11

\* One device at a time: what it has let go of is not another's.
LEMMA LetGoHolds ==
  ASSUME TouchInv, SeatInv, Watch, LetGo, UNCHANGED <<fingers, swipe, hw, active, padMode>>, captured' \in BOOLEAN,
         NEW e, Makes(e, {}, {}, tp.pad.fwd), Send(e)
  PROVE  TouchInv' /\ SeatInv'
<1>1. TouchInv' /\ Believed' = active \cup tp.screen.fwd
  BY LetGoIs
<1>2. PICK x, y : x = tp.pad.fwd /\ y = active \cup tp.screen.fwd
  OBVIOUS
<1>3. OneDevice => y = {} \/ x = {}
  BY <1>2 DEF OneDevice, TouchInv, PadOK
<1>4. OwnSent(e, {}, {}, x, x, y, {})
  <2>1. Believed = x \cup y
    BY <1>2 DEF Believed
  <2>2. Believed' = {} \cup y /\ {} = (x \cup {}) \ x
    BY <1>1, <1>2
  <2>3. QED
    BY <1>2, <1>3, <2>1, <2>2 DEF OwnSent
<1>5. QED
  BY <1>1, <1>4, DeviceHolds

\* Keys, buttons and text leave the contacts alone.
LEMMA QuietHolds ==
  ASSUME TouchInv, SeatInv, Watch, NEW e, Quiet(e), Send(e), Believed' = Believed
  PROVE  SeatInv'
<1>1. Makes(e, {}, {}, {})
  BY MakesNone
<1>2. OwnSent(e, {}, {}, {}, Believed, {}, Believed)
  BY <1>1 DEF OwnSent
<1>3. QED
  BY <1>2, DeviceHolds

\* A mouse's buttons.
LEMMA MouseHolds ==
  ASSUME TouchInv, SeatInv, Watch, NEW bs, IsFiniteSet(bs), MouseEvent(bs)
  PROVE  TouchInv' /\ SeatInv'
<1>1. /\ hw' = [hw EXCEPT !.mouse = bs] /\ fingers' = fingers /\ active' = active /\ tp' = tp
      /\ padMode' = padMode /\ swipe' = swipe /\ captured' = captured /\ (saved' = bs \/ saved' = saved)
  BY DEF MouseEvent
<1>2. hw'.mouse = bs /\ hw'.pad = hw.pad /\ IsRecord(hw', {"mouse", "pad"})
  BY <1>1 DEF TouchInv, IsRecord
<1>3. TouchInv'
  BY <1>1, <1>2 DEF TouchInv
<1>4. Believed' = Believed
  BY <1>1 DEF Believed
<1>5. CASE shown
  <2>1. Send(Change(bs))
    BY <1>5 DEF MouseEvent
  <2>2. Quiet(Change(bs))
    BY ChangeQuiet DEF TouchInv
  <2>3. QED
    BY <1>3, <1>4, <2>1, <2>2, QuietHolds
<1>6. CASE ~shown
  <2>1. UNCHANGED seat
    BY <1>6 DEF MouseEvent
  <2>2. QED
    BY <1>3, <1>4, <2>1, BelievedTouched, StillHolds
<1>7. QED
  BY <1>5, <1>6

\* What the screen and the touchpad are told when a finger comes, and when one goes.
LEMMA DownsIs ==
  ASSUME NEW d, Room(d), fingers[d] \subseteq Ids, IsFiniteSet(fingers[d])
  PROVE  LET e == Downs(d) IN
         EventOf(e, fingers[d]) /\ FingersAfter(e) = WithNew(d) /\ e.ids = WithNew(d)
<1> DEFINE e == Downs(d)
           F == fingers[d]
           W == WithNew(d)
           i == FreeId(d)
<1>1. i \in Ids \ F
  BY FreeIdIs
<1>2. W = F \cup {i}
  BY DEF WithNew
<1>3. e.ids = W /\ e.id = i /\ e.act \in {"down", "pointer_down"}
  BY DEF Downs, Event
<1>4. IsFiniteSet(W)
  BY <1>2, FS_AddElement
<1> HIDE DEF e, F, W, i
<1>5. EventOf(e, F)
  <2>1. e.act # "up" /\ e.act # "pointer_up"
    BY <1>3
  <2>2. W \subseteq Ids /\ F \subseteq W /\ i \in W \ F
    BY <1>1, <1>2 DEF F
  <2>3. QED
    BY <1>3, <1>4, <2>1, <2>2 DEF EventOf
<1>6. FingersAfter(e) = W
  <2>1. e.act # "cancel" /\ e.act # "up" /\ e.act # "pointer_up"
    BY <1>3
  <2>2. QED
    BY <1>3, <2>1 DEF FingersAfter
<1>7. QED
  BY <1>3, <1>5, <1>6 DEF e, F, W

LEMMA UpsIs ==
  ASSUME NEW d, fingers[d] \subseteq Ids, IsFiniteSet(fingers[d]), NEW id \in fingers[d]
  PROVE  LET e == Ups(d, id) IN
         EventOf(e, fingers[d]) /\ FingersAfter(e) = fingers[d] \ {id} /\ e.ids = fingers[d]
<1> DEFINE e == Ups(d, id)
           F == fingers[d]
<1>1. e.ids = F /\ e.id = id /\ e.act \in {"up", "pointer_up"} /\ (e.act = "up" => F = {id})
  BY DEF Ups, Event
<1> HIDE DEF e, F
<1>2. id \in F /\ F \subseteq Ids /\ IsFiniteSet(F)
  BY DEF F
<1>3. EventOf(e, F)
  <2>1. e.act # "down" /\ e.act # "pointer_down"
    BY <1>1
  <2>2. QED
    BY <1>1, <1>2, <2>1 DEF EventOf
<1>4. FingersAfter(e) = F \ {id}
  <2>1. e.act # "cancel"
    BY <1>1
  <2>2. QED
    BY <1>1, <2>1 DEF FingersAfter
<1>5. QED
  BY <1>1, <1>3, <1>4 DEF e, F

LEMMA OtherIs ==
  ASSUME NEW F, F \subseteq Ids, IsFiniteSet(F), NEW a \in {"move", "cancel", "button_press", "button_release"}
  PROVE  LET e == Event(a, F, 0) IN
         EventOf(e, F) /\ FingersAfter(e) = (IF a = "cancel" THEN {} ELSE F) /\ e.ids = F
<1> DEFINE e == Event(a, F, 0)
<1>1. e.ids = F /\ e.act = a
  BY DEF Event
<1>2. a \notin {"down", "pointer_down", "up", "pointer_up"}
  OBVIOUS
<1> HIDE DEF e
<1>3. EventOf(e, F)
  BY <1>1, <1>2 DEF EventOf
<1>4. FingersAfter(e) = (IF a = "cancel" THEN {} ELSE F)
  BY <1>1, <1>2 DEF FingersAfter
<1>5. QED
  BY <1>1, <1>3, <1>4 DEF e

LEMMA ScreenSteps ==
  ASSUME TouchInv, SeatInv, Watch, ScreenDown \/ ScreenMoves \/ ScreenUp \/ ScreenCancel
  PROVE  TouchInv' /\ SeatInv'
<1>1. /\ fingers.screen \subseteq Ids /\ IsFiniteSet(fingers.screen) /\ IsRecord(fingers, {"screen", "pad"})
      /\ swipe \in BOOLEAN /\ padMode \in BOOLEAN /\ captured \in BOOLEAN
  BY DEF TouchInv
<1>2. PICK F : F = fingers.screen
  OBVIOUS
<1>3. CASE ScreenDown
  <2>1. PICK e : e = Downs("screen")
    OBVIOUS
  <2>2. EventOf(e, fingers.screen) /\ FingersAfter(e) = WithNew("screen") /\ e.ids = WithNew("screen")
    BY <1>1, <1>3, <2>1, DownsIs DEF ScreenDown
  <2>3. PICK w \in IF fingers.screen # {} THEN {swipe} ELSE {FALSE, padMode /\ ~captured} :
          fingers' = [fingers EXCEPT !.screen = FingersAfter(e)] /\ Screen(e, w)
    BY <1>3, <2>1, <2>2 DEF ScreenDown
  <2>4. e.ids \subseteq fingers.screen \cup FingersAfter(e)
    BY <2>2
  <2>5. w \in BOOLEAN /\ (w = swipe \/ fingers.screen = {})
    BY <1>1, <2>3
  <2>6. QED
    BY <2>2, <2>3, <2>4, <2>5, ScreenHolds
<1>4. CASE ScreenMoves
  <2>1. PICK e : e = Event("move", F, 0)
    OBVIOUS
  <2>2. EventOf(e, F) /\ FingersAfter(e) = F /\ e.ids = F
    BY <1>1, <1>2, <2>1, OtherIs
  <2>3. Screen(e, swipe) /\ fingers' = fingers
    BY <1>2, <1>4, <2>1 DEF ScreenMoves
  <2>4. fingers' = [fingers EXCEPT !.screen = FingersAfter(e)]
    BY <1>1, <1>2, <2>2, <2>3 DEF IsRecord
  <2>5. QED
    BY <1>1, <1>2, <2>2, <2>3, <2>4, ScreenHolds
<1>5. CASE ScreenUp
  <2>1. PICK id \in F : fingers' = [fingers EXCEPT !.screen = F \ {id}] /\ Screen(Ups("screen", id), swipe)
    BY <1>2, <1>5 DEF ScreenUp
  <2>2. PICK e : e = Ups("screen", id)
    OBVIOUS
  <2>3. EventOf(e, F) /\ FingersAfter(e) = F \ {id} /\ e.ids = F
    BY <1>1, <1>2, <2>1, <2>2, UpsIs
  <2>4. fingers' = [fingers EXCEPT !.screen = FingersAfter(e)] /\ Screen(e, swipe)
    BY <2>1, <2>2, <2>3
  <2>5. QED
    BY <1>1, <1>2, <2>3, <2>4, ScreenHolds
<1>6. CASE ScreenCancel
  <2>1. PICK e : e = Event("cancel", F, 0)
    OBVIOUS
  <2>2. EventOf(e, F) /\ FingersAfter(e) = {} /\ e.ids = F
    BY <1>1, <1>2, <2>1, OtherIs
  <2>3. Screen(e, swipe) /\ fingers' = [fingers EXCEPT !.screen = FingersAfter(e)]
    BY <1>2, <1>6, <2>1, <2>2 DEF ScreenCancel
  <2>4. QED
    BY <1>1, <1>2, <2>2, <2>3, ScreenHolds
<1>7. QED
  BY <1>3, <1>4, <1>5, <1>6

LEMMA PadSteps ==
  ASSUME TouchInv, SeatInv, Watch, PadDown \/ PadMoves \/ PadUp \/ PadCancel \/ PadPress \/ PadRelease
  PROVE  TouchInv' /\ SeatInv'
<1>1. fingers.pad \subseteq Ids /\ IsFiniteSet(fingers.pad) /\ IsFiniteSet(hw.pad)
  BY DEF TouchInv
<1>2. PICK F : F = fingers.pad
  OBVIOUS
<1>3. ASSUME NEW e, NEW how, NEW ids, NEW b, EventOf(e, F), ids = FingersAfter(e), IsFiniteSet(b), PadEvent(e, how, ids, b)
      PROVE  TouchInv' /\ SeatInv'
  BY <1>2, <1>3, PadHolds
<1>4. CASE PadDown
  <2>1. PICK e : e = Downs("pad")
    OBVIOUS
  <2>2. EventOf(e, F) /\ FingersAfter(e) = WithNew("pad")
    BY <1>1, <1>2, <1>4, <2>1, DownsIs DEF PadDown
  <2>3. PadEvent(e, "plain", WithNew("pad"), hw.pad)
    BY <1>4, <2>1 DEF PadDown
  <2>4. QED
    BY <1>1, <1>3, <2>2, <2>3
<1>5. CASE PadMoves
  <2>1. PICK e : e = Event("move", F, 0)
    OBVIOUS
  <2>2. EventOf(e, F) /\ FingersAfter(e) = F
    BY <1>1, <1>2, <2>1, OtherIs
  <2>3. PICK how : PadEvent(e, how, F, hw.pad)
    BY <1>2, <1>5, <2>1 DEF PadMoves
  <2>4. QED
    BY <1>1, <1>3, <2>2, <2>3
<1>6. CASE PadUp
  <2>0. PICK id \in F : \E how : PadEvent(Ups("pad", id), how, F \ {id}, hw.pad)
    BY <1>2, <1>6 DEF PadUp
  <2>1. PICK how : PadEvent(Ups("pad", id), how, F \ {id}, hw.pad)
    BY <2>0
  <2>2. PICK e : e = Ups("pad", id)
    OBVIOUS
  <2>3. EventOf(e, F) /\ FingersAfter(e) = F \ {id}
    BY <1>1, <1>2, <2>1, <2>2, UpsIs
  <2>4. PadEvent(e, how, F \ {id}, hw.pad)
    BY <2>1, <2>2
  <2>5. QED
    BY <1>1, <1>3, <2>3, <2>4
<1>7. CASE PadCancel
  <2>1. PICK e : e = Event("cancel", F, 0)
    OBVIOUS
  <2>2. EventOf(e, F) /\ FingersAfter(e) = {}
    BY <1>1, <1>2, <2>1, OtherIs
  <2>3. PadEvent(e, "plain", {}, hw.pad)
    BY <1>2, <1>7, <2>1 DEF PadCancel
  <2>4. QED
    BY <1>1, <1>3, <2>2, <2>3
<1>8. CASE PadPress
  <2>1. PICK e : e = Event("button_press", F, 0)
    OBVIOUS
  <2>2. EventOf(e, F) /\ FingersAfter(e) = F
    BY <1>1, <1>2, <2>1, OtherIs
  <2>3. PadEvent(e, "plain", F, {"left"})
    BY <1>2, <1>8, <2>1 DEF PadPress
  <2>4. IsFiniteSet({"left"})
    BY FS_Singleton
  <2>5. QED
    BY <1>3, <2>2, <2>3, <2>4
<1>9. CASE PadRelease
  <2>1. PICK e : e = Event("button_release", F, 0)
    OBVIOUS
  <2>2. EventOf(e, F) /\ FingersAfter(e) = F
    BY <1>1, <1>2, <2>1, OtherIs
  <2>3. PadEvent(e, "plain", F, {})
    BY <1>2, <1>9, <2>1 DEF PadRelease
  <2>4. IsFiniteSet({})
    BY FS_EmptySet
  <2>5. QED
    BY <1>3, <2>2, <2>3, <2>4
<1>10. QED
  BY <1>4, <1>5, <1>6, <1>7, <1>8, <1>9

LEMMA MouseSteps ==
  ASSUME TouchInv, SeatInv, Watch, MousePress \/ MouseRelease \/ MouseMoves \/ MouseCancel
  PROVE  TouchInv' /\ SeatInv'
<1>1. IsFiniteSet(hw.mouse) /\ IsFiniteSet(saved)
  BY DEF TouchInv
<1>2. \A b : IsFiniteSet(hw.mouse \cup {b}) /\ IsFiniteSet(hw.mouse \ {b})
  <2>1. PICK S : S = hw.mouse
    OBVIOUS
  <2>2. ASSUME NEW b PROVE IsFiniteSet(S \cup {b}) /\ IsFiniteSet(S \ {b})
    BY <1>1, <2>1, FS_AddElement, FS_RemoveElement
  <2>3. QED
    BY <2>1, <2>2
<1>3. CASE MouseCancel
  <2>1. /\ saved' = {} /\ Send(Change({}))
        /\ UNCHANGED <<fingers, swipe, hw, active, tp, latch, padMode, captured>>
    BY <1>3 DEF MouseCancel
  <2>2. TouchInv'
    BY <2>1, FS_EmptySet DEF TouchInv
  <2>3. Believed' = Believed
    BY <2>1 DEF Believed
  <2>4. Quiet(Change({}))
    BY <1>1, FS_EmptySet, ChangeQuiet
  <2>5. QED
    BY <2>1, <2>2, <2>3, <2>4, QuietHolds
<1>4. CASE MousePress
  <2>1. PICK b : MouseEvent(hw.mouse \cup {b})
    BY <1>4 DEF MousePress
  <2>2. QED
    BY <1>2, <2>1, MouseHolds
<1>5. CASE MouseRelease
  <2>1. PICK b : MouseEvent(hw.mouse \ {b})
    BY <1>5 DEF MouseRelease
  <2>2. QED
    BY <1>2, <2>1, MouseHolds
<1>6. CASE MouseMoves
  BY <1>1, <1>6, MouseHolds DEF MouseMoves
<1>7. QED
  BY <1>3, <1>4, <1>5, <1>6

\* So fingers and buttons keep both invariants.
LEMMA TouchSteps ==
  ASSUME TouchInv, SeatInv, Watch, TouchStep
  PROVE  TouchInv' /\ SeatInv'
<1>1. ASSUME CaptureReleased \/ CaptureLost PROVE TouchInv' /\ SeatInv'
  <2>1. /\ LetGo /\ Send(LetGoSends) /\ UNCHANGED <<fingers, swipe, hw, active, padMode>>
        /\ captured' \in BOOLEAN
    BY <1>1 DEF CaptureReleased, CaptureLost, TouchInv
  <2>2. active' \in {{}, active} /\ UNCHANGED <<fingers, swipe, hw, padMode>>
    BY <2>1
  <2>3. Makes(LetGoSends, {}, {}, tp.pad.fwd)
    BY <2>1, <2>2, LetGoIs
  <2>4. QED
    BY <2>1, <2>3, LetGoHolds
<1>2. CASE CaptureGained
  <2>1. /\ captured' = TRUE /\ UNCHANGED <<fingers, swipe, hw, active, tp, saved, latch, padMode>>
        /\ UNCHANGED seat
    BY <1>2 DEF CaptureGained
  <2>2. TouchInv'
    BY <2>1 DEF TouchInv
  <2>3. Believed' = Believed
    BY <2>1 DEF Believed
  <2>4. QED
    BY <2>1, <2>2, <2>3, BelievedTouched, StillHolds
<1>3. QED
  BY <1>1, <1>2, ScreenSteps, PadSteps, MouseSteps DEF TouchStep

-----------------------------------------------------------------------------
(* The soft keys.                                                           *)

VkFields  == {"on", "at", "shiftL", "shiftR", "caps"}
ImeFields == {"mirror", "composing", "doc", "comp", "alone", "tangled"}

IsVk(v)  == IsRecord(v, VkFields) /\ IsFiniteSet(DOMAIN v.at)
IsIme(i) == IsRecord(i, ImeFields) /\ i.mirror \in Seq(STRING) /\ i.composing \in Seq(STRING)
SoftInv  == IsVk(vk) /\ IsIme(ime)

\* A call that sends keys and text.
KeysSent == \E e : Quiet(e) /\ Send(e)
\* One of keys that are not the soft keyboard's own.
Foreign  == \E e : Quiet(e) /\ Send(e) /\ (Disturbs(e) \/ (e = <<>> /\ ime' = ime))

\* Keys with Shift or CTRL around them are keys.
LEMMA KeySends ==
  /\ Quiet(<<>>)
  /\ \A v, k : Quiet(KeyDown(v, k)) /\ Quiet(KeyUp(v, k)) /\ Quiet(Combination(v, k))
  /\ \A e : Quiet(e) => Quiet(WithModifiers(e))
<1>1. \A v, k : Quiet(KeyDown(v, k)) /\ Quiet(KeyUp(v, k))
  BY KeysQuiet DEF KeyDown, KeyUp
<1>2. \A a, b : Quiet(a) /\ Quiet(b) => Quiet(a \o b)
  BY ListsMade
<1>3. \A k : Quiet(<<Press(k)>>) /\ Quiet(<<Release(k)>>)
  BY KeysQuiet
<1>4. ASSUME NEW v, NEW k PROVE Quiet(Combination(v, k))
  <2>1. PICK a, b, c, d : /\ a = <<Press("ShiftL")>> /\ b = KeyDown(v, k) /\ c = KeyUp(v, k)
                          /\ d = <<Release("ShiftL")>>
    OBVIOUS
  <2>2. Quiet(a) /\ Quiet(b) /\ Quiet(c) /\ Quiet(d)
    BY <1>1, <1>3, <2>1
  <2>3. Quiet(((a \o b) \o c) \o d)
    BY <1>2, <2>2
  <2>4. QED
    BY <2>1, <2>3 DEF Combination
<1>5. ASSUME NEW e, Quiet(e) PROVE Quiet(WithModifiers(e))
  <2>1. PICK a, d : a = <<Press("CTRL")>> /\ d = <<Release("CTRL")>>
    OBVIOUS
  <2>2. Quiet((a \o e) \o d)
    BY <1>2, <1>3, <1>5, <2>1
  <2>3. QED
    BY <1>5, <2>1, <2>2 DEF WithModifiers
<1>6. QED
  BY <1>1, <1>4, <1>5, ListsMade

LEMMA UntrackedIs ==
  ASSUME NEW v, IsVk(v), NEW f
  PROVE  IsVk(Untracked(v, f))
<1> DEFINE a == [g \in DOMAIN v.at \ {f} |-> v.at[g]]
           r == v.shiftR /\ v.at[f] # "ShiftR"
           u == [v EXCEPT !.at = a, !.shiftR = r]
<1>1. Untracked(v, f) = u
  BY DEF Untracked
<1>2. IsFiniteSet(DOMAIN v.at \ {f})
  BY FS_RemoveElement DEF IsVk
<1>3. IsFiniteSet(DOMAIN a)
  BY <1>2
<1> HIDE DEF a, r
<1>4. IsRecord(u, VkFields) /\ u.at = a
  BY DEF IsVk, IsRecord, VkFields
<1>5. QED
  BY <1>1, <1>3, <1>4 DEF IsVk

LEMMA TrackedIs ==
  ASSUME IsVk(vk), NEW f, NEW k
  PROVE  IsVk(Tracked(f, k))
<1> DEFINE D == DOMAIN vk.at \cup {f}
           a == [g \in D |-> IF g = f THEN k ELSE vk.at[g]]
           u == [vk EXCEPT !.at = a]
<1>1. Tracked(f, k) = u
  BY DEF Tracked
<1>2. IsFiniteSet(D)
  BY FS_AddElement DEF IsVk
<1>3. IsFiniteSet(DOMAIN a)
  BY <1>2
<1> HIDE DEF a, D
<1>4. IsRecord(u, VkFields) /\ u.at = a
  BY DEF IsVk, IsRecord, VkFields
<1>5. QED
  BY <1>1, <1>3, <1>4 DEF IsVk

\* The fingers of a cancelled gesture are lifted one by one.
AreLifted(g, v, m) ==
  g = [i \in 0..m |-> IF i = 0 THEN [v |-> v, out |-> <<>>] ELSE LiftFirst(g[i - 1])]

LEMMA LiftedAre ==
  ASSUME NEW v, NEW m \in Nat
  PROVE  \E g : AreLifted(g, v, m)
<1> DEFINE T == {n \in Nat : ~\E g : AreLifted(g, v, n)}
<1>1. SUFFICES ASSUME T # {} PROVE FALSE
  OBVIOUS
<1>2. PICK n \in T : \A k \in T : n <= k
  BY <1>1, Least
<1>3. CASE n = 0
  <2>1. AreLifted([i \in 0..0 |-> [v |-> v, out |-> <<>>]], v, 0)
    BY DEF AreLifted
  <2>2. QED
    BY <1>3, <2>1
<1>4. CASE n # 0
  <2>1. n - 1 \in Nat /\ n - 1 \notin T
    BY <1>2, <1>4
  <2>2. PICK g : AreLifted(g, v, n - 1)
    BY <2>1
  <2> DEFINE h == [i \in 0..n |-> IF i = n THEN LiftFirst(g[n - 1]) ELSE g[i]]
  <2>3. n \in Nat
    OBVIOUS
  <2>4. AreLifted(h, v, n)
    BY <1>4, <2>1, <2>2, <2>3 DEF AreLifted
  <2>5. QED
    BY <2>4
<1>5. QED
  BY <1>3, <1>4

\* What is lifted together is released, and nothing else is sent.
LEMMA LiftedQuiet ==
  ASSUME NEW v, IsVk(v)
  PROVE  IsVk(Lifted(v).v) /\ Quiet(Lifted(v).out)
<1> DEFINE m == Cardinality(DOMAIN v.at)
           Good(r) == IsVk(r.v) /\ Quiet(r.out)
<1>1. m \in Nat
  BY FS_CardinalityType DEF IsVk
<1>2. PICK r : /\ r = [i \in 0..m |-> IF i = 0 THEN [v |-> v, out |-> <<>>] ELSE LiftFirst(r[i - 1])]
               /\ Lifted(v) = r[m]
  <2>1. PICK c : c = CHOOSE g : g = [i \in 0..m |-> IF i = 0 THEN [v |-> v, out |-> <<>>] ELSE LiftFirst(g[i - 1])]
    OBVIOUS
  <2>2. \E g : g = [i \in 0..m |-> IF i = 0 THEN [v |-> v, out |-> <<>>] ELSE LiftFirst(g[i - 1])]
    BY <1>1, LiftedAre DEF AreLifted
  <2>3. c = [i \in 0..m |-> IF i = 0 THEN [v |-> v, out |-> <<>>] ELSE LiftFirst(c[i - 1])]
    BY <2>1, <2>2
  <2>4. Lifted(v) = c[m]
    BY <2>1 DEF Lifted
  <2>5. QED
    BY <2>3, <2>4
<1> HIDE DEF m
<1>3. r[0] = [v |-> v, out |-> <<>>] /\ \A i \in 1..m : r[i] = LiftFirst(r[i - 1])
  BY <1>1, <1>2
<1>4. ASSUME NEW q, Good(q) PROVE Good(LiftFirst(q))
  <2>1. PICK f : f = Min(DOMAIN q.v.at)
    OBVIOUS
  <2>2. LiftFirst(q) = [v |-> Untracked(q.v, f), out |-> q.out \o KeyUp(q.v, q.v.at[f])]
    BY <2>1 DEF LiftFirst
  <2>3. Quiet(q.out \o KeyUp(q.v, q.v.at[f]))
    BY <1>4, KeySends, ListsMade
  <2>4. IsVk(Untracked(q.v, f))
    BY <1>4, UntrackedIs
  <2>5. QED
    BY <2>2, <2>3, <2>4
<1>5. Good(r[0])
  <2>1. r[0].v = v /\ r[0].out = <<>>
    BY <1>3
  <2>2. QED
    BY <2>1, KeySends
<1> DEFINE T == {i \in 0..m : ~Good(r[i])}
<1>6. T = {}
  <2>1. SUFFICES ASSUME T # {} PROVE FALSE
    OBVIOUS
  <2>2. T \in SUBSET Nat
    OBVIOUS
  <2>3. PICK i \in T : \A k \in T : i <= k
    BY <2>1, <2>2, Least
  <2>4. i # 0
    BY <1>5, <2>3
  <2>5. i - 1 \in 0..m /\ i - 1 \notin T /\ i \in 1..m
    BY <1>1, <2>3, <2>4
  <2>6. r[i] = LiftFirst(r[i - 1])
    BY <1>3, <2>5
  <2>7. Good(r[i - 1])
    BY <2>5
  <2>8. Good(LiftFirst(r[i - 1]))
    <3> HIDE DEF Good
    <3>1. QED
      BY <1>4, <2>7
  <2>9. QED
    BY <2>3, <2>6, <2>8
<1>7. Good(r[m])
  BY <1>1, <1>6
<1>8. QED
  BY <1>2, <1>7

LEMMA DisturbedIs ==
  ASSUME IsIme(ime), NEW e, Disturbs(e)
  PROVE  IsIme(ime')
BY DEF Disturbs, IsIme, IsRecord, ImeFields

LEMMA VkSteps ==
  ASSUME SoftInv, VkDown \/ VkUp \/ VkCancel
  PROVE  SoftInv' /\ Foreign
<1>1. IsVk(vk) /\ IsIme(ime) /\ IsRecord(vk, VkFields) /\ IsFiniteSet(DOMAIN vk.at)
  BY DEF SoftInv, IsVk
<1>2. CASE VkDown
  <2>1. PICK f, k, e :
          /\ e = <<>> \/ e = Combination(vk, k) \/ e = KeyDown(vk, k)
          /\ Send(e) /\ Disturbs(e)
          /\ \/ vk' = [vk EXCEPT !.shiftL = ~@]
             \/ vk' = [vk EXCEPT !.caps = ~@]
             \/ vk' = [vk EXCEPT !.shiftL = FALSE]
             \/ vk' = [Tracked(f, k) EXCEPT !.shiftR = TRUE]
             \/ vk' = Tracked(f, k)
    BY <1>2 DEF VkDown
  <2>2. IsVk(Tracked(f, k))
    BY <1>1, TrackedIs
  <2>3. PICK t : t = Tracked(f, k)
    OBVIOUS
  <2>4. \A x : IsVk([vk EXCEPT !.shiftL = x]) /\ IsVk([vk EXCEPT !.caps = x])
    BY <1>1 DEF IsVk, IsRecord, VkFields
  <2>5. IsVk([t EXCEPT !.shiftR = TRUE])
    BY <2>2, <2>3 DEF IsVk, IsRecord, VkFields
  <2>6. vk' = [t EXCEPT !.shiftR = TRUE] \/ vk' = t \/ \E x : vk' = [vk EXCEPT !.shiftL = x] \/ vk' = [vk EXCEPT !.caps = x]
    BY <2>1, <2>3
  <2>7. IsVk(vk')
    BY <2>2, <2>3, <2>4, <2>5, <2>6
  <2>8. IsIme(ime')
    BY <1>1, <2>1, DisturbedIs
  <2>9. Quiet(e)
    BY <2>1, KeySends
  <2>10. QED
    BY <2>1, <2>7, <2>8, <2>9 DEF SoftInv, Foreign
<1>3. CASE VkUp
  <2>1. PICK f, e : vk' = Untracked(vk, f) /\ e = KeyUp(vk, vk.at[f]) /\ Send(e) /\ Disturbs(e)
    BY <1>3 DEF VkUp
  <2>2. IsVk(vk') /\ Quiet(e)
    BY <1>1, <2>1, UntrackedIs, KeySends
  <2>3. QED
    BY <1>1, <2>1, <2>2, DisturbedIs DEF SoftInv, Foreign
<1>4. CASE VkCancel
  <2>1. PICK l : l = Lifted(vk)
    OBVIOUS
  <2>2. vk' = [l.v EXCEPT !.shiftL = FALSE, !.shiftR = FALSE] /\ Send(l.out) /\ Disturbs(l.out)
    BY <1>4, <2>1 DEF VkCancel
  <2>3. IsVk(l.v) /\ Quiet(l.out)
    BY <1>1, <2>1, LiftedQuiet
  <2>4. IsVk(vk')
    BY <2>2, <2>3 DEF IsVk, IsRecord, VkFields
  <2>5. QED
    BY <1>1, <2>2, <2>3, <2>4, DisturbedIs DEF SoftInv, Foreign
<1>5. QED
  BY <1>2, <1>3, <1>4

LEMMA ClickSends ==
  ASSUME SoftInv, NEW k, NEW b, Click(k, b)
  PROVE  SoftInv' /\ Foreign
<1>1. IsVk(vk) /\ IsIme(ime)
  BY DEF SoftInv
<1>2. CASE Send(<<>>) /\ UNCHANGED <<vk, ime>>
  BY <1>1, <1>2, KeySends DEF SoftInv, Foreign
<1>3. ASSUME NEW e, Quiet(e), Send(e), Disturbs(e), vk' = vk PROVE SoftInv' /\ Foreign
  BY <1>1, <1>3, DisturbedIs DEF SoftInv, Foreign
<1>4. CASE vk' = VkToggled.v /\ Send(VkToggled.out) /\ Disturbs(VkToggled.out)
  <2>1. PICK z : z = VkToggled
    OBVIOUS
  <2>2. IsVk(z.v) /\ Quiet(z.out)
    <3>1. CASE vk.on
      <4>1. z.v = [vk EXCEPT !.on = FALSE, !.shiftL = FALSE, !.shiftR = FALSE] /\ z.out = <<Release("ShiftR")>>
        BY <2>1, <3>1 DEF VkToggled
      <4>2. IsVk(z.v)
        BY <1>1, <4>1 DEF IsVk, IsRecord, VkFields
      <4>3. QED
        BY <4>1, <4>2, KeysQuiet
    <3>2. CASE ~vk.on
      <4>1. z.v = [vk EXCEPT !.on = TRUE] /\ z.out = <<>>
        BY <2>1, <3>2 DEF VkToggled
      <4>2. IsVk(z.v)
        BY <1>1, <4>1 DEF IsVk, IsRecord, VkFields
      <4>3. QED
        BY <4>1, <4>2, KeySends
    <3>3. QED
      BY <3>1, <3>2
  <2>3. QED
    BY <1>1, <1>4, <2>1, <2>2, DisturbedIs DEF SoftInv, Foreign
<1>5. PICK e : e = IF k = "LEFT" THEN WithModifiers(Tap(k)) ELSE WithModifiers(Text(<<k>>))
  OBVIOUS
<1>6. Quiet(e)
  BY <1>5, KeySends, KeysQuiet
<1>7. \/ Send(e) /\ Disturbs(e) /\ vk' = vk
      \/ Send(<<>>) /\ UNCHANGED <<vk, ime>>
      \/ vk' = VkToggled.v /\ Send(VkToggled.out) /\ Disturbs(VkToggled.out)
  BY <1>5 DEF Click
<1>8. QED
  BY <1>2, <1>3, <1>4, <1>6, <1>7

LEMMA BarSteps ==
  ASSUME SoftInv,
         BarDown \/ BarSwipe \/ BarUp \/ BarCancel \/ BarRepeats \/ BarLocks \/ BarShows \/ BarHides
  PROVE  SoftInv' /\ Foreign
<1>1. ASSUME Send(<<>>), UNCHANGED <<vk, ime>> PROVE SoftInv' /\ Foreign
  BY <1>1, KeySends DEF SoftInv, Foreign
<1>2. (Send(<<>>) /\ UNCHANGED <<vk, ime>>) \/ \E k, b : Click(k, b)
  <2>1. CASE BarUp
    BY <2>1 DEF BarUp
  <2>2. CASE BarRepeats
    BY <2>2 DEF BarRepeats
  <2>3. QED
    BY <2>1, <2>2 DEF BarDown, BarSwipe, BarCancel, BarLocks, BarShows, BarHides
<1>3. QED
  BY <1>1, <1>2, ClickSends

\* A text and another have a longest beginning in common.
LEMMA LongestIs ==
  ASSUME NEW a \in Seq(STRING), NEW b \in Seq(STRING)
  PROVE  LET p == Len(LongestCommonPrefix({a, b})) IN
         p \in 0..Len(a) /\ p <= Len(b) /\ SubSeq(a, 1, p) = SubSeq(b, 1, p)
<1> DEFINE C == CommonPrefixes({a, b})
           T == {Len(a) - Len(p) : p \in C}
<1>1. Len(a) \in Nat /\ Len(b) \in Nat
  OBVIOUS
<1>2. ASSUME NEW p \in C PROVE Len(p) \in Nat /\ Len(p) <= Len(a) /\ Len(p) <= Len(b)
  <2>1. Len(p) <= Len(a) /\ Len(p) <= Len(b)
    BY <1>2 DEF CommonPrefixes, IsPrefix
  <2>2. PICK s \in {a, b} : p \in Prefixes(s)
    BY <1>2 DEF CommonPrefixes
  <2>3. PICK l \in 0..Len(s) : p = SubSeq(s, 1, l)
    BY <2>2 DEF Prefixes
  <2>4. s \in Seq(STRING)
    OBVIOUS
  <2>5. Len(p) \in Nat
    BY <2>3, <2>4, SubSeqProperties
  <2>6. QED
    BY <2>1, <2>5
<1>3. C # {}
  <2>1. ASSUME NEW s \in {a, b} PROVE SubSeq(s, 1, 0) = <<>>
    <3>1. s \in Seq(STRING)
      OBVIOUS
    <3>2. SubSeq(s, 1, 0) \in Seq(STRING) /\ Len(SubSeq(s, 1, 0)) = 0
      BY <3>1, SubSeqProperties
    <3>3. QED
      BY <3>2, EmptySeq
  <2>2. PICK e : e = <<>>
    OBVIOUS
  <2>3. Len(e) = 0 /\ SubSeq(e, 1, 0) = <<>>
    <3>1. e \in Seq(STRING) /\ Len(e) = 0
      BY <2>2
    <3>2. SubSeq(e, 1, 0) \in Seq(STRING) /\ Len(SubSeq(e, 1, 0)) = 0
      BY <3>1, SubSeqProperties
    <3>3. QED
      BY <3>1, <3>2, EmptySeq
  <2>4. \A s \in {a, b} : IsPrefix(e, s)
    <3>1. \A s \in {a, b} : 0 <= Len(s)
      BY <1>1
    <3>2. QED
      BY <2>1, <2>2, <2>3, <3>1 DEF IsPrefix
  <2>5. e \in Prefixes(a)
    <3>1. 0 \in 0..Len(a)
      BY <1>1
    <3>2. QED
      BY <2>1, <2>2, <3>1 DEF Prefixes
  <2>6. e \in C
    BY <2>4, <2>5 DEF CommonPrefixes
  <2>7. QED
    BY <2>6
<1> HIDE DEF C
<1>4. T \in SUBSET Nat /\ T # {}
  BY <1>1, <1>2, <1>3
<1>5. PICK m \in T : \A n \in T : m <= n
  BY <1>4, Least
<1>6. PICK p \in C : m = Len(a) - Len(p)
  OBVIOUS
<1>7. ASSUME NEW q \in C PROVE Len(q) <= Len(p)
  <2>1. Len(a) - Len(q) \in T
    OBVIOUS
  <2>2. m <= Len(a) - Len(q)
    BY <1>5, <2>1
  <2>3. Len(q) \in Nat /\ Len(p) \in Nat
    BY <1>2
  <2>4. QED
    BY <1>1, <1>6, <2>2, <2>3
<1>8. LongestCommonPrefix({a, b}) \in C
  BY <1>6, <1>7 DEF LongestCommonPrefix, C
<1>9. ASSUME NEW q \in C PROVE SubSeq(a, 1, Len(q)) = SubSeq(b, 1, Len(q))
  BY <1>9 DEF C, CommonPrefixes, IsPrefix
<1>10. PICK q \in C : q = LongestCommonPrefix({a, b})
  BY <1>8
<1>11. PICK n : n = Len(q)
  OBVIOUS
<1>12. n \in 0..Len(a) /\ n <= Len(b) /\ SubSeq(a, 1, n) = SubSeq(b, 1, n)
  BY <1>1, <1>2, <1>9, <1>11
<1>13. QED
  BY <1>10, <1>11, <1>12

\* Parts of texts are texts.
LEMMA TextsMade ==
  /\ <<>> \in Seq(STRING)
  /\ \A s \in Seq(STRING), n \in Nat :
       /\ Popped(s, n) \in Seq(STRING)
       /\ n <= Len(s) => LastOf(s, n) \in Seq(STRING)
<1>1. ASSUME NEW s \in Seq(STRING), NEW n \in Nat PROVE Popped(s, n) \in Seq(STRING)
  <2>1. PICK k : k = Len(s) - (IF n < Len(s) THEN n ELSE Len(s))
    OBVIOUS
  <2>2. Len(s) \in Nat
    OBVIOUS
  <2>3. k \in 0..Len(s)
    BY <2>1, <2>2
  <2>4. SubSeq(s, 1, k) \in Seq(STRING)
    BY <2>2, <2>3, SubSeqProperties
  <2>5. QED
    BY <2>1, <2>4 DEF Popped, DropLast
<1>2. ASSUME NEW s \in Seq(STRING), NEW n \in Nat, n <= Len(s) PROVE LastOf(s, n) \in Seq(STRING)
  <2>1. PICK k : k = (Len(s) - n) + 1
    OBVIOUS
  <2>2. Len(s) \in Nat
    OBVIOUS
  <2>3. k \in 1..(Len(s) + 1)
    BY <1>2, <2>1, <2>2
  <2>4. SubSeq(s, k, Len(s)) \in Seq(STRING)
    BY <2>2, <2>3, SubSeqProperties
  <2>5. QED
    BY <2>1, <2>4 DEF LastOf
<1>3. <<>> \in Seq(STRING)
  OBVIOUS
<1>4. QED
  BY <1>1, <1>2, <1>3

\* What an edit sends is keys and text.
LEMMA BackspacesQuiet ==
  ASSUME NEW n \in Nat
  PROVE  Quiet(Backspaces(n))
<1> DEFINE b == [i \in 1..2 * n |-> IF i % 2 = 1 THEN Press("BACKSPACE") ELSE Release("BACKSPACE")]
<1>1. PICK S : S = {Press("BACKSPACE"), Release("BACKSPACE")}
  OBVIOUS
<1>2. 2 * n \in Nat
  OBVIOUS
<1>3. b \in [1..2 * n -> S]
  BY <1>1
<1>4. b \in Seq(S)
  BY <1>2, <1>3
<1>5. \A ev \in S : IsQuiet(ev)
  BY <1>1, KeysQuiet
<1>6. Backspaces(n) = b
  BY DEF Backspaces
<1> HIDE DEF b
<1>7. QED
  BY <1>4, <1>5, <1>6 DEF Quiet

LEMMA EditSends ==
  ASSUME SoftInv, NEW n \in Nat, NEW s \in Seq(STRING), NEW c \in Seq(STRING), NEW b, Edit(n, s, c, b)
  PROVE  SoftInv' /\ KeysSent
<1>1. PICK e : e = Backspaces(n) \o Text(s)
  OBVIOUS
<1>2. Quiet(e)
  BY <1>1, BackspacesQuiet, KeysQuiet, ListsMade
<1>3. PICK p : p = Popped(ime.mirror, n) \o s
  OBVIOUS
<1>4. p \in Seq(STRING)
  <2>1. Popped(ime.mirror, n) \in Seq(STRING)
    BY TextsMade DEF SoftInv, IsIme
  <2>2. QED
    BY <1>3, <2>1, ConcatProperties
<1>5. /\ ime' = [ime EXCEPT !.mirror = p, !.composing = c, !.doc = b.doc, !.comp = b.comp,
                            !.tangled = b.tangled]
      /\ Send(e) /\ vk' = vk
  BY <1>1, <1>3 DEF Edit
<1>6. IsIme(ime')
  BY <1>4, <1>5 DEF SoftInv, IsIme, IsRecord, ImeFields
<1>7. QED
  BY <1>2, <1>5, <1>6 DEF SoftInv, KeysSent

LEMMA ComboSends ==
  ASSUME SoftInv, NEW s, NEW b, Combo(s, b)
  PROVE  SoftInv' /\ KeysSent
<1>1. PICK e : e = WithModifiers(Tap(Head(Mapped(s))))
  OBVIOUS
<1>2. Quiet(e)
  BY <1>1, KeysQuiet, KeySends
<1>3. /\ ime' = [ime EXCEPT !.composing = <<>>, !.alone = FALSE, !.doc = b.doc, !.comp = b.comp]
      /\ Send(e) /\ vk' = vk
  BY <1>1 DEF Combo
<1>4. IsIme(ime')
  BY <1>3, TextsMade DEF SoftInv, IsIme, IsRecord, ImeFields
<1>5. QED
  BY <1>2, <1>3, <1>4 DEF SoftInv, KeysSent

LEMMA ImeSteps ==
  ASSUME SoftInv,
         ImeComposes \/ ImeCommits \/ ImeFinishes \/ ImeDeletes \/ ImeReclaims \/ ImeBackspace \/ ImeEnter
  PROVE  SoftInv' /\ KeysSent
<1>1. /\ ime.composing \in Seq(STRING) /\ Len(ime.composing) \in Nat
      /\ ime.mirror \in Seq(STRING) /\ IsRecord(ime, ImeFields) /\ IsVk(vk)
  BY DEF SoftInv, IsIme
<1>2. \A w \in Words : w \in Seq(STRING) /\ Len(w) \in Nat
  BY SoftKeysAssumption
<1>3. <<>> \in Seq(STRING) /\ 0 \in Nat /\ 1 \in Nat
  BY TextsMade
<1>4. ASSUME NEW s \in Words, Replacing(s) PROVE SoftInv' /\ KeysSent
  <2>1. PICK p : p = Len(LongestCommonPrefix({ime.composing, s}))
    OBVIOUS
  <2>2. p \in 0..Len(ime.composing) /\ p <= Len(s) /\ Len(s) \in Nat
    BY <1>1, <1>2, <2>1, LongestIs
  <2>3. Len(ime.composing) - p \in Nat /\ Len(s) - p \in Nat /\ Len(s) - p <= Len(s)
    BY <1>1, <2>2
  <2>4. LastOf(s, Len(s) - p) \in Seq(STRING)
    BY <1>2, <2>3, TextsMade
  <2>5. Edit(Len(ime.composing) - p, LastOf(s, Len(s) - p), s, Believes(s, Len(s)))
    BY <1>4, <2>1 DEF Replacing
  <2>6. QED
    BY <1>2, <2>3, <2>4, <2>5, EditSends
<1>5. CASE ImeComposes
  <2>1. PICK s \in Words : Combo(s, Believes(s, Len(s))) \/ Replacing(s)
    BY <1>5 DEF ImeComposes
  <2>2. QED
    BY <1>4, <2>1, ComboSends
<1>6. CASE ImeCommits
  <2>1. PICK s \in Words : \/ Combo(s, Believes(s, 0))
                           \/ Edit(0, <<>>, <<>>, Believes(s, 0))
                           \/ Edit(Len(ime.composing), s, <<>>, Believes(s, 0))
    BY <1>6 DEF ImeCommits
  <2>2. QED
    BY <1>1, <1>2, <1>3, <2>1, ComboSends, EditSends
<1>7. CASE ImeFinishes
  BY <1>3, <1>7, EditSends DEF ImeFinishes
<1>8. CASE ImeDeletes
  BY <1>1, <1>3, <1>8, EditSends DEF ImeDeletes
<1>9. CASE ImeReclaims
  <2>1. PICK n \in 1..SinceEnter(ime.doc) : Edit(0, <<>>, Region(n), Still(n))
    BY <1>9 DEF ImeReclaims
  <2>2. n \in Nat
    <3>1. n \in Int /\ 1 <= n
      BY <2>1
    <3>2. QED
      BY <3>1
  <2>3. Region(n) \in Seq(STRING)
    BY <1>1, <2>2, TextsMade DEF Region
  <2>4. QED
    BY <1>3, <2>1, <2>3, EditSends
<1>10. CASE ImeBackspace
  BY <1>1, <1>3, <1>10, EditSends DEF ImeBackspace
<1>11. CASE ImeEnter
  <2>1. PICK d : d = Append(ime.doc, "ENTER")
    OBVIOUS
  <2>2. /\ ime' = [ime EXCEPT !.mirror = <<>>, !.composing = <<>>, !.doc = d, !.comp = 0]
        /\ Send(Tap("ENTER")) /\ vk' = vk
    BY <1>11, <2>1 DEF ImeEnter
  <2>3. IsIme(ime')
    BY <1>1, <1>3, <2>2 DEF IsIme, IsRecord, ImeFields
  <2>4. QED
    BY <1>1, <2>2, <2>3, KeysQuiet DEF SoftInv, KeysSent
<1>12. QED
  BY <1>5, <1>6, <1>7, <1>8, <1>9, <1>10, <1>11

\* So the soft keys, the bar and the soft keyboard send no contacts.
LEMMA SoftSteps ==
  ASSUME SoftInv, SoftStep
  PROVE  SoftInv' /\ KeysSent
BY VkSteps, BarSteps, ImeSteps DEF SoftStep, KeysSent, Foreign

-----------------------------------------------------------------------------
(* The phone.                                                               *)

HardFields == {"keys", "given", "via", "set", "filters", "opens", "backUp", "strayed"}
HardInv    == IsRecord(hard, HardFields) /\ IsFiniteSet(hard.given)

PhoneInv == TouchInv /\ SeatInv /\ SoftInv /\ HardInv

\* Keys and text are sent, and no finger has moved.
LEMMA KeysHold ==
  ASSUME TouchInv, SeatInv, Watch, KeysSent, UNCHANGED touch
  PROVE  TouchInv' /\ SeatInv'
<1>1. /\ fingers' = fingers /\ hw' = hw /\ active' = active /\ tp' = tp /\ saved' = saved
      /\ padMode' = padMode /\ swipe' = swipe /\ captured' = captured
  BY DEF touch
<1>2. TouchInv'
  BY <1>1 DEF TouchInv
<1>3. Believed' = Believed
  BY <1>1 DEF Believed
<1>4. PICK e : Quiet(e) /\ Send(e)
  BY DEF KeysSent
<1>5. QED
  BY <1>2, <1>3, <1>4, QuietHolds

LEMMA SameTouch ==
  ASSUME TouchInv, UNCHANGED touch
  PROVE  TouchInv' /\ Believed' = Believed /\ fingers' = fingers
BY DEF touch, TouchInv, Believed

LEMMA SameSeat ==
  ASSUME TouchInv, SeatInv, Watch, UNCHANGED <<seat, touch>>
  PROVE  TouchInv' /\ SeatInv'
<1>1. UNCHANGED seat /\ UNCHANGED touch
  OBVIOUS
<1>2. TouchInv' /\ Believed' = Believed
  BY <1>1, SameTouch
<1>3. QED
  BY <1>1, <1>2, BelievedTouched, StillHolds

LEMMA SameSoft ==
  ASSUME SoftInv, UNCHANGED <<vk, ime>>
  PROVE  SoftInv'
BY DEF SoftInv

LEMMA KeptHolds ==
  ASSUME TouchInv, SeatInv, SoftInv, Watch, NEW e, Quiet(e), Keep(e)
  PROVE  TouchInv' /\ SeatInv' /\ SoftInv'
<1>1. KeysSent /\ UNCHANGED touch /\ vk' = vk /\ Disturbs(e)
  BY DEF Keep, KeysSent
<1>2. IsIme(ime')
  BY <1>1, DisturbedIs DEF SoftInv
<1>3. SoftInv'
  BY <1>1, <1>2 DEF SoftInv
<1>4. QED
  BY <1>1, <1>3, KeysHold

\* Back gives up the capture, as losing the focus does.
LEMMA LetGoSent ==
  ASSUME TouchInv, SeatInv, SoftInv, Watch, LetGo, NEW q, Quiet(q), Send(q \o LetGoSends) \/ Send(LetGoSends),
         UNCHANGED <<fingers, swipe, hw, active, padMode, captured, soft>>
  PROVE  TouchInv' /\ SeatInv' /\ SoftInv'
<1>1. /\ UNCHANGED <<fingers, swipe, hw, padMode>> /\ active' \in {{}, active} /\ captured' \in BOOLEAN
      /\ UNCHANGED <<fingers, swipe, hw, active, padMode>>
  BY DEF TouchInv
<1>2. Makes(LetGoSends, {}, {}, tp.pad.fwd)
  BY <1>1, LetGoIs
<1>3. PICK e : (e = q \o LetGoSends \/ e = LetGoSends) /\ Send(e)
  OBVIOUS
<1>4. Makes(e, {}, {}, tp.pad.fwd)
  <2>1. Makes(q \o LetGoSends, {}, {}, tp.pad.fwd)
    BY <1>2, MakesBefore
  <2>2. QED
    BY <1>2, <1>3, <2>1
<1>5. TouchInv' /\ SeatInv'
  BY <1>1, <1>3, <1>4, LetGoHolds
<1>6. SoftInv'
  BY SameSoft DEF soft
<1>7. QED
  BY <1>5, <1>6

\* The hardware keyboard: its Back gives up the capture, which lifts contacts.
LEMMA HwDownHolds ==
  ASSUME PhoneInv, Watch, HwDown
  PROVE  PhoneInv'
<1>1. TouchInv /\ SeatInv /\ SoftInv /\ HardInv /\ IsRecord(hard, HardFields) /\ IsFiniteSet(hard.given)
  BY DEF PhoneInv, HardInv
<1>2. PICK k : LET h == [hard EXCEPT !.keys = @ \cup {k},
                          !.given = IF Way = "window" THEN @ \cup {k} ELSE @,
                          !.via = IF Way = "service" THEN @ \cup {k} ELSE @,
                          !.strayed = @ \ {Code(k, Way)}]
               IN IF Way = "elsewhere"
                  THEN hard' = [hard EXCEPT !.keys = @ \cup {k}] /\ UNCHANGED <<seat, touch, soft>>
                  ELSE IF k = "BACK" /\ captured THEN BackDown(h) ELSE Down(k, h)
  BY DEF HwDown
<1>3. PICK G, V, S : /\ G = (IF Way = "window" THEN hard.given \cup {k} ELSE hard.given)
                     /\ V = (IF Way = "service" THEN hard.via \cup {k} ELSE hard.via)
                     /\ S = hard.strayed \ {Code(k, Way)}
  OBVIOUS
<1>4. PICK h : h = [hard EXCEPT !.keys = hard.keys \cup {k}, !.given = G, !.via = V, !.strayed = S]
  OBVIOUS
<1>5. \/ hard' = [hard EXCEPT !.keys = hard.keys \cup {k}] /\ UNCHANGED <<seat, touch, soft>>
      \/ BackDown(h) \/ Down(k, h)
  <2>1. h = [hard EXCEPT !.keys = @ \cup {k},
                          !.given = IF Way = "window" THEN @ \cup {k} ELSE @,
                          !.via = IF Way = "service" THEN @ \cup {k} ELSE @,
                          !.strayed = @ \ {Code(k, Way)}]
    BY <1>3, <1>4
  <2>2. QED
    BY <1>2, <2>1
<1>6. IsFiniteSet(G)
  <2>1. IsFiniteSet(hard.given \cup {k})
    BY <1>1, FS_AddElement
  <2>2. QED
    BY <1>1, <1>3, <2>1
<1>7. IsRecord(h, HardFields) /\ h.given = G
  <2>1. PICK K : h = [hard EXCEPT !.keys = K, !.given = G, !.via = V, !.strayed = S]
    BY <1>4
  <2>2. QED
    BY <1>1, <2>1 DEF IsRecord, HardFields
<1>8. CASE hard' = [hard EXCEPT !.keys = hard.keys \cup {k}] /\ UNCHANGED <<seat, touch, soft>>
  <2>1. HardInv'
    <3>1. PICK K : hard' = [hard EXCEPT !.keys = K]
      BY <1>8
    <3>2. QED
      BY <1>1, <3>1 DEF HardInv, IsRecord, HardFields
  <2>2. UNCHANGED <<seat, touch>> /\ UNCHANGED <<vk, ime>>
    BY <1>8 DEF soft
  <2>3. QED
    BY <1>1, <2>1, <2>2, SameSeat, SameSoft DEF PhoneInv
<1>9. CASE BackDown(h)
  <2>1. PICK V2, S2 : hard' = [h EXCEPT !.backUp = TRUE, !.via = V2, !.strayed = S2]
    BY <1>9 DEF BackDown
  <2>2. HardInv'
    BY <1>6, <1>7, <2>1 DEF HardInv, IsRecord, HardFields
  <2>3. LetGo /\ Send(LetGoSends) /\ UNCHANGED <<fingers, swipe, hw, active, padMode, captured, soft>>
    BY <1>9 DEF BackDown
  <2>4. Quiet(<<>>)
    BY KeySends
  <2>5. QED
    BY <1>1, <2>2, <2>3, <2>4, LetGoSent DEF PhoneInv
<1>10. CASE Down(k, h)
  <2>1. PICK b : hard' = [h EXCEPT !.backUp = b]
    BY <1>10 DEF Down
  <2>2. HardInv'
    BY <1>6, <1>7, <2>1 DEF HardInv, IsRecord, HardFields
  <2>3. \/ \E e : Quiet(e) /\ Keep(e)
        \/ Send(<<>>) /\ UNCHANGED <<touch, vk, ime>>
    <3>1. Quiet(<<>>) /\ Quiet(<<Press(Code(k, Way))>>)
      BY KeySends, KeysQuiet
    <3>2. QED
      BY <1>10, <3>1 DEF Down
  <2>4. CASE \E e : Quiet(e) /\ Keep(e)
    BY <1>1, <2>2, <2>4, KeptHolds DEF PhoneInv
  <2>5. CASE Send(<<>>) /\ UNCHANGED <<touch, vk, ime>>
    <3>1. KeysSent
      BY <2>5, KeySends DEF KeysSent
    <3>2. QED
      BY <1>1, <2>2, <2>5, <3>1, KeysHold, SameSoft DEF PhoneInv
  <2>6. QED
    BY <2>3, <2>4, <2>5
<1>11. QED
  BY <1>5, <1>8, <1>9, <1>10

LEMMA HwUpHolds ==
  ASSUME PhoneInv, Watch, HwUp
  PROVE  PhoneInv'
<1>1. TouchInv /\ SeatInv /\ SoftInv /\ HardInv /\ IsRecord(hard, HardFields) /\ IsFiniteSet(hard.given)
  BY DEF PhoneInv, HardInv
<1>2. PICK k, h, e :
        /\ \E K, V : h = [hard EXCEPT !.keys = K, !.given = hard.given \ {k}, !.via = V]
        /\ e = <<>> \/ e = <<Release(Code(k, Way))>>
        /\ \/ (\E S : hard' = [h EXCEPT !.strayed = S]) /\ UNCHANGED <<seat, touch, soft>>
           \/ (\E B, S : hard' = [h EXCEPT !.backUp = B, !.strayed = S]) /\ Keep(e)
  <2>1. PICK k : LET kept == k = "BACK" /\ hard.backUp
                     h == [hard EXCEPT !.keys = @ \ {k}, !.given = @ \ {k}, !.via = @ \ {k}]
                 IN IF Way = "elsewhere"
                    THEN /\ hard' = [h EXCEPT !.strayed = @ \cup {Code(i, "service") : i \in {k} \cap hard.via}]
                         /\ UNCHANGED <<seat, touch, soft>>
                    ELSE /\ hard' = [h EXCEPT !.backUp = @ /\ ~kept,
                             !.strayed = @ \cup ({Code(i, "service") : i \in {k} \cap hard.via} \ {Code(k, Way)})]
                         /\ Keep(IF kept THEN <<>> ELSE <<Release(Code(k, Way))>>)
    BY DEF HwUp
  <2>2. PICK h : h = [hard EXCEPT !.keys = hard.keys \ {k}, !.given = hard.given \ {k}, !.via = hard.via \ {k}]
    OBVIOUS
  <2>3. PICK S, B, S2 : /\ S = h.strayed \cup {Code(i, "service") : i \in {k} \cap hard.via}
                        /\ B = (h.backUp /\ ~(k = "BACK" /\ hard.backUp))
                        /\ S2 = h.strayed \cup ({Code(i, "service") : i \in {k} \cap hard.via} \ {Code(k, Way)})
    OBVIOUS
  <2>4. PICK e : e = IF k = "BACK" /\ hard.backUp THEN <<>> ELSE <<Release(Code(k, Way))>>
    OBVIOUS
  <2>5. \/ hard' = [h EXCEPT !.strayed = S] /\ UNCHANGED <<seat, touch, soft>>
        \/ hard' = [h EXCEPT !.backUp = B, !.strayed = S2] /\ Keep(e)
    BY <2>1, <2>2, <2>3, <2>4
  <2>6. e = <<>> \/ e = <<Release(Code(k, Way))>>
    BY <2>4
  <2>7. \/ (\E x : hard' = [h EXCEPT !.strayed = x]) /\ UNCHANGED <<seat, touch, soft>>
        \/ (\E y, x : hard' = [h EXCEPT !.backUp = y, !.strayed = x]) /\ Keep(e)
    BY <2>5
  <2>8. \E K, V : h = [hard EXCEPT !.keys = K, !.given = hard.given \ {k}, !.via = V]
    BY <2>2
  <2>9. QED
    BY <2>6, <2>7, <2>8
<1>3. IsFiniteSet(hard.given \ {k})
  BY <1>1, FS_RemoveElement
<1>4. IsRecord(h, HardFields) /\ h.given = hard.given \ {k}
  <2>1. PICK G, K, V : G = hard.given \ {k} /\ h = [hard EXCEPT !.keys = K, !.given = G, !.via = V]
    BY <1>2
  <2>2. QED
    BY <1>1, <2>1 DEF IsRecord, HardFields
<1>5. HardInv'
  BY <1>2, <1>3, <1>4 DEF HardInv, IsRecord, HardFields
<1>6. Quiet(e)
  BY <1>2, KeySends, KeysQuiet
<1>7. CASE UNCHANGED <<seat, touch, soft>>
  <2>1. UNCHANGED <<seat, touch>> /\ UNCHANGED <<vk, ime>>
    BY <1>7 DEF soft
  <2>2. QED
    BY <1>1, <1>5, <2>1, SameSeat, SameSoft DEF PhoneInv
<1>8. CASE Keep(e)
  BY <1>1, <1>5, <1>6, <1>8, KeptHolds DEF PhoneInv
<1>9. QED
  BY <1>2, <1>7, <1>8

LEMMA HardHolds ==
  ASSUME PhoneInv, Watch, HardStep
  PROVE  PhoneInv'
<1>1. TouchInv /\ SeatInv /\ SoftInv /\ HardInv /\ IsRecord(hard, HardFields) /\ IsFiniteSet(hard.given)
  BY DEF PhoneInv, HardInv
<1>2. CASE FocusLost
  <2>1. PICK gone : gone = {k \in hard.given : k = "BACK" => ~hard.backUp}
    OBVIOUS
  <2>2. PICK q : q = Each(Release, gone)
    OBVIOUS
  <2>3. /\ hard' = [hard EXCEPT !.given = {}, !.backUp = FALSE] /\ LetGo /\ Send(q \o LetGoSends)
        /\ UNCHANGED <<fingers, swipe, hw, active, padMode, captured, soft>>
    BY <1>2, <2>1, <2>2 DEF FocusLost
  <2>4. IsFiniteSet(gone)
    BY <1>1, <2>1, FS_Subset
  <2>5. Quiet(q)
    BY <2>2, <2>4, EachQuiet
  <2>6. HardInv'
    BY <1>1, <2>3, FS_EmptySet DEF HardInv, IsRecord, HardFields
  <2>7. QED
    BY <1>1, <2>3, <2>5, <2>6, LetGoSent DEF PhoneInv
<1>3. ASSUME SettingChanges \/ ServiceConnects PROVE PhoneInv'
  <2>1. UNCHANGED <<seat, touch>> /\ UNCHANGED <<vk, ime>>
    BY <1>3 DEF SettingChanges, ServiceConnects, soft
  <2>2. HardInv'
    BY <1>1, <1>3 DEF SettingChanges, ServiceConnects, HardInv, IsRecord, HardFields
  <2>3. QED
    BY <1>1, <2>1, <2>2, SameSeat, SameSoft DEF PhoneInv
<1>4. QED
  BY <1>2, <1>3, HwDownHolds, HwUpHolds DEF HardStep

\* Sessions come and go, the activity too.
LEMMA SessionHolds ==
  ASSUME TouchInv, SeatInv, Watch, UNCHANGED touch, SessionOpens \/ SessionLost
  PROVE  TouchInv' /\ SeatInv'
<1>1. TouchInv' /\ Believed' = Believed /\ fingers' = fingers
  BY SameTouch
<1>2. /\ straddled' \in BOOLEAN
      /\ ~straddled' => /\ OneDevice /\ (~up' => Believed' = {})
                        /\ losses' # losses => ~desk'.torn /\ Believed' = {}
                        /\ straddled => Believed = {} /\ ~desk'.torn
                        /\ up => desk.touch = Believed
                        /\ ~up => Believed = {}
  BY BelievedTouched, Watched
<1>3. OneDevice => (fingers.screen = {} \/ fingers.pad = {})'
  BY DEF OneDevice
<1>4. /\ IsDesk(desk) /\ desk.lifting = {} /\ desk.open = FALSE /\ losses \in Nat /\ up \in BOOLEAN
      /\ (~up => desk.touch = {}) /\ (~shown => ~up)
  BY DEF SeatInv
<1>5. PICK d : d = [desk EXCEPT !.torn = FALSE]
  OBVIOUS
<1>6. IsDesk(d) /\ d.touch = desk.touch /\ d.lifting = {} /\ d.open = FALSE /\ ~d.torn
  BY <1>4, <1>5, Mended
<1>7. CASE SessionOpens
  <2>1. shown /\ ~up /\ up' = TRUE /\ desk' = d /\ shown' = shown /\ losses' = losses
    BY <1>5, <1>7 DEF SessionOpens
  <2>2. desk'.touch = {} /\ IsDesk(desk') /\ desk'.lifting = {} /\ desk'.open = FALSE /\ ~desk'.torn
    BY <1>4, <1>6, <2>1
  <2>3. SeatInv'
    BY <1>1, <1>2, <1>3, <1>4, <2>1, <2>2 DEF SeatInv
  <2>4. QED
    BY <1>1, <2>3
<1>8. CASE SessionLost
  <2>1. losses' = losses + 1 /\ up' = FALSE /\ desk' = Fallen(d)
    BY <1>5, <1>8 DEF SessionLost
  <2>2. d = [d EXCEPT !.deaf = d.deaf]
    BY <1>6 DEF IsDesk, IsRecord, DeskFields
  <2>3. PICK y : y = d.deaf
    OBVIOUS
  <2>4. desk' = Fallen([d EXCEPT !.deaf = y])
    BY <2>1, <2>2, <2>3
  <2>5. IsDesk(desk') /\ desk'.touch = {} /\ desk'.lifting = {} /\ desk'.open = FALSE /\ desk'.torn = d.torn
    BY <1>6, <2>4, FallenIs
  <2>6. losses' \in Nat
    BY <1>4, <2>1
  <2>7. ~desk'.torn
    BY <1>6, <2>5
  <2>8. SeatInv'
    BY <1>2, <1>3, <2>1, <2>5, <2>6, <2>7 DEF SeatInv
  <2>9. QED
    BY <1>1, <2>8
<1>9. QED
  BY <1>7, <1>8

\* The activity comes back, without a session; and it goes.
LEMMA ResumeHolds ==
  ASSUME PhoneInv, Watch, Resume
  PROVE  PhoneInv'
<1>1. TouchInv /\ SeatInv /\ SoftInv /\ HardInv
  BY DEF PhoneInv
<1>2. /\ ~shown /\ shown' = TRUE /\ up' = FALSE /\ desk' = desk /\ losses' = losses /\ TouchResume
      /\ UNCHANGED soft /\ hard' = hard
  BY DEF Resume
<1>3. /\ padMode' \in BOOLEAN /\ (padMode' = padMode \/ fingers.screen = {})
      /\ UNCHANGED <<fingers, swipe, hw, active, tp, saved, latch, captured>>
  BY <1>1, <1>2 DEF TouchResume, TouchInv
<1>4. TouchInv'
  <2>1. fingers.screen = {} => active = {} /\ tp.screen.fwd = {}
    BY <1>1 DEF TouchInv, PadOK
  <2>2. QED
    BY <1>1, <1>3, <2>1 DEF TouchInv
<1>5. Believed' = Believed
  BY <1>3 DEF Believed
<1>6. /\ straddled' \in BOOLEAN
      /\ ~straddled' => /\ OneDevice /\ (~up' => Believed' = {})
                        /\ losses' # losses => ~desk'.torn /\ Believed' = {}
                        /\ straddled => Believed = {} /\ ~desk'.torn
                        /\ up => desk.touch = Believed
                        /\ ~up => Believed = {}
  BY <1>1, BelievedTouched, Watched
<1>7. OneDevice => (fingers.screen = {} \/ fingers.pad = {})'
  BY DEF OneDevice
<1>8. /\ IsDesk(desk) /\ desk.lifting = {} /\ desk.open = FALSE /\ losses \in Nat
      /\ desk.touch = {} /\ (desk.torn => straddled)
  BY <1>1, <1>2 DEF SeatInv
<1>9. desk'.torn => straddled'
  BY <1>2, <1>6, <1>8
<1>10. SeatInv'
  BY <1>2, <1>6, <1>7, <1>8, <1>9 DEF SeatInv
<1>11. SoftInv' /\ HardInv'
  BY <1>1, <1>2, SameSoft DEF soft, HardInv
<1>12. QED
  BY <1>4, <1>10, <1>11 DEF PhoneInv

LEMMA PauseHolds ==
  ASSUME PhoneInv, Watch, Pause \/ SurfaceChanged
  PROVE  PhoneInv'
<1>1. TouchInv /\ SeatInv /\ SoftInv /\ HardInv
  BY DEF PhoneInv
<1>2. Believed \subseteq fingers.screen \cup fingers.pad
  BY <1>1, BelievedTouched
<1>3. SoftInv'
  BY <1>1, SameSoft DEF Pause, SurfaceChanged, soft
<1>4. HardInv'
  BY <1>1 DEF Pause, SurfaceChanged, HardInv, IsRecord, HardFields
<1>5. CASE Pause
  <2>1. /\ captured' = FALSE /\ LetGo /\ SendAndStop(LetGoSends) /\ active' \in {{}, active}
        /\ UNCHANGED <<fingers, swipe, hw, padMode>>
    BY <1>5 DEF Pause, TouchPause
  <2>2. captured' \in BOOLEAN
    BY <2>1
  <2>3. TouchInv' /\ Makes(LetGoSends, {}, {}, tp.pad.fwd)
    BY <1>1, <2>1, <2>2, LetGoIs
  <2>4. PICK e, U : e = LetGoSends /\ U = tp.pad.fwd
    OBVIOUS
  <2>5. SendAndStop(e) /\ Makes(e, {}, {}, U)
    BY <2>1, <2>3, <2>4
  <2>6. {} \cap Believed = {} /\ {} \cup U \subseteq Believed \cup {}
    BY <2>4 DEF Believed
  <2>7. SeatInv'
    BY <1>1, <1>2, <2>5, <2>6, StopHolds
  <2>8. QED
    BY <1>3, <1>4, <2>3, <2>7 DEF PhoneInv
<1>6. CASE SurfaceChanged
  <2>1. SendAndStop(<<>>) /\ UNCHANGED touch
    BY <1>6 DEF SurfaceChanged
  <2>2. Makes(<<>>, {}, {}, {})
    BY KeySends, MakesNone
  <2>3. PICK e : e = <<>>
    OBVIOUS
  <2>4. SendAndStop(e) /\ Makes(e, {}, {}, {})
    BY <2>1, <2>2, <2>3
  <2>5. {} \cap Believed = {} /\ {} \cup {} \subseteq Believed \cup {}
    OBVIOUS
  <2>6. SeatInv'
    BY <1>1, <1>2, <2>4, <2>5, StopHolds
  <2>7. TouchInv'
    BY <1>1, <2>1, SameTouch
  <2>8. QED
    BY <1>3, <1>4, <2>6, <2>7 DEF PhoneInv
<1>7. QED
  BY <1>5, <1>6

\* What the clipboards do is not seen.
LEMMA ClipKeeps ==
  ASSUME PhoneInv, UNCHANGED <<shown, up, desk, touch, soft, hard, straddled>>, losses' \in Nat
  PROVE  PhoneInv'
<1>1. TouchInv /\ SeatInv /\ SoftInv /\ HardInv
  BY DEF PhoneInv
<1>2. UNCHANGED touch /\ UNCHANGED <<vk, ime>> /\ hard' = hard
  BY DEF soft
<1>3. TouchInv' /\ Believed' = Believed /\ fingers' = fingers
  BY <1>1, <1>2, SameTouch
<1>4. SeatInv'
  BY <1>1, <1>3 DEF SeatInv
<1>5. QED
  BY <1>1, <1>2, <1>3, <1>4, SameSoft DEF PhoneInv, HardInv

\* All of it holds at first, and each step keeps it.
LEMMA PhoneInvInit ==
  ASSUME Init
  PROVE  PhoneInv
<1>1. /\ fingers = [screen |-> {}, pad |-> {}] /\ hw = [mouse |-> {}, pad |-> {}]
      /\ active = {} /\ tp = [screen |-> Rest, pad |-> Rest]
      /\ saved = {} /\ padMode \in BOOLEAN /\ swipe = FALSE /\ captured = FALSE
  BY DEF Init, TouchInit
<1>2. PadOK(Rest, {}) /\ Rest.fwd = {} /\ IsFiniteSet({})
  BY RestIs, FS_EmptySet
<1>3. /\ fingers.screen = {} /\ fingers.pad = {} /\ hw.mouse = {} /\ hw.pad = {}
      /\ tp.screen = Rest /\ tp.pad = Rest
      /\ IsRecord(fingers, {"screen", "pad"}) /\ IsRecord(tp, {"screen", "pad"}) /\ IsRecord(hw, {"mouse", "pad"})
  BY <1>1 DEF IsRecord
<1>4. TouchInv
  BY <1>1, <1>2, <1>3 DEF TouchInv
<1>5. Believed = {}
  BY <1>1, <1>2, <1>3 DEF Believed
<1>6. SeatInv
  <2>1. PICK d \in Doings : desk = Desk(d.on)
    BY DEF Init, SeatInit
  <2>2. d.on \in {"kwin", "gnome"}
    BY <2>1, SeatAssumption
  <2>3. PICK o : o = d.on
    OBVIOUS
  <2>4. /\ IsRecord(desk, DeskFields) /\ desk.on = o /\ desk.touch = {} /\ desk.lifting = {}
        /\ desk.open = FALSE /\ desk.torn = FALSE
    BY <2>1, <2>3 DEF Desk, IsRecord, DeskFields
  <2>5. IsDesk(desk)
    BY <2>2, <2>3, <2>4 DEF IsDesk
  <2>6. shown = TRUE /\ up = FALSE /\ losses = 0 /\ straddled = FALSE
    BY DEF Init, SeatInit
  <2>7. QED
    BY <1>3, <1>5, <2>4, <2>5, <2>6 DEF SeatInv
<1>7. SoftInv
  <2>1. PICK on : vk = [on |-> on, at |-> <<>>, shiftL |-> FALSE, shiftR |-> FALSE, caps |-> FALSE]
    BY DEF Init, SoftInit
  <2>2. IsRecord(vk, VkFields) /\ vk.at = <<>>
    BY <2>1 DEF IsRecord, VkFields
  <2>3. DOMAIN vk.at = {}
    BY <2>2
  <2>4. ime = [mirror |-> <<>>, composing |-> <<>>, doc |-> <<>>, comp |-> 0, alone |-> TRUE,
                tangled |-> FALSE]
    BY DEF Init, SoftInit
  <2>5. IsIme(ime)
    BY <2>4, TextsMade DEF IsIme, IsRecord, ImeFields
  <2>6. QED
    BY <1>2, <2>2, <2>3, <2>5 DEF SoftInv, IsVk
<1>8. HardInv
  <2>1. hard \in [keys : {{}}, given : {{}}, via : {{}}, set : BOOLEAN, filters : BOOLEAN,
                  opens : BOOLEAN, backUp : {FALSE}, strayed : {{}}]
    BY DEF Init, HardInit
  <2>2. hard.given = {} /\ IsRecord(hard, HardFields)
    BY <2>1 DEF IsRecord, HardFields
  <2>3. QED
    BY <1>2, <2>2 DEF HardInv
<1>9. QED
  BY <1>4, <1>6, <1>7, <1>8 DEF PhoneInv

LEMMA PhoneInvNext ==
  ASSUME PhoneInv, [Next]_vars
  PROVE  PhoneInv'
<1>1. TouchInv /\ SeatInv /\ SoftInv /\ HardInv /\ losses \in Nat
  BY DEF PhoneInv, SeatInv
<1>2. CASE TouchStep /\ UNCHANGED <<focused, soft, hard>> /\ Watch
  <2>1. TouchInv' /\ SeatInv'
    BY <1>1, <1>2, TouchSteps
  <2>2. UNCHANGED <<vk, ime>> /\ hard' = hard
    BY <1>2 DEF soft
  <2>3. QED
    BY <1>1, <2>1, <2>2, SameSoft DEF PhoneInv, HardInv
<1>3. CASE SoftStep /\ UNCHANGED <<focused, touch, hard>> /\ Watch
  <2>1. SoftInv' /\ KeysSent
    BY <1>1, <1>3, SoftSteps
  <2>2. UNCHANGED touch /\ hard' = hard
    BY <1>3
  <2>3. TouchInv' /\ SeatInv'
    BY <1>1, <1>3, <2>1, <2>2, KeysHold
  <2>4. QED
    BY <1>1, <2>1, <2>2, <2>3 DEF PhoneInv, HardInv
<1>4. CASE HardStep /\ Watch
  BY <1>4, HardHolds
<1>5. CASE ClipStep /\ UNCHANGED <<touch, soft, hard, straddled, muddled>>
  <2>1. UNCHANGED <<shown, up, desk>> /\ losses' \in Nat
    <3>1. CASE PullFails
      BY <1>1, <3>1 DEF PullFails
    <3>2. CASE UNCHANGED seat
      BY <1>1, <3>2 DEF seat
    <3>3. QED
      BY <1>5, <3>1, <3>2 DEF ClipStep, PhoneCopy, ListenerRuns, RenderListens, RenderStarts, RenderReads,
                              RenderSends, EventTakes, EventSets, DesktopCopy, PullEnds, DesktopTakes
  <2>2. QED
    BY <1>5, <2>1, ClipKeeps
<1>6. CASE FocusGained /\ UNCHANGED <<touch, soft, hard, straddled, muddled>>
  <2>1. UNCHANGED <<shown, up, desk>> /\ losses' = losses
    BY <1>6 DEF FocusGained, seat
  <2>2. QED
    BY <1>1, <1>6, <2>1, ClipKeeps
<1>7. CASE (SessionOpens \/ SessionLost) /\ UNCHANGED <<focused, left, touch, soft, hard>> /\ Watch
  <2>1. TouchInv' /\ SeatInv'
    BY <1>1, <1>7, SessionHolds
  <2>2. UNCHANGED <<vk, ime>> /\ hard' = hard
    BY <1>7 DEF soft
  <2>3. QED
    BY <1>1, <2>1, <2>2, SameSoft DEF PhoneInv, HardInv
<1>8. CASE Resume /\ Watch
  BY <1>8, ResumeHolds
<1>9. CASE (Pause \/ SurfaceChanged) /\ Watch
  BY <1>9, PauseHolds
<1>10. CASE UNCHANGED vars
  <2>1. UNCHANGED <<shown, up, desk, touch, soft, hard, straddled>> /\ losses' = losses
    BY <1>10 DEF vars
  <2>2. QED
    BY <1>1, <2>1, ClipKeeps
<1>11. QED
  BY <1>2, <1>3, <1>4, <1>5, <1>6, <1>7, <1>8, <1>9, <1>10 DEF Next

\* The contacts of the desktop are those of the user's fingers, and each goes down, moves and
\* is lifted in that order: for any fingers, on the screen and on the touchpad, through gestures
\* that are handed over, captures lost, pauses, lost sessions and late frames.
THEOREM PhoneContacts == Spec => []ContactsTrue
<1>1. PhoneInv => ContactsTrue
  BY BelievedTouched DEF PhoneInv, SeatInv, ContactsTrue, NoStuckContact, TouchWellFormed
<1>2. QED
  BY PhoneInvInit, PhoneInvNext, <1>1, PTL DEF Spec

-----------------------------------------------------------------------------
(* Text: what the desktop makes of events that edit nothing.                *)

\* The keys that edit; no others, and no contacts, change the text.
Editing    == {"BACKSPACE", "ENTER"}
IsMute(ev) == ev = Frame \/ ev \in TouchEvents
              \/ (ev.type = "PRESS" /\ (ev.action = "down" => ev.what \notin Editing))
Mute(s)    == \E S : s \in Seq(S) /\ \A ev \in S : IsMute(ev)

\* None of them is down: Mutter drops the press of a key that is.
Clean(d)   == d.held \cap Editing = {}
SameText(d, e) == e.text = d.text /\ (Clean(d) => Clean(e))

\* What Mutter or KWin made of a call before, it did not hear of this event either.
LEMMA TakeHears ==
  ASSUME NEW d, IsRecord(d, DeskFields), NEW ev
  PROVE  IsRecord(Take(d, ev), DeskFields) /\ Take(d, ev).deaf = d.deaf
<1>1. CASE ev.type = "TOUCH"
  <2> DEFINE odd == (ev.what \in d.touch) = (ev.action = "down")
             a == d.torn \/ odd
             b == IF ev.action = "down" THEN d.touch \cup {ev.what}
                  ELSE IF ev.action = "up" /\ d.on = "kwin" THEN d.touch \ {ev.what} ELSE d.touch
             c == d.lifting \cup {id \in {ev.what} \cap d.touch : ev.action = "up" /\ d.on = "gnome"}
             o == d.open \/ (d.on = "gnome" /\ ~odd)
             e == [d EXCEPT !.torn = a, !.touch = b, !.lifting = c, !.open = o]
  <2>1. Take(d, ev) = e
    BY <1>1 DEF Take, TakeTouch, IsRecord, DeskFields
  <2> HIDE DEF a, b, c, o
  <2>2. QED
    BY <2>1 DEF IsRecord, DeskFields
<1>2. CASE ev.type = "FRAME"
  <2> DEFINE a == d.touch \ d.lifting
             e == [d EXCEPT !.touch = a, !.lifting = {}, !.open = FALSE]
  <2>1. Take(d, ev) = e
    BY <1>2 DEF Take, TakeFrame
  <2> HIDE DEF a
  <2>2. QED
    BY <2>1 DEF IsRecord, DeskFields
<1>3. CASE ev.type = "PRESS"
  <2> DEFINE h == IF ev.action = "down" THEN d.held \cup {ev.what} ELSE d.held \ {ev.what}
             x == CASE ev = Press("BACKSPACE") /\ d.text # <<>> -> Front(d.text)
                    [] ev = Press("ENTER")                     -> Append(d.text, "ENTER")
                    [] OTHER                                   -> d.text
             s == d.stale \ {ev.what}
  <2>1. Take(d, ev) = TakePress(d, ev)
    BY <1>3 DEF Take
  <2>2. TakePress(d, ev) = d \/ TakePress(d, ev) = [d EXCEPT !.held = h, !.stale = s, !.text = x]
    BY DEF TakePress
  <2> HIDE DEF h, x, s
  <2>3. QED
    BY <2>1, <2>2 DEF IsRecord, DeskFields
<1>4. CASE ev.type \notin {"TOUCH", "FRAME", "PRESS"}
  <2> DEFINE x == d.text \o ev.what
  <2>1. Take(d, ev) = [d EXCEPT !.text = x]
    BY <1>4 DEF Take, TakeText
  <2> HIDE DEF x
  <2>2. QED
    BY <2>1 DEF IsRecord, DeskFields
<1>5. QED
  BY <1>1, <1>2, <1>3, <1>4

\* One such event.
LEMMA MuteIs ==
  ASSUME NEW d, IsRecord(d, DeskFields), NEW ev, IsMute(ev)
  PROVE  SameText(d, Take(d, ev))
<1>1. CASE ev \in TouchEvents
  <2>1. ev.type = "TOUCH"
    BY <1>1 DEF TouchEvents, Touch
  <2> DEFINE odd == (ev.what \in d.touch) = (ev.action = "down")
             a == d.torn \/ odd
             b == IF ev.action = "down" THEN d.touch \cup {ev.what}
                  ELSE IF ev.action = "up" /\ d.on = "kwin" THEN d.touch \ {ev.what} ELSE d.touch
             c == d.lifting \cup {id \in {ev.what} \cap d.touch : ev.action = "up" /\ d.on = "gnome"}
             o == d.open \/ (d.on = "gnome" /\ ~odd)
             e == [d EXCEPT !.torn = a, !.touch = b, !.lifting = c, !.open = o]
  <2>2. Take(d, ev) = e
    BY <2>1 DEF Take, TakeTouch, IsRecord, DeskFields
  <2> HIDE DEF a, b, c, o
  <2>3. Take(d, ev).text = d.text /\ Take(d, ev).held = d.held
    BY <2>2 DEF IsRecord, DeskFields
  <2>4. QED
    BY <2>3 DEF SameText, Clean
<1>2. CASE ev = Frame
  <2> DEFINE a == d.touch \ d.lifting
             e == [d EXCEPT !.touch = a, !.lifting = {}, !.open = FALSE]
  <2>1. Take(d, ev) = e
    BY <1>2 DEF Take, TakeFrame, Frame
  <2> HIDE DEF a
  <2>2. Take(d, ev).text = d.text /\ Take(d, ev).held = d.held
    BY <2>1 DEF IsRecord, DeskFields
  <2>3. QED
    BY <2>2 DEF SameText, Clean
<1>3. CASE ev.type = "PRESS" /\ (ev.action = "down" => ev.what \notin Editing)
  <2> DEFINE h == IF ev.action = "down" THEN d.held \cup {ev.what} ELSE d.held \ {ev.what}
             x == CASE ev = Press("BACKSPACE") /\ d.text # <<>> -> Front(d.text)
                    [] ev = Press("ENTER")                     -> Append(d.text, "ENTER")
                    [] OTHER                                   -> d.text
             s == d.stale \ {ev.what}
  <2>1. Take(d, ev) = TakePress(d, ev)
    BY <1>3 DEF Take
  <2>2. TakePress(d, ev) = d \/ TakePress(d, ev) = [d EXCEPT !.held = h, !.stale = s, !.text = x]
    BY DEF TakePress
  <2>3. x = d.text
    BY <1>3 DEF Press, Editing
  <2>4. d.held \cap Editing = {} => h \cap Editing = {}
    BY <1>3
  <2> HIDE DEF h, x, s
  <2>5. Take(d, ev) = d \/ (Take(d, ev).held = h /\ Take(d, ev).text = x)
    BY <2>1, <2>2 DEF IsRecord, DeskFields
  <2>6. QED
    BY <2>3, <2>4, <2>5 DEF SameText, Clean
<1>4. QED
  BY <1>1, <1>2, <1>3 DEF IsMute

\* After any events: what was not taken before is not taken then.
LEMMA TakenHears ==
  ASSUME NEW d, IsRecord(d, DeskFields), NEW evs, Len(evs) \in Nat
  PROVE  IsRecord(TakenBy(d, evs), DeskFields) /\ TakenBy(d, evs).deaf = d.deaf
<1> DEFINE t == Trace(d, evs)
           l == Len(evs)
           Good(n) == IsRecord(t[n], DeskFields) /\ t[n].deaf = d.deaf
           T == {n \in 0..l : ~Good(n)}
<1>1. l \in Nat /\ t[0] = d /\ \A n \in 1..l : t[n] = Take(t[n - 1], evs[n])
  BY TraceIs
<1> HIDE DEF t
<1>2. T = {}
  <2>1. SUFFICES ASSUME T # {} PROVE FALSE
    OBVIOUS
  <2>2. T \in SUBSET Nat
    BY <1>1
  <2> HIDE DEF l
  <2>3. PICK n \in T : \A k \in T : n <= k
    BY <2>1, <2>2, Least
  <2>4. n # 0
    BY <1>1
  <2>5. n \in 1..l /\ n - 1 \in 0..l
    BY <1>1, <2>3, <2>4
  <2>6. n - 1 \notin T
    BY <2>3, <2>5
  <2>7. Good(n - 1) /\ t[n] = Take(t[n - 1], evs[n])
    BY <1>1, <2>5, <2>6
  <2>8. Good(n)
    BY <2>7, TakeHears
  <2>9. QED
    BY <2>3, <2>8
<1>3. Good(l)
  BY <1>1, <1>2
<1>4. QED
  BY <1>3 DEF TakenBy, t

\* Events that are mute change no text.
LEMMA MuteTaken ==
  ASSUME NEW d, IsRecord(d, DeskFields), NEW evs, Mute(evs)
  PROVE  SameText(d, TakenBy(d, evs))
<1> DEFINE t == Trace(d, evs)
           l == Len(evs)
           Good(n) == IsRecord(t[n], DeskFields) /\ SameText(d, t[n])
           T == {n \in 0..l : ~Good(n)}
<1>0. PICK S : evs \in Seq(S) /\ \A ev \in S : IsMute(ev)
  BY DEF Mute
<1>1. l \in Nat /\ t[0] = d /\ \A n \in 1..l : t[n] = Take(t[n - 1], evs[n]) /\ IsMute(evs[n])
  BY <1>0, TraceIs, ElementOfSeq, LenProperties
<1> HIDE DEF t
<1>2. T = {}
  <2>1. SUFFICES ASSUME T # {} PROVE FALSE
    OBVIOUS
  <2>2. T \in SUBSET Nat
    BY <1>1
  <2> HIDE DEF l
  <2>3. PICK n \in T : \A k \in T : n <= k
    BY <2>1, <2>2, Least
  <2>4. n # 0
    BY <1>1 DEF SameText
  <2>5. n \in 1..l /\ n - 1 \in 0..l
    BY <1>1, <2>3, <2>4
  <2>6. n - 1 \notin T
    BY <2>3, <2>5
  <2>7. Good(n - 1) /\ t[n] = Take(t[n - 1], evs[n]) /\ IsMute(evs[n])
    BY <1>1, <2>5, <2>6
  <2>8. IsRecord(t[n], DeskFields) /\ SameText(t[n - 1], t[n])
    BY <2>7, TakeHears, MuteIs
  <2>9. QED
    BY <2>3, <2>7, <2>8 DEF SameText
<1>3. Good(l)
  BY <1>1, <1>2
<1>4. QED
  BY <1>3 DEF TakenBy, t

\* What a call leaves of the text, if all of it was taken.
Heard(e) ==
  /\ ~desk.deaf /\ desk'.text = TakenBy([desk EXCEPT !.torn = FALSE], e).text
  /\ Clean(TakenBy([desk EXCEPT !.torn = FALSE], e)) => Clean(desk')

\* A session that falls leaves the text.
LEMMA FallenText ==
  ASSUME NEW d, IsRecord(d, DeskFields), NEW y
  PROVE  LET e == Fallen([d EXCEPT !.deaf = y]) IN e.deaf = y /\ e.text = d.text /\ (Clean(d) => Clean(e))
<1> DEFINE c == [d EXCEPT !.deaf = y]
           a == [c EXCEPT !.touch = {}, !.lifting = {}, !.open = FALSE]
           s == IF c.on = "kwin" THEN c.held ELSE {}
           h == IF c.on = "kwin" THEN a.held ELSE {}
           e == [a EXCEPT !.stale = s, !.held = h]
<1>1. IsRecord(c, DeskFields) /\ c.deaf = y /\ c.text = d.text /\ c.held = d.held
  BY DEF IsRecord, DeskFields
<1> HIDE DEF c
<1>2. IsRecord(a, DeskFields) /\ a.deaf = y /\ a.text = d.text /\ a.held = d.held
  BY <1>1 DEF IsRecord, DeskFields
<1>3. AllLifted(c) = a
  BY DEF AllLifted
<1>4. Fallen(c) = e
  <2> HIDE DEF a
  <2>1. "held" \in DOMAIN a /\ "stale" \in DOMAIN a
    BY <1>2 DEF IsRecord, DeskFields
  <2>2. [a EXCEPT !.stale = s, !.held = IF c.on = "kwin" THEN @ ELSE {}] = e
    BY <2>1
  <2>3. QED
    BY <1>3, <2>2 DEF Fallen
<1> HIDE DEF a
<1>5. h \cap Editing = {} \/ (h = d.held)
  BY <1>2
<1> HIDE DEF s, h
<1>6. e.deaf = y /\ e.text = d.text /\ e.held = h
  BY <1>2 DEF IsRecord, DeskFields
<1>7. QED
  BY <1>4, <1>5, <1>6 DEF Clean, c

\* Whoever is not deaf after a call has taken all of it.
LEMMA SentHeard ==
  ASSUME IsDesk(desk), up \in BOOLEAN, NEW e, List(e), Send(e) \/ SendAndStop(e), ~desk'.deaf
  PROVE  Heard(e)
<1> DEFINE d == [desk EXCEPT !.torn = FALSE]
           z == TakenBy(d, e)
<1>1. Len(e) \in Nat /\ \E S : e \in Seq(S)
  BY ListFacts DEF List
<1>2. IsRecord(d, DeskFields) /\ d.deaf = desk.deaf /\ d.text = desk.text /\ d.held = desk.held
  BY DEF IsDesk, IsRecord, DeskFields
<1>3. \A s : Taken(s) = TakenBy(d, s)
  BY DEF Taken
<1> HIDE DEF d
<1>4. IsRecord(z, DeskFields) /\ z.deaf = d.deaf
  BY <1>1, <1>2, TakenHears
<1>5. ASSUME NEW n \in 0..Len(e)
      PROVE  /\ Len(SubSeq(e, 1, n)) \in Nat
             /\ IsRecord(Taken(SubSeq(e, 1, n)), DeskFields) /\ Taken(SubSeq(e, 1, n)).deaf = d.deaf
  <2>1. List(SubSeq(e, 1, n))
    BY <1>1, TakenApart
  <2>2. Len(SubSeq(e, 1, n)) \in Nat
    BY <2>1, ListFacts
  <2>3. QED
    BY <1>2, <1>3, <2>2, TakenHears
<1>6. CASE up /\ desk' = Taken(e)
  BY <1>2, <1>3, <1>4, <1>6 DEF Heard, d, z
<1>7. CASE desk' = [desk EXCEPT !.torn = FALSE, !.deaf = @ \/ e # <<>>]
  <2>1. PICK y : y = (desk.deaf \/ e # <<>>)
    OBVIOUS
  <2>2. desk' = [desk EXCEPT !.torn = FALSE, !.deaf = y]
    <3>1. "deaf" \in DOMAIN desk
      BY DEF IsDesk, IsRecord, DeskFields
    <3>2. QED
      BY <1>7, <2>1, <3>1
  <2>3. desk'.deaf = y /\ desk'.text = desk.text /\ desk'.held = desk.held
    BY <2>2 DEF IsDesk, IsRecord, DeskFields
  <2>4. ~desk.deaf /\ e = <<>>
    BY <2>1, <2>3
  <2>5. z = d
    <3>1. PICK f : f = e
      OBVIOUS
    <3>2. Len(f) = 0
      BY <2>4, <3>1
    <3>3. TakenBy(d, f) = d
      BY <3>2, TraceIs DEF TakenBy
    <3>4. QED
      BY <3>1, <3>3
  <2>6. QED
    BY <1>2, <2>3, <2>4, <2>5 DEF Heard, Clean, d, z
<1>8. CASE \E n \in 0 .. Len(e) - 1 : desk' = Fallen([Taken(SubSeq(e, 1, n)) EXCEPT !.deaf = TRUE])
  <2>1. PICK n \in 0 .. Len(e) - 1 : desk' = Fallen([Taken(SubSeq(e, 1, n)) EXCEPT !.deaf = TRUE])
    BY <1>8
  <2>2. n \in 0..Len(e)
    BY <1>1
  <2>3. desk'.deaf = TRUE
    BY <1>5, <2>1, <2>2, FallenText
  <2>4. QED
    BY <2>3
<1>9. CASE \E n \in 1 .. Len(e) - 1 : desk' = TakenLate(e, n)
  <2>1. PICK n \in 1 .. Len(e) - 1 : desk' = TakenLate(e, n)
    BY <1>9
  <2>2. n \in 0..Len(e)
    BY <1>1
  <2>3. PICK k : k = Taken(SubSeq(e, 1, n))
    OBVIOUS
  <2>4. IsRecord(k, DeskFields)
    BY <1>5, <2>2, <2>3
  <2>5. PICK a : a = AllLifted(k)
    OBVIOUS
  <2>6. IsRecord(a, DeskFields)
    BY <2>4, <2>5 DEF AllLifted, IsRecord, DeskFields
  <2>7. PICK b : b = [a EXCEPT !.deaf = TRUE]
    OBVIOUS
  <2>8. IsRecord(b, DeskFields) /\ b.deaf = TRUE
    BY <2>6, <2>7 DEF IsRecord, DeskFields
  <2>9. PICK s : s = SubSeq(e, n + 1, Len(e))
    OBVIOUS
  <2>10. desk' = TakenBy(b, s)
    BY <2>1, <2>3, <2>5, <2>7, <2>9 DEF TakenLate
  <2>11. Len(s) \in Nat
    BY <1>1, <2>2, <2>9, TakenApart, ListFacts
  <2>12. desk'.deaf = TRUE
    BY <2>8, <2>10, <2>11, TakenHears
  <2>13. QED
    BY <2>12
<1>10. CASE \E n \in 0 .. Len(e) : desk' = Fallen([Taken(SubSeq(e, 1, n)) EXCEPT !.deaf = @ \/ n < Len(e)])
  <2>1. PICK n \in 0 .. Len(e) : desk' = Fallen([Taken(SubSeq(e, 1, n)) EXCEPT !.deaf = @ \/ n < Len(e)])
    BY <1>10
  <2>2. PICK k : k = Taken(SubSeq(e, 1, n))
    OBVIOUS
  <2>3. IsRecord(k, DeskFields) /\ k.deaf = d.deaf
    BY <1>5, <2>2
  <2>4. PICK y : y = (k.deaf \/ n < Len(e))
    OBVIOUS
  <2>5. desk' = Fallen([k EXCEPT !.deaf = y])
    <3>1. "deaf" \in DOMAIN k
      BY <2>3 DEF IsRecord, DeskFields
    <3>2. QED
      BY <2>1, <2>2, <2>4, <3>1
  <2>6. desk'.deaf = y /\ desk'.text = k.text /\ (Clean(k) => Clean(desk'))
    BY <2>3, <2>5, FallenText
  <2>7. ~k.deaf /\ ~(n < Len(e))
    BY <2>4, <2>6
  <2>8. n = Len(e)
    BY <1>1, <2>7
  <2>9. SubSeq(e, 1, n) = e
    BY <1>1, <2>8
  <2>10. QED
    BY <1>2, <1>3, <2>2, <2>3, <2>6, <2>7, <2>9 DEF Heard, d
<1>11. QED
  <2>1. CASE Send(e)
    BY <1>6, <1>7, <1>8, <1>9, <2>1 DEF Send
  <2>2. CASE SendAndStop(e)
    BY <1>7, <1>10, <2>2 DEF SendAndStop
  <2>3. QED
    BY <2>1, <2>2

-----------------------------------------------------------------------------
(* Texts, put together and taken apart.                                     *)

\* The beginning of a list, and its end.
LEMMA PartsOf ==
  ASSUME NEW S, NEW s \in Seq(S), NEW k \in 0..Len(s)
  PROVE  /\ SubSeq(s, 1, k) \in Seq(S) /\ Len(SubSeq(s, 1, k)) = k
         /\ \A i \in 1..k : SubSeq(s, 1, k)[i] = s[i]
         /\ SubSeq(s, k + 1, Len(s)) \in Seq(S) /\ Len(SubSeq(s, k + 1, Len(s))) = Len(s) - k
         /\ \A i \in 1..Len(s) - k : SubSeq(s, k + 1, Len(s))[i] = s[k + i]
<1> DEFINE a == SubSeq(s, 1, k)
           l == Len(s)
           b == SubSeq(s, k + 1, l)
<1>1. l \in Nat /\ k \in Nat /\ k <= l /\ \A i \in 1..l : s[i] \in S
  BY LenProperties, ElementOfSeq
<1>2. k + 1 \in Int /\ \A i \in k + 1..l : s[i] \in S
  BY <1>1
<1>3. \A i \in 1..k : s[i] \in S
  BY <1>1
<1>4. /\ a \in Seq(S) /\ Len(a) = k
      /\ \A i \in 1..k : a[i] = s[i]
  <2>1. /\ a \in Seq(S) /\ Len(a) = IF 1 <= k THEN k - 1 + 1 ELSE 0
        /\ \A i \in 1..k - 1 + 1 : a[i] = s[1 + i - 1]
    BY <1>1, <1>3, SubSeqProperties
  <2>2. QED
    BY <1>1, <2>1
<1>5. /\ b \in Seq(S) /\ Len(b) = l - k
      /\ \A i \in 1..l - k : b[i] = s[k + i]
  <2>1. /\ b \in Seq(S) /\ Len(b) = IF k + 1 <= l THEN l - (k + 1) + 1 ELSE 0
        /\ \A i \in 1..l - (k + 1) + 1 : b[i] = s[k + 1 + i - 1]
    BY <1>1, <1>2, SubSeqProperties
  <2> HIDE DEF b, l
  <2>2. l - (k + 1) + 1 = l - k /\ \A i \in 1..l - k : k + 1 + i - 1 = k + i
    BY <1>1
  <2>3. Len(b) = l - k
    BY <1>1, <2>1
  <2>4. \A i \in 1..l - k : b[i] = s[k + i]
    BY <2>1, <2>2
  <2>5. QED
    BY <2>1, <2>3, <2>4
<1>6. QED
  BY <1>4, <1>5

\* It does not matter what is put together first.
LEMMA JoinedTo ==
  ASSUME NEW S, NEW a \in Seq(S), NEW b \in Seq(S), NEW c \in Seq(S), NEW w, w = b \o c
  PROVE  (a \o b) \o c = a \o w
BY ConcatAssociative

\* The end of what was put together, and what is left without it.
LEMMA EndOfText ==
  ASSUME NEW S, NEW a \in Seq(S), NEW b \in Seq(S), NEW n \in 0..Len(b)
  PROVE  /\ DropLast(a \o b, n) = a \o DropLast(b, n)
         /\ LastOf(a \o b, n) = LastOf(b, n)
<1> DEFINE c == a \o b
           p == DropLast(b, n)
           u == DropLast(c, n)
           q == LastOf(b, n)
           v == LastOf(c, n)
<1>1. PICK x, y : x = Len(a) /\ y = Len(b)
  OBVIOUS
<1>2. x \in Nat /\ y \in Nat /\ n \in Nat /\ n <= y
  BY <1>1, LenProperties
<1>3. /\ c \in Seq(S) /\ Len(c) = x + y /\ \A i \in 1..x + y : c[i] = IF i <= x THEN a[i] ELSE b[i - x]
  BY <1>1, ConcatProperties
<1> HIDE DEF c
<1>4. /\ p \in Seq(S) /\ Len(p) = y - n /\ \A i \in 1..y - n : p[i] = b[i]
      /\ q \in Seq(S) /\ Len(q) = n /\ \A i \in 1..n : q[i] = b[(y - n) + i]
  <2>1. PICK k : k = y - n
    OBVIOUS
  <2>2. k \in 0..Len(b) /\ Len(b) - k = n
    BY <1>1, <1>2, <2>1
  <2>3. p = SubSeq(b, 1, k) /\ q = SubSeq(b, k + 1, Len(b))
    BY <1>1, <2>1 DEF DropLast, LastOf
  <2> HIDE DEF p, q
  <2>4. QED
    BY <2>1, <2>2, <2>3, PartsOf
<1>5. /\ u \in Seq(S) /\ Len(u) = x + y - n /\ \A i \in 1..x + y - n : u[i] = c[i]
      /\ v \in Seq(S) /\ Len(v) = n /\ \A i \in 1..n : v[i] = c[(x + y - n) + i]
  <2>1. PICK k, l : k = x + y - n /\ l = x + y
    OBVIOUS
  <2>2. k \in 0..l /\ l - k = n /\ l - n = k /\ k \in Nat
    BY <1>2, <2>1
  <2>3. Len(c) = l
    BY <1>3, <2>1
  <2>4. u = SubSeq(c, 1, k)
    BY <2>2, <2>3 DEF DropLast
  <2>5. v = SubSeq(c, k + 1, l)
    BY <2>2, <2>3 DEF LastOf
  <2> HIDE DEF u, v
  <2>6. PICK f : f = c
    OBVIOUS
  <2>7. f \in Seq(S) /\ k \in 0..Len(f) /\ Len(f) = l
    BY <1>3, <2>2, <2>3, <2>6
  <2>8. /\ SubSeq(f, 1, k) \in Seq(S) /\ Len(SubSeq(f, 1, k)) = k
        /\ \A i \in 1..k : SubSeq(f, 1, k)[i] = f[i]
        /\ SubSeq(f, k + 1, Len(f)) \in Seq(S) /\ Len(SubSeq(f, k + 1, Len(f))) = Len(f) - k
        /\ \A i \in 1..Len(f) - k : SubSeq(f, k + 1, Len(f))[i] = f[k + i]
    BY <2>7, PartsOf
  <2>9. u = SubSeq(f, 1, k) /\ v = SubSeq(f, k + 1, Len(f))
    BY <2>4, <2>5, <2>6, <2>7
  <2>10. /\ u \in Seq(S) /\ Len(u) = k /\ \A i \in 1..k : u[i] = c[i]
         /\ v \in Seq(S) /\ Len(v) = l - k /\ \A i \in 1..l - k : v[i] = c[k + i]
    BY <2>6, <2>7, <2>8, <2>9
  <2>11. QED
    BY <2>1, <2>2, <2>10
<1> HIDE DEF p, q, u, v
<1>6. u = a \o p
  <2>1. PICK w, g, z : w = a \o g /\ g = p /\ z = y - n
    OBVIOUS
  <2>a. g \in Seq(S) /\ Len(g) = z /\ Len(a) = x
    BY <1>1, <1>4, <2>1
  <2>b. /\ a \o g \in Seq(S) /\ Len(a \o g) = Len(a) + Len(g)
        /\ \A i \in 1..Len(a) + Len(g) : (a \o g)[i] = IF i <= Len(a) THEN a[i] ELSE g[i - Len(a)]
    BY <2>a, ConcatProperties
  <2>2. /\ w \in Seq(S) /\ Len(w) = x + (y - n)
        /\ \A i \in 1..x + (y - n) : w[i] = IF i <= x THEN a[i] ELSE p[i - x]
    BY <2>a, <2>b, <2>1
  <2>3. ASSUME NEW i \in 1..x + y - n PROVE u[i] = w[i]
    <3>1. i \in 1..x + y /\ i \in 1..x + (y - n) /\ (~(i <= x) => i - x \in 1..y - n)
      BY <1>2
    <3>2. u[i] = IF i <= x THEN a[i] ELSE b[i - x]
      BY <1>3, <1>5, <3>1
    <3>3. w[i] = IF i <= x THEN a[i] ELSE p[i - x]
      BY <2>2, <3>1
    <3>4. QED
      BY <1>4, <3>1, <3>2, <3>3
  <2>4. Len(u) = Len(w)
    BY <1>2, <1>5, <2>2
  <2>5. u = w
    BY <1>5, <2>2, <2>3, <2>4, SeqEqual
  <2>6. QED
    BY <2>1, <2>5
<1>7. v = q
  <2>1. ASSUME NEW i \in 1..n PROVE v[i] = q[i]
    <3>1. (x + y - n) + i \in 1..x + y /\ ~((x + y - n) + i <= x) /\ ((x + y - n) + i) - x = (y - n) + i
      BY <1>2
    <3>2. QED
      BY <1>3, <1>4, <1>5, <3>1
  <2>2. QED
    BY <1>4, <1>5, <2>1, SeqEqual
<1>8. QED
  BY <1>6, <1>7 DEF c, p, q, u, v

\* None of a text, and all of it.
LEMMA WholeText ==
  ASSUME NEW S, NEW a \in Seq(S)
  PROVE  /\ DropLast(a, 0) = a /\ DropLast(a, Len(a)) = <<>> /\ LastOf(a, Len(a)) = a
         /\ \A n \in 0..Len(a) : /\ DropLast(a, n) \in Seq(S) /\ Len(DropLast(a, n)) = Len(a) - n
                                 /\ LastOf(a, n) \in Seq(S) /\ Len(LastOf(a, n)) = n
                                 /\ DropLast(a, n) \o LastOf(a, n) = a
                                 /\ DropLast(a, n) \in Prefixes(a)
<1> DEFINE l == Len(a)
<1>1. l \in Nat /\ Len(<<>>) = 0 /\ <<>> \in Seq(S)
  BY LenProperties, EmptySeq
<1>2. ASSUME NEW n \in 0..l
      PROVE  /\ DropLast(a, n) \in Seq(S) /\ Len(DropLast(a, n)) = l - n
             /\ LastOf(a, n) \in Seq(S) /\ Len(LastOf(a, n)) = n
             /\ DropLast(a, n) \o LastOf(a, n) = a
             /\ DropLast(a, n) \in Prefixes(a)
  <2>1. PICK k : k = l - n
    OBVIOUS
  <2>2. k \in 0..l /\ l - k = n
    BY <1>1, <2>1
  <2>3. DropLast(a, n) = SubSeq(a, 1, k) /\ LastOf(a, n) = SubSeq(a, k + 1, l)
    BY <2>1 DEF DropLast, LastOf
  <2>4. SubSeq(a, 1, k) \o SubSeq(a, k + 1, l) = SubSeq(a, 1, l) /\ SubSeq(a, 1, l) = a
    <3>1. 1 \in 1..l + 1 /\ k \in 1 - 1..l /\ l \in k..l
      BY <1>1, <2>2
    <3>2. QED
      BY <3>1, ConcatAdjacentSubSeq, SubSeqFull
  <2>5. SubSeq(a, 1, k) \in Prefixes(a)
    BY <2>2 DEF Prefixes
  <2>6. k \in 0..Len(a)
    BY <2>2
  <2>7. /\ SubSeq(a, 1, k) \in Seq(S) /\ Len(SubSeq(a, 1, k)) = k
        /\ SubSeq(a, k + 1, l) \in Seq(S) /\ Len(SubSeq(a, k + 1, l)) = n
    BY <2>2, <2>6, PartsOf
  <2>8. DropLast(a, n) \o LastOf(a, n) = a
    BY <2>3, <2>4
  <2>9. QED
    BY <2>1, <2>3, <2>5, <2>7, <2>8
<1>3. DropLast(a, 0) = a
  <2>1. l - 0 = l
    BY <1>1
  <2>2. QED
    BY <2>1, SubSeqFull DEF DropLast
<1>4. DropLast(a, l) = <<>>
  <2>1. l \in 0..l /\ l - l = 0
    BY <1>1
  <2>2. DropLast(a, l) \in Seq(S) /\ Len(DropLast(a, l)) = 0
    BY <1>2, <2>1
  <2>3. QED
    BY <2>2, EmptySeq
<1>5. LastOf(a, l) = a
  <2>1. l - l + 1 = 1
    BY <1>1
  <2>2. QED
    BY <2>1, SubSeqFull DEF LastOf
<1>6. QED
  BY <1>2, <1>3, <1>4, <1>5

\* Without what was put last, all that was before.
LEMMA WithoutLast ==
  ASSUME NEW S, NEW a \in Seq(S), NEW b \in Seq(S)
  PROVE  DropLast(a \o b, Len(b)) = a /\ LastOf(a \o b, Len(b)) = b /\ a \in Prefixes(a \o b)
<1>1. Len(b) \in 0..Len(b) /\ Len(a \o b) = Len(a) + Len(b) /\ Len(a) \in Nat /\ Len(b) \in Nat /\ a \o b \in Seq(S)
  BY ConcatProperties, LenProperties
<1>2. DropLast(a \o b, Len(b)) = a \o <<>> /\ LastOf(a \o b, Len(b)) = b
  <2>1. PICK n : n = Len(b)
    OBVIOUS
  <2>2. n \in 0..Len(b)
    BY <1>1, <2>1
  <2>3. DropLast(a \o b, n) = a \o DropLast(b, n) /\ LastOf(a \o b, n) = LastOf(b, n)
    BY <2>2, EndOfText
  <2>4. DropLast(b, n) = <<>> /\ LastOf(b, n) = b
    BY <2>1, WholeText
  <2>5. QED
    BY <2>1, <2>3, <2>4
<1>3. a \o <<>> = a
  BY ConcatEmptySeq
<1>4. PICK c, n : c = a \o b /\ n = Len(b)
  OBVIOUS
<1>5. c \in Seq(S) /\ n \in 0..Len(c) /\ DropLast(c, n) = a
  BY <1>1, <1>2, <1>3, <1>4
<1>6. a \in Prefixes(c)
  BY <1>5, WholeText
<1>7. QED
  BY <1>2, <1>3, <1>4, <1>6

\* Another ending, from where two texts differ.
Alike(S, c, s, p, x, y) ==
  /\ c \in Seq(S) /\ s \in Seq(S) /\ p \in 0..Len(c) /\ p <= Len(s) /\ SubSeq(c, 1, p) = SubSeq(s, 1, p)
  /\ x = Len(c) - p /\ y = Len(s) - p

LEMMA OtherEnd ==
  ASSUME NEW S, NEW c, NEW s, NEW p, NEW x, NEW y, Alike(S, c, s, p, x, y),
         NEW a \in Seq(S)
  PROVE  DropLast(a \o c, x) \o LastOf(s, y) = a \o s
<1>1. /\ c \in Seq(S) /\ s \in Seq(S) /\ p \in 0..Len(c) /\ p <= Len(s)
      /\ SubSeq(c, 1, p) = SubSeq(s, 1, p) /\ x = Len(c) - p /\ y = Len(s) - p
  BY DEF Alike
<1>2. x \in 0..Len(c) /\ y \in 0..Len(s) /\ Len(c) - x = p /\ Len(s) - y = p
  BY <1>1, LenProperties
<1>3. DropLast(a \o c, x) = a \o DropLast(c, x)
  <2>1. c \in Seq(S) /\ x \in 0..Len(c)
    BY <1>1, <1>2
  <2>2. QED
    BY <2>1, EndOfText
<1>4. DropLast(c, x) = DropLast(s, y)
  BY <1>1, <1>2 DEF DropLast
<1>5. PICK u, v : u = DropLast(s, y) /\ v = LastOf(s, y)
  OBVIOUS
<1>6. u \in Seq(S) /\ v \in Seq(S) /\ u \o v = s
  BY <1>1, <1>2, <1>5, WholeText
<1>7. (a \o u) \o v = a \o s
  <2>1. u \in Seq(S) /\ v \in Seq(S) /\ s = u \o v
    BY <1>6
  <2>2. QED
    BY <2>1, JoinedTo
<1>8. QED
  BY <1>3, <1>4, <1>5, <1>7

-----------------------------------------------------------------------------
(* Text: what the desktop makes of an edit.                                 *)

\* What a text is made of.  An Enter is one of the strings, but no backend says so.
Chars == STRING \cup {"ENTER"}

LEMMA CharsAre ==
  <<>> \in Seq(Chars) /\ "ENTER" \in Chars /\ \A s \in Seq(STRING) : s \in Seq(Chars)
<1>1. STRING \subseteq Chars /\ "ENTER" \in Chars
  BY DEF Chars
<1>2. \A s \in Seq(STRING) : s \in Seq(Chars)
  BY <1>1, Wider
<1>3. QED
  BY <1>1, <1>2

\* One character less, and another.
LEMMA ShortOf ==
  ASSUME NEW S, NEW s \in Seq(S), NEW n \in Nat, n < Len(s)
  PROVE  DropLast(s, n) # <<>> /\ Front(DropLast(s, n)) = DropLast(s, n + 1)
<1>1. PICK l, k, a, b : l = Len(s) /\ k = l - n /\ a = SubSeq(s, 1, k) /\ b = SubSeq(s, 1, k - 1)
  OBVIOUS
<1>2. l \in Nat /\ k \in 1..l /\ k \in 0..Len(s) /\ k - 1 \in 0..Len(s) /\ l - (n + 1) = k - 1 /\ k \in Nat
  BY <1>1, LenProperties
<1>3. a = DropLast(s, n) /\ b = DropLast(s, n + 1)
  BY <1>1, <1>2 DEF DropLast
<1>4. a \in Seq(S) /\ Len(a) = k /\ \A i \in 1..k : a[i] = s[i]
  BY <1>1, <1>2, PartsOf
<1>5. b \in Seq(S) /\ Len(b) = k - 1 /\ \A i \in 1..k - 1 : b[i] = s[i]
  <2>1. PICK j : j = k - 1
    OBVIOUS
  <2>2. j \in 0..Len(s) /\ b = SubSeq(s, 1, j)
    BY <1>1, <1>2, <2>1
  <2>3. b \in Seq(S) /\ Len(b) = j /\ \A i \in 1..j : b[i] = s[i]
    BY <2>2, PartsOf
  <2>4. QED
    BY <2>1, <2>3
<1>6. PICK j, c : j = k - 1 /\ c = SubSeq(a, 1, j)
  OBVIOUS
<1>7. c \in Seq(S) /\ Len(c) = j /\ \A i \in 1..j : c[i] = a[i]
  <2>1. j \in 0..Len(a)
    BY <1>2, <1>4, <1>6
  <2>2. QED
    BY <1>4, <1>6, <2>1, PartsOf
<1>8. c = b
  <2>1. \A i \in 1..j : i \in 1..k
    BY <1>2, <1>6
  <2>2. Len(c) = Len(b) /\ \A i \in 1..Len(c) : c[i] = b[i]
    BY <1>4, <1>5, <1>6, <1>7, <2>1
  <2>3. QED
    BY <1>5, <1>7, <2>2, SeqEqual
<1>9. Front(a) = c
  BY <1>4, <1>6 DEF Front
<1>10. a # <<>>
  <2>1. Len(<<>>) = 0 /\ k # 0
    BY <1>2
  <2>2. QED
    BY <1>4, <2>1
<1>11. QED
  BY <1>3, <1>8, <1>9, <1>10

\* A key that edits, pressed and released.
LEMMA TapIs ==
  ASSUME NEW d, IsRecord(d, DeskFields), Clean(d), NEW k \in Editing
  PROVE  LET e == Take(Take(d, Press(k)), Release(k)) IN
         /\ IsRecord(e, DeskFields) /\ Clean(e)
         /\ e.text = CASE k = "BACKSPACE" /\ d.text # <<>> -> Front(d.text)
                       [] k = "ENTER"                      -> Append(d.text, "ENTER")
                       [] OTHER                            -> d.text
<1> DEFINE x == CASE k = "BACKSPACE" /\ d.text # <<>> -> Front(d.text)
                  [] k = "ENTER"                      -> Append(d.text, "ENTER")
                  [] OTHER                            -> d.text
           h == d.held \cup {k}
           s == d.stale \ {k}
           e == [d EXCEPT !.held = h, !.stale = s, !.text = x]
           f == Take(e, Release(k))
<1>1. Press(k).type = "PRESS" /\ Press(k).action = "down" /\ Press(k).what = k
  BY DEF Press
<1>2. k \notin d.held
  BY DEF Clean
<1>3. Press(k) = Press("BACKSPACE") <=> k = "BACKSPACE"
  BY DEF Press
<1>4. Press(k) = Press("ENTER") <=> k = "ENTER"
  BY DEF Press
<1>5. Take(d, Press(k)) = TakePress(d, Press(k))
  BY <1>1 DEF Take
<1>6. TakePress(d, Press(k)) = e
  <2>1. PICK ev : ev = Press(k)
    OBVIOUS
  <2>2. x = CASE ev = Press("BACKSPACE") /\ d.text # <<>> -> Front(d.text)
              [] ev = Press("ENTER")                     -> Append(d.text, "ENTER")
              [] OTHER                                   -> d.text
    BY <1>3, <1>4, <2>1
  <2>3. ~(d.on = "gnome" /\ (ev.what \in d.held) = (ev.action = "down"))
    BY <1>1, <1>2, <2>1
  <2>4. "held" \in DOMAIN d /\ "stale" \in DOMAIN d /\ "text" \in DOMAIN d
    BY DEF IsRecord, DeskFields
  <2>5. h = (IF ev.action = "down" THEN d.held \cup {ev.what} ELSE d.held \ {ev.what}) /\ s = d.stale \ {ev.what}
    BY <1>1, <2>1
  <2> HIDE DEF x, h, s
  <2>6. TakePress(d, ev) = e
    BY <2>2, <2>3, <2>4, <2>5 DEF TakePress
  <2>7. QED
    BY <2>1, <2>6
<1>7. \A i \in {k} : i \in Editing
  OBVIOUS
<1> HIDE DEF x, s
<1>8. IsRecord(e, DeskFields) /\ e.text = x /\ e.held = h
  BY DEF IsRecord, DeskFields
<1> HIDE DEF e
<1>9. /\ Release(k).type = "PRESS" /\ Release(k).action = "up" /\ Release(k).what = k
      /\ Release(k) # Press("BACKSPACE") /\ Release(k) # Press("ENTER")
  BY DEF Press, Release
<1>10. f = [e EXCEPT !.held = h \ {k}, !.stale = e.stale \ {k}, !.text = x]
  <2>1. PICK ev : ev = Release(k)
    OBVIOUS
  <2>2. f = TakePress(e, ev)
    BY <1>9, <2>1 DEF Take
  <2>3. ~(e.on = "gnome" /\ (ev.what \in e.held) = (ev.action = "down"))
    BY <1>8, <1>9, <2>1
  <2>4. "held" \in DOMAIN e /\ "stale" \in DOMAIN e /\ "text" \in DOMAIN e
    BY <1>8 DEF IsRecord, DeskFields
  <2>5. h \ {k} = (IF ev.action = "down" THEN e.held \cup {ev.what} ELSE e.held \ {ev.what}) /\ ev.what = k
    BY <1>8, <1>9, <2>1
  <2>6. x = CASE ev = Press("BACKSPACE") /\ e.text # <<>> -> Front(e.text)
              [] ev = Press("ENTER")                     -> Append(e.text, "ENTER")
              [] OTHER                                   -> e.text
    BY <1>8, <1>9, <2>1
  <2> HIDE DEF h, f
  <2>7. TakePress(e, ev) = [e EXCEPT !.held = h \ {k}, !.stale = e.stale \ {k}, !.text = x]
    BY <2>3, <2>4, <2>5, <2>6 DEF TakePress
  <2>8. QED
    BY <2>2, <2>7
<1>11. h \ {k} = d.held
  BY <1>2
<1>12. IsRecord(f, DeskFields) /\ f.text = x /\ f.held = d.held
  <2> HIDE DEF f, h
  <2>1. QED
    BY <1>8, <1>10, <1>11 DEF IsRecord, DeskFields
<1>13. QED
  BY <1>5, <1>6, <1>12 DEF Clean, x

\* That many backspaces take that many characters.
LEMMA BackspacesTaken ==
  ASSUME NEW d, IsRecord(d, DeskFields), Clean(d), d.text \in Seq(Chars), NEW n \in 0..Len(d.text)
  PROVE  LET e == TakenBy(d, Backspaces(n)) IN
         IsRecord(e, DeskFields) /\ Clean(e) /\ e.text = DropLast(d.text, n)
<1> DEFINE b == Backspaces(n)
           t == Trace(d, b)
           Good(j) == IsRecord(t[2 * j], DeskFields) /\ Clean(t[2 * j]) /\ t[2 * j].text = DropLast(d.text, j)
           T == {j \in 0..n : ~Good(j)}
<1>1. n \in Nat /\ 2 * n \in Nat /\ Len(d.text) \in Nat /\ n <= Len(d.text)
  BY LenProperties
<1>2. /\ Len(b) = 2 * n
      /\ \A i \in 1..2 * n : b[i] = IF i % 2 = 1 THEN Press("BACKSPACE") ELSE Release("BACKSPACE")
  BY <1>1 DEF Backspaces
<1> HIDE DEF b
<1>3. t[0] = d /\ \A i \in 1..2 * n : t[i] = Take(t[i - 1], b[i])
  BY <1>1, <1>2, TraceIs
<1> HIDE DEF t
<1>4. \A j \in 0..n : j + 1 \in 1..n => t[2 * (j + 1)] = Take(Take(t[2 * j], Press("BACKSPACE")), Release("BACKSPACE"))
  <2>1. SUFFICES ASSUME NEW j \in 0..n, j + 1 \in 1..n
                 PROVE  t[2 * (j + 1)] = Take(Take(t[2 * j], Press("BACKSPACE")), Release("BACKSPACE"))
    OBVIOUS
  <2>2. PICK a, c : a = 2 * j + 1 /\ c = 2 * j + 2
    OBVIOUS
  <2>3. /\ a \in 1..2 * n /\ c \in 1..2 * n /\ a - 1 = 2 * j /\ c - 1 = a /\ 2 * (j + 1) = c
        /\ a % 2 = 1 /\ c % 2 = 0
    BY <1>1, <2>1, <2>2
  <2>4. t[a] = Take(t[2 * j], Press("BACKSPACE"))
    BY <1>2, <1>3, <2>3
  <2>5. t[c] = Take(t[a], Release("BACKSPACE"))
    BY <1>2, <1>3, <2>3
  <2>6. QED
    BY <2>3, <2>4, <2>5
<1>5. T = {}
  <2>1. SUFFICES ASSUME T # {} PROVE FALSE
    OBVIOUS
  <2>2. T \in SUBSET Nat
    BY <1>1
  <2>3. PICK m \in T : \A j \in T : m <= j
    BY <2>1, <2>2, Least
  <2>4. m # 0
    <3>1. 2 * 0 = 0
      OBVIOUS
    <3>2. DropLast(d.text, 0) = d.text
      BY WholeText
    <3>3. Good(0)
      BY <1>3, <3>1, <3>2
    <3>4. QED
      BY <2>3, <3>3
  <2>5. PICK j : j = m - 1
    OBVIOUS
  <2>6. j \in 0..n /\ j + 1 = m /\ m \in 1..n /\ j \in Nat /\ j < Len(d.text)
    BY <1>1, <2>3, <2>4, <2>5
  <2>7. j \notin T
    BY <2>3, <2>6
  <2>8. Good(j)
    BY <2>6, <2>7
  <2>9. t[2 * m] = Take(Take(t[2 * j], Press("BACKSPACE")), Release("BACKSPACE"))
    BY <1>4, <2>6
  <2>10. PICK z : z = t[2 * j]
    OBVIOUS
  <2>11. IsRecord(z, DeskFields) /\ Clean(z) /\ z.text = DropLast(d.text, j)
    BY <2>8, <2>10
  <2>12. z.text # <<>> /\ Front(z.text) = DropLast(d.text, m)
    BY <2>6, <2>11, ShortOf
  <2>13. PICK f : f = Take(Take(z, Press("BACKSPACE")), Release("BACKSPACE"))
    OBVIOUS
  <2>14. IsRecord(f, DeskFields) /\ Clean(f) /\ f.text = Front(z.text)
    <3>1. "BACKSPACE" \in Editing /\ "BACKSPACE" # "ENTER"
      BY DEF Editing
    <3>2. QED
      BY <2>11, <2>12, <2>13, <3>1, TapIs
  <2>15. Good(m)
    BY <2>9, <2>10, <2>12, <2>13, <2>14
  <2>16. QED
    BY <2>3, <2>15
<1>6. Good(n)
  BY <1>1, <1>5
<1>7. QED
  BY <1>2, <1>6 DEF TakenBy, b, t

\* What an edit types.
LEMMA EditTypes ==
  ASSUME NEW d, IsRecord(d, DeskFields), Clean(d), d.text \in Seq(Chars), NEW n \in 0..Len(d.text),
         NEW s \in Seq(Chars)
  PROVE  LET e == TakenBy(d, Backspaces(n) \o Text(s)) IN Clean(e) /\ e.text = DropLast(d.text, n) \o s
<1>1. n \in Nat
  BY LenProperties
<1>2. List(Backspaces(n)) /\ List(Text(s))
  BY <1>1, BackspacesQuiet, KeysQuiet, ListsMade
<1>3. PICK a : a = TakenBy(d, Backspaces(n))
  OBVIOUS
<1>4. IsRecord(a, DeskFields) /\ Clean(a) /\ a.text = DropLast(d.text, n)
  BY <1>3, BackspacesTaken
<1>5. TakenBy(d, Backspaces(n) \o Text(s)) = TakenBy(a, Text(s))
  BY <1>2, <1>3, TakenLists
<1>6. CASE s = <<>>
  <2>1. PICK f : f = Text(s)
    OBVIOUS
  <2>2. Len(f) = 0
    BY <1>6, <2>1 DEF Text
  <2>3. TakenBy(a, f) = a
    BY <2>2, TraceIs DEF TakenBy
  <2>4. DropLast(d.text, n) \o <<>> = DropLast(d.text, n)
    <3>1. DropLast(d.text, n) \in Seq(Chars)
      BY WholeText
    <3>2. QED
      BY <3>1, ConcatEmptySeq
  <2>5. QED
    BY <1>4, <1>5, <1>6, <2>1, <2>3, <2>4
<1>7. CASE s # <<>>
  <2> DEFINE ev == [type |-> "TEXT", action |-> "down", what |-> s]
             x == a.text \o s
             e == [a EXCEPT !.text = x]
  <2>1. Text(s) = <<ev>>
    BY <1>7 DEF Text
  <2>2. Take(a, ev) = e
    <3>1. "text" \in DOMAIN a
      BY <1>4 DEF IsRecord, DeskFields
    <3>2. QED
      BY <3>1 DEF Take, TakeText
  <2>3. TakenBy(a, <<ev>>) = Take(a, ev)
    BY TakenOne
  <2> HIDE DEF x, ev
  <2>4. e.text = x /\ e.held = a.held
    BY <1>4 DEF IsRecord, DeskFields
  <2>5. QED
    BY <1>4, <1>5, <2>1, <2>2, <2>3, <2>4 DEF Clean, x
<1>8. QED
  BY <1>6, <1>7

-----------------------------------------------------------------------------
(* Text: what the soft keyboard takes the field to have.                    *)

\* A word that is taken back to compose does not reach behind the last Enter.
LEMMA SinceEnterIs ==
  ASSUME NEW h \in Seq(Chars), NEW m \in Seq(Chars), h = <<>> \/ h[Len(h)] = "ENTER"
  PROVE  SinceEnter(h \o m) \in Int /\ SinceEnter(h \o m) <= Len(m)
<1> DEFINE d == h \o m
           l == Len(d)
           Is(n) == (n = 0 \/ d[n] = "ENTER") /\ \A i \in n + 1 .. l : d[i] # "ENTER"
           T == {l - n : n \in {k \in 0..l : k = 0 \/ d[k] = "ENTER"}}
<1>1. PICK x, y : x = Len(h) /\ y = Len(m)
  OBVIOUS
<1>2. /\ x \in Nat /\ y \in Nat /\ l = x + y /\ l \in Nat
      /\ \A i \in 1..x + y : d[i] = IF i <= x THEN h[i] ELSE m[i - x]
  BY <1>1, ConcatProperties, LenProperties
<1> HIDE DEF d, l
<1>3. \E n \in 0..l : Is(n)
  <2>1. T \in SUBSET Nat
    BY <1>2
  <2>2. T # {}
    <3>1. l - 0 \in T
      BY <1>2
    <3>2. QED
      BY <3>1
  <2>3. PICK t \in T : \A u \in T : t <= u
    BY <2>1, <2>2, Least
  <2>4. PICK n \in 0..l : t = l - n /\ (n = 0 \/ d[n] = "ENTER")
    OBVIOUS
  <2>5. ASSUME NEW i \in n + 1 .. l PROVE d[i] # "ENTER"
    <3>1. i \in 0..l /\ l - i < l - n /\ l - i \in Int /\ l - n \in Int
      BY <1>2
    <3>2. ~(t <= l - i)
      BY <2>4, <3>1
    <3>3. l - i \notin T
      BY <2>3, <3>2
    <3>4. QED
      BY <3>1, <3>3
  <2>6. QED
    BY <2>4, <2>5
<1>4. PICK n : n = CHOOSE k \in 0..l : Is(k)
  OBVIOUS
<1>5. n \in 0..l /\ Is(n)
  BY <1>3, <1>4
<1>6. SinceEnter(d) = l - n
  BY <1>4 DEF SinceEnter, l
<1>7. x <= n
  <2>1. SUFFICES ASSUME ~(x <= n) PROVE FALSE
    OBVIOUS
  <2>2. x \in n + 1 .. l /\ x \in 1..x + y /\ x <= x
    BY <1>2, <1>5, <2>1
  <2>3. x # 0 /\ h # <<>>
    <3>1. Len(<<>>) = 0
      OBVIOUS
    <3>2. QED
      BY <1>1, <2>2, <3>1
  <2>4. d[x] = "ENTER"
    BY <1>1, <1>2, <2>2, <2>3
  <2>5. QED
    BY <1>5, <2>2, <2>4
<1>8. l - n <= y
  BY <1>2, <1>5, <1>7
<1>9. l - n \in Int
  BY <1>2, <1>5
<1>10. QED
  BY <1>1, <1>6, <1>8, <1>9 DEF d

\* What has so many characters loses them.
LEMMA PoppedIs ==
  ASSUME NEW s \in Seq(Chars), NEW n \in 0..Len(s)
  PROVE  Popped(s, n) = DropLast(s, n)
<1>1. (IF n < Len(s) THEN n ELSE Len(s)) = n
  BY LenProperties
<1>2. QED
  BY <1>1 DEF Popped

\* The field is what is behind the mirror, which ends with an Enter, and the mirror, which
\* ends with what is composed.
Typed(d, k, c, h, m) ==
  /\ h \in Seq(Chars) /\ m \in Seq(Chars) /\ c \in Seq(Chars)
  /\ d = h \o k /\ k = m \o c /\ (h = <<>> \/ h[Len(h)] = "ENTER")

\* All three are texts, and as long as they should be.
LEMMA TypedIs ==
  ASSUME NEW d, NEW k, NEW c, NEW h, NEW m, Typed(d, k, c, h, m)
  PROVE  /\ d \in Seq(Chars) /\ k \in Seq(Chars) /\ d = (h \o m) \o c /\ h \o m \in Seq(Chars)
         /\ Len(c) \in 0..Len(k) /\ Len(k) \in 0..Len(d)
<1>1. /\ h \in Seq(Chars) /\ m \in Seq(Chars) /\ c \in Seq(Chars)
      /\ d = h \o k /\ k = m \o c
  BY DEF Typed
<1>2. k \in Seq(Chars) /\ Len(k) = Len(m) + Len(c)
  BY <1>1, ConcatProperties
<1>3. d \in Seq(Chars) /\ Len(d) = Len(h) + Len(k)
  BY <1>1, <1>2, ConcatProperties
<1>4. (h \o m) \o c = d
  BY <1>1, JoinedTo
<1>5. h \o m \in Seq(Chars)
  BY <1>1, ConcatProperties
<1>6. Len(h) \in Nat /\ Len(m) \in Nat /\ Len(c) \in Nat
  BY <1>1, LenProperties
<1>7. QED
  BY <1>2, <1>3, <1>4, <1>5, <1>6

\* What is composed is replaced, from where it differs.
Differs(c, s, p, n, e) ==
  /\ s \in Seq(Chars) /\ p \in 0..Len(c) /\ p <= Len(s) /\ SubSeq(c, 1, p) = SubSeq(s, 1, p)
  /\ n = Len(c) - p /\ e = LastOf(s, Len(s) - p)

Replaced(d, k, c, h, m, s, n, e) ==
  /\ n \in 0..Len(d) /\ e \in Seq(Chars) /\ DropLast(d, n) \o e = DropLast(d, Len(c)) \o s
  /\ Popped(k, n) \o e = m \o s /\ Typed(DropLast(d, Len(c)) \o s, m \o s, s, h, m)

LEMMA ReplacedText ==
  ASSUME NEW d, NEW k, NEW c, NEW h, NEW m, Typed(d, k, c, h, m),
         NEW s, NEW p, NEW n, NEW e, Differs(c, s, p, n, e)
  PROVE  Replaced(d, k, c, h, m, s, n, e)
<1> DEFINE f == h \o m
<1>1. /\ h \in Seq(Chars) /\ m \in Seq(Chars) /\ c \in Seq(Chars)
      /\ d = h \o k /\ k = m \o c /\ (h = <<>> \/ h[Len(h)] = "ENTER")
  BY DEF Typed
<1>2. /\ d \in Seq(Chars) /\ k \in Seq(Chars) /\ d = f \o c /\ f \in Seq(Chars)
      /\ Len(c) \in 0..Len(k) /\ Len(k) \in 0..Len(d)
  BY TypedIs
<1> HIDE DEF f
<1>3. /\ s \in Seq(Chars) /\ p \in 0..Len(c) /\ p <= Len(s) /\ SubSeq(c, 1, p) = SubSeq(s, 1, p)
      /\ n = Len(c) - p /\ e = LastOf(s, Len(s) - p)
  BY DEF Differs
<1>4. Len(c) \in Nat /\ Len(s) \in Nat /\ Len(k) \in Nat /\ Len(d) \in Nat
  BY <1>1, <1>2, <1>3, LenProperties
<1>5. PICK y : y = Len(s) - p
  OBVIOUS
<1>6. n \in 0..Len(d) /\ n \in 0..Len(k) /\ y \in 0..Len(s) /\ e = LastOf(s, y)
  BY <1>2, <1>3, <1>4, <1>5
<1>7. e \in Seq(Chars)
  BY <1>3, <1>6, WholeText
<1>8. DropLast(d, Len(c)) = f
  BY <1>1, <1>2, WithoutLast
<1>9. \A a \in Seq(Chars) : DropLast(a \o c, n) \o e = a \o s
  <2>1. Alike(Chars, c, s, p, n, y)
    BY <1>1, <1>3, <1>5 DEF Alike
  <2>2. \A a \in Seq(Chars) : DropLast(a \o c, n) \o LastOf(s, y) = a \o s
    BY <2>1, OtherEnd
  <2>3. QED
    BY <1>6, <2>2
<1>10. DropLast(d, n) \o e = f \o s
  BY <1>2, <1>9
<1>11. Popped(k, n) \o e = m \o s
  <2>1. DropLast(m \o c, n) \o e = m \o s
    BY <1>1, <1>9
  <2>2. Popped(k, n) = DropLast(k, n)
    BY <1>2, <1>6, PoppedIs
  <2>3. QED
    BY <1>1, <2>1, <2>2
<1>12. f \o s = h \o (m \o s)
  <2>1. PICK w : w = m \o s
    OBVIOUS
  <2>2. h \in Seq(Chars) /\ m \in Seq(Chars) /\ s \in Seq(Chars)
    BY <1>1, <1>3
  <2>3. (h \o m) \o s = h \o w
    BY <2>1, <2>2, JoinedTo
  <2>4. QED
    BY <2>1, <2>3 DEF f
<1>13. Typed(f \o s, m \o s, s, h, m)
  BY <1>1, <1>3, <1>12 DEF Typed
<1>14. QED
  BY <1>6, <1>7, <1>8, <1>10, <1>11, <1>13 DEF Replaced

\* What is composed is left as it is.
LEMMA LeftText ==
  ASSUME NEW d, NEW k, NEW c, NEW h, NEW m, Typed(d, k, c, h, m)
  PROVE  /\ Typed(d, k, <<>>, h, k) /\ DropLast(d, Len(c)) \o c = d /\ DropLast(d, 0) \o <<>> = d
         /\ 0 \in 0..Len(d) /\ Popped(k, 0) \o <<>> = k
         /\ \A n \in 0..Len(k) : Typed(d, k, LastOf(k, n), h, DropLast(k, n)) /\ Len(LastOf(k, n)) = n
<1>1. /\ h \in Seq(Chars) /\ m \in Seq(Chars) /\ c \in Seq(Chars)
      /\ d = h \o k /\ k = m \o c /\ (h = <<>> \/ h[Len(h)] = "ENTER")
  BY DEF Typed
<1>2. /\ d \in Seq(Chars) /\ k \in Seq(Chars) /\ d = (h \o m) \o c /\ h \o m \in Seq(Chars)
  BY TypedIs
<1>3. <<>> \in Seq(Chars) /\ k \o <<>> = k /\ d \o <<>> = d
  BY <1>2, CharsAre, ConcatEmptySeq
<1>4. 0 \in 0..Len(d) /\ 0 \in 0..Len(k)
  BY <1>2, LenProperties
<1>5. DropLast(d, 0) = d /\ DropLast(k, 0) = k
  BY <1>2, WholeText
<1>6. Popped(k, 0) = k
  BY <1>2, <1>4, <1>5, PoppedIs
<1>7. DropLast(d, Len(c)) = h \o m
  BY <1>1, <1>2, WithoutLast
<1>8. Typed(d, k, <<>>, h, k)
  BY <1>1, <1>2, <1>3 DEF Typed
<1>9. ASSUME NEW n \in 0..Len(k) PROVE Typed(d, k, LastOf(k, n), h, DropLast(k, n)) /\ Len(LastOf(k, n)) = n
  <2>1. /\ DropLast(k, n) \in Seq(Chars) /\ LastOf(k, n) \in Seq(Chars) /\ Len(LastOf(k, n)) = n
        /\ DropLast(k, n) \o LastOf(k, n) = k
    BY <1>2, WholeText
  <2>2. QED
    BY <1>1, <2>1 DEF Typed
<1>10. QED
  BY <1>2, <1>3, <1>4, <1>5, <1>6, <1>7, <1>8, <1>9

\* The last character is taken away, if it is no Enter.
LEMMA LessText ==
  ASSUME NEW d, NEW k, NEW h, NEW m, Typed(d, k, <<>>, h, m), d # <<>>, d[Len(d)] # "ENTER"
  PROVE  /\ 1 \in 0..Len(d) /\ Popped(k, 1) = DropLast(k, 1)
         /\ Typed(DropLast(d, 1), DropLast(k, 1), <<>>, h, DropLast(k, 1))
         /\ DropLast(d, 1) \o <<>> = DropLast(d, 1) /\ DropLast(k, 1) \o <<>> = DropLast(k, 1)
<1>1. /\ h \in Seq(Chars) /\ d = h \o k /\ (h = <<>> \/ h[Len(h)] = "ENTER")
  BY DEF Typed
<1>2. d \in Seq(Chars) /\ k \in Seq(Chars)
  BY TypedIs
<1>3. k # <<>>
  <2>1. SUFFICES ASSUME k = <<>> PROVE FALSE
    OBVIOUS
  <2>2. d = h
    BY <1>1, <2>1, ConcatEmptySeq
  <2>3. QED
    BY <1>1, <2>2
<1>4. Len(k) \in Nat /\ Len(d) \in Nat /\ Len(k) # 0 /\ Len(d) # 0
  BY <1>2, <1>3, LenProperties, EmptySeq
<1>5. 1 \in 0..Len(d) /\ 1 \in 0..Len(k)
  BY <1>4
<1>6. DropLast(d, 1) = h \o DropLast(k, 1)
  BY <1>1, <1>2, <1>5, EndOfText
<1>7. DropLast(k, 1) \in Seq(Chars) /\ DropLast(d, 1) \in Seq(Chars)
  BY <1>2, <1>5, WholeText
<1>8. Popped(k, 1) = DropLast(k, 1)
  BY <1>2, <1>5, PoppedIs
<1>9. <<>> \in Seq(Chars) /\ DropLast(d, 1) \o <<>> = DropLast(d, 1) /\ DropLast(k, 1) \o <<>> = DropLast(k, 1)
  BY <1>7, CharsAre, ConcatEmptySeq
<1>10. Typed(DropLast(d, 1), DropLast(k, 1), <<>>, h, DropLast(k, 1))
  BY <1>1, <1>6, <1>7, <1>9 DEF Typed
<1>11. QED
  BY <1>5, <1>8, <1>9, <1>10

\* What the soft keyboard takes the field to have, and what SystemIME.java has of it.
Mirrored(i) == i.comp = Len(i.composing) /\ \E h, m : Typed(i.doc, i.mirror, i.composing, h, m)
TextInv ==
  ime.alone /\ ~desk.deaf /\ ~ime.tangled => desk.text = ime.doc /\ Clean(desk) /\ Mirrored(ime)

\* An edit is the right one for what the keyboard takes the field to have after it.
Fits(n, s, c, b) ==
  /\ ime.tangled => b.tangled
  /\ \A h, m : Typed(ime.doc, ime.mirror, ime.composing, h, m) /\ ime.comp = Len(ime.composing) /\ ~b.tangled =>
       /\ n \in 0..Len(ime.doc) /\ DropLast(ime.doc, n) \o s = b.doc /\ b.comp = Len(c)
       /\ \E g, l : Typed(b.doc, Popped(ime.mirror, n) \o s, c, g, l)

\* Who hears of a call heard of what was before it.
LEMMA HeardText ==
  ASSUME IsDesk(desk), up \in BOOLEAN, TextInv, ime.alone, ~ime.tangled, NEW e, List(e), Send(e), ~desk'.deaf
  PROVE  /\ Mirrored(ime)
         /\ \E d : /\ IsRecord(d, DeskFields) /\ Clean(d) /\ d.text = ime.doc
                   /\ desk'.text = TakenBy(d, e).text /\ (Clean(TakenBy(d, e)) => Clean(desk'))
<1> DEFINE d == [desk EXCEPT !.torn = FALSE]
<1>1. /\ ~desk.deaf /\ desk'.text = TakenBy(d, e).text
      /\ Clean(TakenBy(d, e)) => Clean(desk')
  BY SentHeard DEF Heard
<1>2. desk.text = ime.doc /\ Clean(desk) /\ Mirrored(ime)
  BY <1>1 DEF TextInv
<1>3. IsRecord(d, DeskFields) /\ d.text = desk.text /\ d.held = desk.held
  BY DEF IsDesk, IsRecord, DeskFields
<1> HIDE DEF d
<1>4. QED
  BY <1>1, <1>2, <1>3 DEF Clean

\* An edit that is the right one keeps the field as the keyboard takes it to be.
LEMMA EditFits ==
  ASSUME IsDesk(desk), up \in BOOLEAN, SoftInv, TextInv, NEW n \in Nat, NEW s \in Seq(Chars), NEW c, NEW b,
         Edit(n, s, c, b), Fits(n, s, c, b)
  PROVE  TextInv'
<1>1. PICK e : e = Backspaces(n) \o Text(s)
  OBVIOUS
<1>2. List(e)
  BY <1>1, BackspacesQuiet, KeysQuiet, ListsMade
<1>3. PICK p : p = Popped(ime.mirror, n) \o s
  OBVIOUS
<1>4. /\ ime' = [ime EXCEPT !.mirror = p, !.composing = c, !.doc = b.doc, !.comp = b.comp,
                            !.tangled = b.tangled]
      /\ Send(e)
  BY <1>1, <1>3 DEF Edit
<1>5. /\ ime'.mirror = p /\ ime'.composing = c /\ ime'.doc = b.doc /\ ime'.comp = b.comp
      /\ ime'.tangled = b.tangled /\ ime'.alone = ime.alone
  BY <1>4 DEF SoftInv, IsIme, IsRecord, ImeFields
<1>6. SUFFICES ASSUME ime'.alone, ~desk'.deaf, ~ime'.tangled
               PROVE  desk'.text = ime'.doc /\ Clean(desk') /\ Mirrored(ime')
  BY DEF TextInv, Clean, Mirrored
<1>7. ime.alone /\ ~b.tangled /\ ~ime.tangled
  BY <1>5, <1>6 DEF Fits
<1>8. /\ Mirrored(ime)
      /\ \E d : /\ IsRecord(d, DeskFields) /\ Clean(d) /\ d.text = ime.doc
                /\ desk'.text = TakenBy(d, e).text /\ (Clean(TakenBy(d, e)) => Clean(desk'))
  BY <1>2, <1>4, <1>6, <1>7, HeardText
<1>9. PICK d : /\ IsRecord(d, DeskFields) /\ Clean(d) /\ d.text = ime.doc
               /\ desk'.text = TakenBy(d, e).text /\ (Clean(TakenBy(d, e)) => Clean(desk'))
  BY <1>8
<1>10. PICK h, m : Typed(ime.doc, ime.mirror, ime.composing, h, m) /\ ime.comp = Len(ime.composing)
  BY <1>8 DEF Mirrored
<1>11. /\ n \in 0..Len(ime.doc) /\ DropLast(ime.doc, n) \o s = b.doc /\ b.comp = Len(c)
       /\ \E g, l : Typed(b.doc, p, c, g, l)
  BY <1>3, <1>7, <1>10 DEF Fits
<1>12. ime.doc \in Seq(Chars)
  BY <1>10, TypedIs
<1>13. PICK z : z = TakenBy(d, e)
  OBVIOUS
<1>14. Clean(z) /\ z.text = DropLast(ime.doc, n) \o s
  <2>1. d.text \in Seq(Chars) /\ n \in 0..Len(d.text)
    BY <1>9, <1>11, <1>12
  <2>2. Clean(TakenBy(d, Backspaces(n) \o Text(s))) /\ TakenBy(d, Backspaces(n) \o Text(s)).text = DropLast(d.text, n) \o s
    BY <1>9, <2>1, EditTypes
  <2>3. QED
    BY <1>1, <1>9, <1>13, <2>2
<1>15. desk'.text = ime'.doc /\ Clean(desk')
  BY <1>5, <1>9, <1>11, <1>13, <1>14
<1>16. Mirrored(ime')
  BY <1>5, <1>11 DEF Mirrored
<1>17. QED
  BY <1>15, <1>16

\* A word composed is replaced, or committed as it is or as another.
LEMMA ComposingFits ==
  ASSUME SoftInv, NEW s, NEW p, NEW n, NEW e, Differs(ime.composing, s, p, n, e),
         NEW c, NEW k, c \in {<<>>, s}, k = Len(c)
  PROVE  Fits(n, e, c, Believes(s, k))
<1> DEFINE b == Believes(s, k)
<1>1. b.doc = DropLast(ime.doc, ime.comp) \o s /\ b.comp = k /\ b.tangled = ime.tangled
  BY DEF Believes
<1> HIDE DEF b
<1>2. ASSUME NEW h, NEW m, Typed(ime.doc, ime.mirror, ime.composing, h, m), ime.comp = Len(ime.composing)
      PROVE  /\ n \in 0..Len(ime.doc) /\ DropLast(ime.doc, n) \o e = b.doc /\ b.comp = Len(c)
             /\ \E g, l : Typed(b.doc, Popped(ime.mirror, n) \o e, c, g, l)
  <2>1. PICK d, q, f : d = ime.doc /\ q = ime.mirror /\ f = ime.composing
    OBVIOUS
  <2>2. Typed(d, q, f, h, m) /\ Differs(f, s, p, n, e)
    BY <1>2, <2>1
  <2>3. PICK g : g = DropLast(d, Len(f)) \o s
    OBVIOUS
  <2>4. /\ n \in 0..Len(d) /\ e \in Seq(Chars) /\ DropLast(d, n) \o e = g
        /\ Popped(q, n) \o e = m \o s /\ Typed(g, m \o s, s, h, m)
    <3>1. Replaced(d, q, f, h, m, s, n, e)
      BY <2>2, ReplacedText
    <3>2. QED
      BY <2>3, <3>1 DEF Replaced
  <2>5. Typed(g, m \o s, <<>>, h, m \o s)
    BY <2>4, LeftText
  <2>6. g = b.doc
    BY <1>1, <1>2, <2>1, <2>3
  <2>7. Typed(b.doc, Popped(ime.mirror, n) \o e, c, h, m) \/ Typed(b.doc, Popped(ime.mirror, n) \o e, c, h, m \o s)
    <3>1. CASE c = <<>>
      BY <2>1, <2>4, <2>5, <2>6, <3>1
    <3>2. CASE c = s
      BY <2>1, <2>4, <2>6, <3>2
    <3>3. QED
      BY <3>1, <3>2
  <2>8. n \in 0..Len(ime.doc) /\ DropLast(ime.doc, n) \o e = b.doc
    BY <2>1, <2>4, <2>6
  <2>9. QED
    BY <1>1, <2>7, <2>8
<1>3. QED
  BY <1>1, <1>2 DEF Fits, b

\* Nothing is edited, and the end of the mirror is composed from now on.
LEMMA LeavesFits ==
  ASSUME SoftInv, NEW c, NEW n, n \in 0..Len(ime.mirror) => c = LastOf(ime.mirror, n),
         n \in 0..SinceEnter(ime.doc) \/ n = 0
  PROVE  Fits(0, <<>>, c, Still(n))
<1> DEFINE b == Still(n)
<1>1. b.doc = ime.doc /\ b.comp = n /\ b.tangled = ime.tangled
  BY DEF Still
<1> HIDE DEF b
<1>2. ASSUME NEW h, NEW m, Typed(ime.doc, ime.mirror, ime.composing, h, m)
      PROVE  /\ 0 \in 0..Len(ime.doc) /\ DropLast(ime.doc, 0) \o <<>> = b.doc /\ b.comp = Len(c)
             /\ \E g, l : Typed(b.doc, Popped(ime.mirror, 0) \o <<>>, c, g, l)
  <2>1. PICK d, q, f : d = ime.doc /\ q = ime.mirror /\ f = ime.composing
    OBVIOUS
  <2>2. Typed(d, q, f, h, m)
    BY <1>2, <2>1
  <2>3. h \in Seq(Chars) /\ q \in Seq(Chars) /\ d = h \o q /\ (h = <<>> \/ h[Len(h)] = "ENTER")
    BY <2>2, TypedIs DEF Typed
  <2>4. n \in 0..Len(q)
    <3>1. SinceEnter(h \o q) <= Len(q) /\ SinceEnter(h \o q) \in Int
      BY <2>3, SinceEnterIs
    <3>2. Len(q) \in Nat
      BY <2>3, LenProperties
    <3>3. n \in 0..SinceEnter(d) \/ n = 0
      BY <2>1
    <3>4. SinceEnter(d) <= Len(q) /\ SinceEnter(d) \in Int
      BY <2>3, <3>1
    <3>5. QED
      BY <3>2, <3>3, <3>4
  <2>5. /\ DropLast(d, 0) \o <<>> = d /\ 0 \in 0..Len(d) /\ Popped(q, 0) \o <<>> = q
        /\ Typed(d, q, LastOf(q, n), h, DropLast(q, n)) /\ Len(LastOf(q, n)) = n
    BY <2>2, <2>4, LeftText
  <2>6. c = LastOf(q, n)
    BY <2>1, <2>4
  <2>7. Typed(b.doc, Popped(ime.mirror, 0) \o <<>>, c, h, DropLast(q, n))
    BY <1>1, <2>1, <2>5, <2>6
  <2>8. QED
    BY <1>1, <2>1, <2>5, <2>6, <2>7
<1>3. QED
  BY <1>1, <1>2 DEF Fits, b

\* A character is taken back: where nothing is composed it is the last one.
LEMMA ShortensFits ==
  ASSUME SoftInv, NEW k, NEW n, ime.comp = 0 => k = 0 /\ n = 0 /\ ime.doc # <<>>,
         NEW b, b = Without(k, n)
  PROVE  Fits(1, <<>>, ime.composing, b)
<1>1. b.doc = DropLast(ime.doc, k + 1) \o LastOf(ime.doc, k) /\ b.comp = n
  BY DEF Without
<1>2. /\ ime.tangled => b.tangled
      /\ ~b.tangled => ~(ime.comp > 0) /\ ime.doc[Len(ime.doc)] # "ENTER"
  BY DEF Without
<1>3. ASSUME NEW h, NEW m, Typed(ime.doc, ime.mirror, ime.composing, h, m), ime.comp = Len(ime.composing), ~b.tangled
      PROVE  /\ 1 \in 0..Len(ime.doc) /\ DropLast(ime.doc, 1) \o <<>> = b.doc /\ b.comp = Len(ime.composing)
             /\ \E g, l : Typed(b.doc, Popped(ime.mirror, 1) \o <<>>, ime.composing, g, l)
  <2>1. PICK d, q, f : d = ime.doc /\ q = ime.mirror /\ f = ime.composing
    OBVIOUS
  <2>2. f \in Seq(Chars) /\ ime.comp = Len(f)
    BY <1>3, <2>1 DEF Typed
  <2>3. ime.comp = 0 /\ k = 0 /\ n = 0 /\ d # <<>>
    <3>1. Len(f) \in Nat
      BY <2>2, LenProperties
    <3>2. ime.comp = 0
      BY <1>2, <1>3, <2>2, <3>1
    <3>3. QED
      BY <2>1, <3>2
  <2>4. f = <<>>
    BY <2>2, <2>3, EmptySeq
  <2>5. Typed(d, q, <<>>, h, m) /\ d[Len(d)] # "ENTER"
    BY <1>2, <1>3, <2>1, <2>4
  <2>6. /\ 1 \in 0..Len(d) /\ Popped(q, 1) = DropLast(q, 1)
        /\ Typed(DropLast(d, 1), DropLast(q, 1), <<>>, h, DropLast(q, 1))
        /\ DropLast(d, 1) \o <<>> = DropLast(d, 1) /\ DropLast(q, 1) \o <<>> = DropLast(q, 1)
    BY <2>3, <2>5, LessText
  <2>7. b.doc = DropLast(d, 1)
    <3>1. d \in Seq(Chars) /\ Len(d) \in Nat
      BY <2>5, TypedIs, LenProperties
    <3>2. LastOf(d, 0) \in Seq(Chars) /\ Len(LastOf(d, 0)) = 0
      BY <3>1, WholeText
    <3>3. LastOf(d, 0) = <<>>
      BY <3>2, EmptySeq
    <3>4. PICK j : j = k + 1 /\ b.doc = DropLast(d, j) \o LastOf(d, 0)
      BY <1>1, <2>1, <2>3
    <3>5. j = 1
      BY <2>3, <3>4
    <3>6. QED
      BY <2>6, <3>3, <3>4, <3>5
  <2>8. Typed(b.doc, Popped(ime.mirror, 1) \o <<>>, ime.composing, h, DropLast(q, 1))
    BY <2>1, <2>4, <2>6, <2>7
  <2>9. b.comp = Len(ime.composing)
    BY <1>1, <1>3, <2>3
  <2>10. QED
    BY <2>1, <2>6, <2>7, <2>8, <2>9
<1>4. QED
  BY <1>2, <1>3 DEF Fits

\* Enter starts a line, and an empty mirror.
LEMMA EnterTypes ==
  ASSUME IsDesk(desk), up \in BOOLEAN, SoftInv, TextInv, ImeEnter
  PROVE  TextInv'
<1>1. PICK x : x = Append(ime.doc, "ENTER")
  OBVIOUS
<1>2. PICK e : e = Tap("ENTER")
  OBVIOUS
<1>3. Send(e) /\ ime' = [ime EXCEPT !.mirror = <<>>, !.composing = <<>>, !.doc = x, !.comp = 0]
  BY <1>1, <1>2 DEF ImeEnter
<1>4. /\ ime'.mirror = <<>> /\ ime'.composing = <<>> /\ ime'.doc = x /\ ime'.comp = 0
      /\ ime'.tangled = ime.tangled /\ ime'.alone = ime.alone
  BY <1>3 DEF SoftInv, IsIme, IsRecord, ImeFields
<1>5. SUFFICES ASSUME ime'.alone, ~desk'.deaf, ~ime'.tangled
               PROVE  desk'.text = ime'.doc /\ Clean(desk') /\ Mirrored(ime')
  BY DEF TextInv, Clean, Mirrored
<1>6. List(e)
  BY <1>2, KeysQuiet, ListsMade
<1>7. /\ Mirrored(ime)
      /\ \E d : /\ IsRecord(d, DeskFields) /\ Clean(d) /\ d.text = ime.doc
                /\ desk'.text = TakenBy(d, e).text /\ (Clean(TakenBy(d, e)) => Clean(desk'))
  BY <1>3, <1>4, <1>5, <1>6, HeardText
<1>8. PICK d : /\ IsRecord(d, DeskFields) /\ Clean(d) /\ d.text = ime.doc
               /\ desk'.text = TakenBy(d, e).text /\ (Clean(TakenBy(d, e)) => Clean(desk'))
  BY <1>7
<1>9. PICK h, m : Typed(ime.doc, ime.mirror, ime.composing, h, m)
  BY <1>7 DEF Mirrored
<1>10. ime.doc \in Seq(Chars)
  BY <1>9, TypedIs
<1>11. TakenBy(d, e) = Take(Take(d, Press("ENTER")), Release("ENTER"))
  <2>1. e = <<Press("ENTER"), Release("ENTER")>>
    BY <1>2 DEF Tap
  <2>2. Len(e) = 2 /\ e[1] = Press("ENTER") /\ e[2] = Release("ENTER")
    BY <2>1
  <2>3. PICK t : t = Trace(d, e)
    OBVIOUS
  <2>4. t[0] = d /\ \A n \in 1..Len(e) : t[n] = Take(t[n - 1], e[n])
    <3>1. Len(e) \in Nat
      BY <2>2
    <3>2. QED
      BY <2>3, <3>1, TraceIs
  <2>5. t[1] = Take(t[0], e[1]) /\ t[2] = Take(t[1], e[2])
    <3>1. 1 \in 1..Len(e) /\ 2 \in 1..Len(e)
      BY <2>2
    <3>2. QED
      BY <2>4, <3>1
  <2>6. TakenBy(d, e) = t[2]
    BY <2>2, <2>3 DEF TakenBy
  <2>7. QED
    BY <2>2, <2>4, <2>5, <2>6
<1>12. Clean(TakenBy(d, e)) /\ TakenBy(d, e).text = Append(d.text, "ENTER")
  <2>1. "ENTER" \in Editing /\ "ENTER" # "BACKSPACE"
    BY DEF Editing
  <2>2. PICK f : f = Take(Take(d, Press("ENTER")), Release("ENTER"))
    OBVIOUS
  <2>3. Clean(f) /\ f.text = Append(d.text, "ENTER")
    BY <1>8, <2>1, <2>2, TapIs
  <2>4. QED
    BY <1>11, <2>2, <2>3
<1>13. desk'.text = x /\ Clean(desk')
  BY <1>1, <1>8, <1>12
<1>14. Typed(x, <<>>, <<>>, x, <<>>)
  <2>1. x \in Seq(Chars) /\ x[Len(x)] = "ENTER"
    <3>1. "ENTER" \in Chars
      BY CharsAre
    <3>2. x \in Seq(Chars) /\ Len(x) = Len(ime.doc) + 1 /\ x[Len(ime.doc) + 1] = "ENTER"
      BY <1>1, <1>10, <3>1, AppendProperties
    <3>3. QED
      BY <3>2
  <2>2. <<>> \in Seq(Chars) /\ x \o <<>> = x /\ <<>> \o <<>> = <<>>
    BY <2>1, CharsAre, ConcatEmptySeq
  <2>3. QED
    BY <2>1, <2>2 DEF Typed
<1>15. Mirrored(ime')
  <2>1. Len(<<>>) = 0
    OBVIOUS
  <2>2. QED
    BY <1>4, <1>14, <2>1 DEF Mirrored
<1>16. QED
  BY <1>4, <1>13, <1>15

\* What replaceComposing and commitText erase and send is where two words differ.
LEMMA DifferencesAre ==
  ASSUME NEW c, NEW s, c \in Seq(Chars), s \in Seq(Chars)
  PROVE  Differs(c, s, 0, Len(c), s) /\ (c = s => Differs(c, s, Len(s), 0, <<>>))
<1>1. Len(c) \in Nat /\ Len(s) \in Nat /\ Len(c) - 0 = Len(c) /\ Len(s) - 0 = Len(s) /\ 0 \in 0..Len(c)
  BY LenProperties
<1>2. SubSeq(c, 1, 0) = SubSeq(s, 1, 0)
  <2>1. \A a \in Seq(Chars) : SubSeq(a, 1, 0) = <<>>
    <3>1. SUFFICES ASSUME NEW a \in Seq(Chars) PROVE SubSeq(a, 1, 0) = <<>>
      OBVIOUS
    <3>2. SubSeq(a, 1, 0) \in Seq(Chars) /\ Len(SubSeq(a, 1, 0)) = 0
      BY SubSeqProperties
    <3>3. QED
      BY <3>2, EmptySeq
  <2>2. QED
    BY <2>1
<1>3. LastOf(s, Len(s)) = s
  BY WholeText
<1>4. Differs(c, s, 0, Len(c), s)
  BY <1>1, <1>2, <1>3 DEF Differs
<1>5. ASSUME c = s PROVE Differs(c, s, Len(s), 0, <<>>)
  <2>1. 0 \in 0..Len(s) /\ Len(s) - Len(s) = 0 /\ Len(s) \in 0..Len(s)
    BY <1>1
  <2>2. LastOf(s, 0) = <<>>
    <3>1. LastOf(s, 0) \in Seq(Chars) /\ Len(LastOf(s, 0)) = 0
      BY <2>1, WholeText
    <3>2. QED
      BY <3>1, EmptySeq
  <2>3. QED
    BY <1>1, <1>5, <2>1, <2>2 DEF Differs
<1>6. QED
  BY <1>4, <1>5

\* A combination is typed by somebody else, as far as the text goes.
LEMMA ComboKeeps ==
  ASSUME SoftInv, NEW s, NEW b, Combo(s, b)
  PROVE  TextInv'
<1>1. ime' = [ime EXCEPT !.composing = <<>>, !.alone = FALSE, !.doc = b.doc, !.comp = b.comp]
  BY DEF Combo
<1>2. ~ime'.alone
  BY <1>1 DEF SoftInv, IsIme, IsRecord, ImeFields
<1>3. QED
  BY <1>2 DEF TextInv

\* Whatever the soft keyboard does.
LEMMA ImeKeepsText ==
  ASSUME IsDesk(desk), up \in BOOLEAN, SoftInv, TextInv,
         ImeComposes \/ ImeCommits \/ ImeFinishes \/ ImeDeletes \/ ImeReclaims \/ ImeBackspace \/ ImeEnter
  PROVE  TextInv'
<1>1. /\ ime.composing \in Seq(STRING) /\ ime.composing \in Seq(Chars) /\ Len(ime.composing) \in Nat
  BY CharsAre, LenProperties DEF SoftInv, IsIme
<1>2. \A w \in Words : w \in Seq(STRING) /\ w \in Seq(Chars) /\ Len(w) \in Nat
  BY SoftKeysAssumption, CharsAre, LenProperties
<1>3. <<>> \in Seq(Chars) /\ 0 \in Nat /\ 1 \in Nat /\ Len(<<>>) = 0
  BY CharsAre
<1>4. ASSUME NEW s \in Words, Replacing(s) PROVE TextInv'
  <2>1. PICK p : p = Len(LongestCommonPrefix({ime.composing, s}))
    OBVIOUS
  <2>2. p \in 0..Len(ime.composing) /\ p <= Len(s) /\ SubSeq(ime.composing, 1, p) = SubSeq(s, 1, p)
    BY <1>1, <1>2, <2>1, LongestIs
  <2>3. PICK n, e : n = Len(ime.composing) - p /\ e = LastOf(s, Len(s) - p)
    OBVIOUS
  <2>4. Differs(ime.composing, s, p, n, e)
    BY <1>2, <2>2, <2>3 DEF Differs
  <2>5. n \in Nat /\ Len(s) - p \in 0..Len(s)
    BY <1>1, <1>2, <2>2, <2>3
  <2>6. e \in Seq(Chars)
    BY <1>2, <2>3, <2>5, WholeText
  <2>7. Edit(n, e, s, Believes(s, Len(s)))
    BY <1>4, <2>1, <2>3 DEF Replacing
  <2>8. Fits(n, e, s, Believes(s, Len(s)))
    <3>1. PICK k : k = Len(s)
      OBVIOUS
    <3>2. Fits(n, e, s, Believes(s, k))
      BY <2>4, <3>1, ComposingFits
    <3>3. QED
      BY <3>1, <3>2
  <2>9. QED
    BY <2>5, <2>6, <2>7, <2>8, EditFits
<1>5. CASE ImeComposes
  <2>1. PICK s \in Words : Combo(s, Believes(s, Len(s))) \/ Replacing(s)
    BY <1>5 DEF ImeComposes
  <2>2. QED
    BY <1>4, <2>1, ComboKeeps
<1>6. CASE ImeCommits
  <2>1. PICK s \in Words : \/ Combo(s, Believes(s, 0))
                           \/ ime.composing = s /\ Edit(0, <<>>, <<>>, Believes(s, 0))
                           \/ Edit(Len(ime.composing), s, <<>>, Believes(s, 0))
    BY <1>6 DEF ImeCommits
  <2>2. CASE Combo(s, Believes(s, 0))
    BY <2>2, ComboKeeps
  <2>3. CASE ime.composing = s /\ Edit(0, <<>>, <<>>, Believes(s, 0))
    <3>1. Differs(ime.composing, s, Len(s), 0, <<>>)
      BY <1>1, <1>2, <2>3, DifferencesAre
    <3>2. PICK p, n, c : p = Len(s) /\ n = 0 /\ c = <<>>
      OBVIOUS
    <3>3. Differs(ime.composing, s, p, n, c) /\ c \in {<<>>, s} /\ n = Len(c)
      BY <1>3, <3>1, <3>2
    <3>4. Fits(n, c, c, Believes(s, n))
      BY <3>3, ComposingFits
    <3>5. Fits(0, <<>>, <<>>, Believes(s, 0))
      BY <3>2, <3>4
    <3>6. QED
      BY <1>3, <2>3, <3>5, EditFits
  <2>4. CASE Edit(Len(ime.composing), s, <<>>, Believes(s, 0))
    <3>1. Differs(ime.composing, s, 0, Len(ime.composing), s)
      BY <1>1, <1>2, DifferencesAre
    <3>2. PICK n, k, c : n = Len(ime.composing) /\ k = 0 /\ c = <<>>
      OBVIOUS
    <3>3. Differs(ime.composing, s, k, n, s) /\ c \in {<<>>, s} /\ k = Len(c)
      BY <1>3, <3>1, <3>2
    <3>4. Fits(n, s, c, Believes(s, k))
      BY <3>3, ComposingFits
    <3>5. Edit(n, s, c, Believes(s, k)) /\ n \in Nat /\ s \in Seq(Chars)
      BY <1>1, <1>2, <2>4, <3>2
    <3>6. QED
      BY <3>4, <3>5, EditFits
  <2>5. QED
    BY <2>1, <2>2, <2>3, <2>4
<1>7. CASE ImeFinishes
  <2>1. PICK n, c : n = 0 /\ c = <<>>
    OBVIOUS
  <2>2. n \in 0..Len(ime.mirror) => c = LastOf(ime.mirror, n)
    <3>1. ime.mirror \in Seq(STRING) /\ 0 \in 0..Len(ime.mirror)
      BY LenProperties DEF SoftInv, IsIme
    <3>2. Len(LastOf(ime.mirror, 0)) = 0 /\ LastOf(ime.mirror, 0) \in Seq(STRING)
      BY <3>1, WholeText
    <3>3. QED
      BY <2>1, <3>2, EmptySeq
  <2>3. Fits(0, <<>>, c, Still(n))
    BY <2>1, <2>2, LeavesFits
  <2>4. Fits(0, <<>>, <<>>, Still(0)) /\ Edit(0, <<>>, <<>>, Still(0))
    BY <1>7, <2>1, <2>3 DEF ImeFinishes
  <2>5. QED
    BY <1>3, <2>4, EditFits
<1>8. ASSUME NEW k, NEW n, ime.comp = 0 => k = 0 /\ n = 0 /\ ime.doc # <<>>,
             Edit(1, <<>>, ime.composing, Without(k, n))
      PROVE  TextInv'
  <2>1. PICK b : b = Without(k, n)
    OBVIOUS
  <2>2. Fits(1, <<>>, ime.composing, b)
    BY <1>8, <2>1, ShortensFits
  <2>3. Edit(1, <<>>, ime.composing, b)
    BY <1>8, <2>1
  <2>4. QED
    BY <1>3, <2>2, <2>3, EditFits
<1>9. CASE ImeDeletes
  <2>1. PICK k : k = ime.comp
    OBVIOUS
  <2>2. Len(ime.doc) > k /\ Edit(1, <<>>, ime.composing, Without(k, k))
    BY <1>9, <2>1 DEF ImeDeletes
  <2>3. ime.comp = 0 => k = 0 /\ ime.doc # <<>>
    BY <2>1, <2>2, EmptySeq
  <2>4. QED
    BY <1>8, <2>2, <2>3
<1>10. CASE ImeReclaims
  <2>1. PICK n \in 1..SinceEnter(ime.doc) : Edit(0, <<>>, Region(n), Still(n))
    BY <1>10 DEF ImeReclaims
  <2>2. n \in 0..SinceEnter(ime.doc)
    <3>1. \A k : n \in 1..k => n \in 0..k
      OBVIOUS
    <3>2. QED
      BY <3>1
  <2>3. PICK c : c = Region(n)
    OBVIOUS
  <2>4. n \in 0..Len(ime.mirror) => c = LastOf(ime.mirror, n)
    BY <2>3 DEF Region
  <2>5. Fits(0, <<>>, c, Still(n)) /\ Edit(0, <<>>, c, Still(n))
    BY <2>1, <2>2, <2>3, <2>4, LeavesFits
  <2>6. QED
    BY <1>3, <2>5, EditFits
<1>11. CASE ImeBackspace
  <2>1. PICK n : n = (IF ime.comp = 0 THEN 0 ELSE ime.comp - 1)
    OBVIOUS
  <2>2. ime.doc # <<>> /\ Edit(1, <<>>, ime.composing, Without(0, n))
    BY <1>11, <2>1 DEF ImeBackspace
  <2>3. QED
    BY <1>8, <2>1, <2>2
<1>12. CASE ImeEnter
  BY <1>12, EnterTypes
<1>13. QED
  BY <1>5, <1>6, <1>7, <1>9, <1>10, <1>11, <1>12

-----------------------------------------------------------------------------
(* Fingers, buttons and the touchpad edit nothing.                          *)

\* Mute lists, put together.
LEMMA MutesMade ==
  /\ Mute(<<>>) /\ IsMute(Frame)
  /\ \A k : IsMute(Release(k)) /\ (k \notin Editing => IsMute(Press(k)))
  /\ \A ev : IsMute(ev) => Mute(<<ev>>)
  /\ \A x, y : IsMute(x) /\ IsMute(y) => Mute(<<x, y>>)
  /\ \A s : Mute(s) => List(s)
  /\ \A a, b : Mute(a) /\ Mute(b) => Mute(a \o b)
<1>1. Mute(<<>>)
  <2>1. PICK S : S = {}
    OBVIOUS
  <2>2. <<>> \in Seq(S)
    BY <2>1
  <2>3. QED
    BY <2>1, <2>2 DEF Mute
<1>2. IsMute(Frame) /\ \A k : IsMute(Release(k)) /\ (k \notin Editing => IsMute(Press(k)))
  BY DEF IsMute, Press, Release
<1>3. ASSUME NEW x, NEW y, IsMute(x), IsMute(y) PROVE Mute(<<x>>) /\ Mute(<<x, y>>)
  <2>1. PICK S : S = {x, y}
    OBVIOUS
  <2>2. <<x, y>> \in Seq(S) /\ <<x>> \in Seq(S)
    BY <2>1
  <2>3. QED
    BY <1>3, <2>1, <2>2 DEF Mute
<1>4. \A s : Mute(s) => List(s)
  BY DEF Mute, List, IsMute, IsEvent, IsQuiet
<1>5. ASSUME NEW a, NEW b, Mute(a), Mute(b) PROVE Mute(a \o b)
  <2>1. PICK S : a \in Seq(S) /\ \A ev \in S : IsMute(ev)
    BY <1>5 DEF Mute
  <2>2. PICK T : b \in Seq(T) /\ \A ev \in T : IsMute(ev)
    BY <1>5 DEF Mute
  <2>3. PICK A : A = S \cup T
    OBVIOUS
  <2>4. a \in Seq(A) /\ b \in Seq(A)
    BY <2>1, <2>2, <2>3, Wider
  <2>5. a \o b \in Seq(A) /\ \A ev \in A : IsMute(ev)
    BY <2>1, <2>2, <2>3, <2>4, ConcatProperties
  <2>6. QED
    BY <2>5 DEF Mute
<1>6. QED
  BY <1>1, <1>2, <1>3, <1>4, <1>5

\* A list is mute when each of its events is.
LEMMA MuteEach ==
  ASSUME NEW e, List(e), \A i \in 1..Len(e) : IsMute(e[i])
  PROVE  Mute(e)
<1>1. PICK T : e \in Seq(T)
  BY DEF List
<1>2. PICK S : S = {e[i] : i \in 1..Len(e)}
  OBVIOUS
<1>3. Len(e) \in Nat /\ e \in [1..Len(e) -> S]
  BY <1>1, <1>2
<1>4. e \in Seq(S)
  BY <1>3
<1>5. QED
  BY <1>2, <1>4 DEF Mute

\* Contacts that go down, move or are lifted.
LEMMA SendsMute ==
  ASSUME NEW a \in {"down", "move", "up"}, NEW S, S \subseteq Ids, NEW e, Sends(a, S, e)
  PROVE  Mute(e)
<1>1. PICK s : List(e) /\ All(a, s, e) /\ Upto(s, Len(e)) = S
  BY DEF Sends
<1>2. ASSUME NEW i \in 1..Len(e) PROVE IsMute(e[i])
  <2>1. s[i] \in Ids /\ e[i] = Touch(a, s[i])
    BY <1>1 DEF All, Upto
  <2>2. QED
    BY <2>1 DEF IsMute, TouchEvents
<1>3. QED
  BY <1>1, <1>2, MuteEach

LEMMA TouchesMute ==
  ASSUME NEW a \in {"down", "move", "up"}, NEW S, IsFiniteSet(S), S \subseteq Ids
  PROVE  Mute(Touches(a, S))
BY TouchesSend, SendsMute

\* The buttons; keys that are let go.
Clicks == {"left", "right"}

LEMMA EachMute ==
  ASSUME NEW S, IsFiniteSet(S)
  PROVE  Mute(Each(Release, S)) /\ (S \subseteq Clicks => Mute(Each(Press, S)))
<1> DEFINE s == SetToSeq(S)
           e == [i \in 1..Len(s) |-> Release(s[i])]
           f == [i \in 1..Len(s) |-> Press(s[i])]
<1>1. Len(s) \in Nat /\ \A i \in 1..Len(s) : s[i] \in S
  BY SetListed
<1>2. Each(Release, S) = e /\ Each(Press, S) = f
  BY DEF Each
<1>3. Quiet(e) /\ Quiet(f)
  BY <1>2, EachQuiet
<1> HIDE DEF s
<1>4. List(e) /\ List(f)
  BY <1>3, ListsMade
<1>5. /\ Len(e) = Len(s) /\ \A i \in 1..Len(s) : e[i] = Release(s[i])
      /\ Len(f) = Len(s) /\ \A i \in 1..Len(s) : f[i] = Press(s[i])
  BY <1>1
<1> HIDE DEF e, f
<1>6. Mute(e)
  BY <1>4, <1>5, MutesMade, MuteEach
<1>7. ASSUME S \subseteq Clicks PROVE Mute(f)
  <2>1. \A k \in S : k \notin Editing
    BY <1>7 DEF Clicks, Editing
  <2>2. \A i \in 1..Len(f) : IsMute(f[i])
    BY <1>1, <1>5, <2>1, MutesMade
  <2>3. QED
    BY <1>4, <2>2, MuteEach
<1>8. QED
  BY <1>2, <1>6, <1>7

\* Buttons that change.
LEMMA ChangeMute ==
  ASSUME IsFiniteSet(saved), NEW bs, IsFiniteSet(bs), bs \subseteq Clicks
  PROVE  Mute(Change(bs))
<1>1. IsFiniteSet(saved \ bs) /\ IsFiniteSet(bs \ saved) /\ bs \ saved \subseteq Clicks
  BY FS_Subset
<1>2. Mute(Each(Release, saved \ bs)) /\ Mute(Each(Press, bs \ saved))
  BY <1>1, EachMute
<1>3. QED
  BY <1>2, MutesMade DEF Change

\* A frame around them.
LEMMA FramedMute ==
  ASSUME NEW e, Mute(e)
  PROVE  Mute(Framed(e)) /\ Mute(e \o <<Frame>>)
<1>1. Mute(e \o <<Frame>>)
  BY MutesMade
<1>2. Append(e, Frame) = e \o <<Frame>>
  <2>1. PICK S : e \in Seq(S)
    BY DEF Mute
  <2>2. PICK A : A = S \cup {Frame}
    OBVIOUS
  <2>3. e \in Seq(A) /\ Frame \in A
    BY <2>1, <2>2, Wider
  <2>4. QED
    BY <2>3, AppendIsConcat
<1>3. QED
  BY <1>1, <1>2 DEF Framed

\* What the touchpad clicks and drags with.
LEMMA ClicksMute ==
  /\ \A k \in Clicks : Mute(<<Press(k)>>) /\ Mute(<<Release(k)>>) /\ Mute(Tap(k))
  /\ \A p : Mute(Undrag(p))
<1>1. \A k \in Clicks : k \notin Editing
  BY DEF Clicks, Editing
<1>2. \A k \in Clicks : Mute(<<Press(k)>>) /\ Mute(<<Release(k)>>) /\ Mute(Tap(k))
  BY <1>1, MutesMade DEF Tap
<1>3. \A p : Mute(Undrag(p))
  BY <1>2, MutesMade DEF Undrag, Clicks
<1>4. QED
  BY <1>2, <1>3

\* A gesture that is given up, and one that is recognized.
LEMMA CancelMute ==
  ASSUME NEW p, IsFiniteSet(p.fwd), p.fwd \subseteq Ids
  PROVE  Mute(Cancel(p).out)
<1>1. Mute(Framed(Touches("up", p.fwd)))
  BY TouchesMute, FramedMute
<1>2. Mute(Framed(Touches("up", p.fwd)) \o Undrag(p))
  BY <1>1, ClicksMute, MutesMade
<1>3. QED
  BY <1>2 DEF Cancel, Result

LEMMA RecognizeMute ==
  ASSUME NEW p, NEW e, NEW r \in Recognize(p, e)
  PROVE  Mute(r.out)
<1> DEFINE n == Cardinality(e.ids)
<1>2. Mute(<<>>) /\ \A k \in Clicks : Mute(<<Press(k)>>) /\ Mute(Tap(k))
  BY MutesMade, ClicksMute
<1>3. \A q : Mute(Undrag(q)) /\ Mute(Decline(q).out)
  BY ClicksMute DEF Result, Decline
<1>4. "left" \in Clicks /\ "right" \in Clicks
  BY DEF Clicks
<1>5. CASE p.declined
  <2>1. r.out = <<>>
    BY <1>5 DEF Result, Recognize
  <2>2. QED
    BY <1>2, <2>1
<1>6. CASE ~p.declined
  <2>1. CASE r \in OnDown(p)
    BY <1>2, <2>1 DEF Result, OnDown
  <2>2. CASE r \in OnPointerDown(p, n)
    BY <1>3, <2>2 DEF Result, OnPointerDown
  <2>3. CASE r \in OnMove(p, n)
    <3>1. r \in OnOneMoves(p) \/ r \in OnTwoMove(p) \/ r.out = <<>>
      BY <2>3 DEF Result, OnMove
    <3>2. r \in OnOneMoves(p) => r.out = <<>> \/ r.out = <<Press("left")>>
      BY DEF Result, OnOneMoves
    <3>3. r \in OnTwoMove(p) => r.out = <<>> \/ r = Decline(p)
      BY DEF Result, OnTwoMove
    <3>4. QED
      BY <1>2, <1>3, <1>4, <3>1, <3>2, <3>3
  <2>4. CASE r \in OnPointerUp(p, n)
    BY <1>2, <2>4 DEF Result, OnPointerUp
  <2>5. CASE r \in OnUp(p)
    <3>1. PICK o : r = Result(Reset(p), o, TRUE) /\ (o = Undrag(p) \/ o = Tap("left") \/ o = Tap("right"))
      BY <2>5 DEF OnUp
    <3>2. r.out = o
      BY <3>1 DEF Result
    <3>3. QED
      BY <1>2, <1>3, <1>4, <3>1, <3>2
  <2>6. CASE r = Result(Reset(p), Undrag(p), TRUE)
    BY <1>3, <2>6 DEF Result
  <2>7. QED
    BY <1>6, <2>1, <2>2, <2>3, <2>4, <2>5, <2>6 DEF Recognize
<1>7. QED
  BY <1>5, <1>6

\* All that the touchpad makes of an event of its own, and the screen of its.
LEMMA PadMute ==
  ASSUME NEW d, IsPad(tp[d]), IsFiniteSet(tp[d].fwd), tp[d].fwd \subseteq Ids,
         NEW e, IsFiniteSet(e.ids), e.ids \subseteq Ids, NEW r \in Pad(d, e)
  PROVE  Mute(r.out)
<1>1. PICK p : p = tp[d]
  OBVIOUS
<1>2. PICK s \in Recognize(p, e) : r = IF s.handled THEN s ELSE Forward(s, e)
  BY <1>1 DEF Pad
<1>3. Mute(s.out)
  BY RecognizeMute
<1>4. s = Result(s.p, s.out, s.handled) /\ IsPad(s.p) /\ s.p.fwd = p.fwd
  <2>1. Fine(p, e.act, s)
    BY <1>1, RecognizeFine
  <2>2. QED
    BY <2>1 DEF Fine
<1>5. CASE s.handled
  BY <1>2, <1>3, <1>5
<1>6. CASE ~s.handled /\ e.act = "cancel"
  <2> DEFINE o == s.out \o Framed(Touches("up", p.fwd))
             q == [s.p EXCEPT !.fwd = {}]
  <2>1. r = [[s EXCEPT !.p = q] EXCEPT !.out = o]
    BY <1>2, <1>4, <1>6 DEF Forward
  <2>2. r.out = o
    BY <1>4, <2>1 DEF Result
  <2>3. Mute(Touches("up", p.fwd))
    BY <1>1, TouchesMute
  <2>4. Mute(Framed(Touches("up", p.fwd)))
    BY <2>3, FramedMute
  <2>5. QED
    BY <1>3, <2>2, <2>4, MutesMade
<1>7. CASE ~s.handled /\ e.act # "cancel"
  <2> DEFINE gone == IF e.act \in {"up", "pointer_up"} THEN {e.id} ELSE {}
             stay == e.ids \ gone
             D == stay \ p.fwd
             M == stay \cap p.fwd
             U == gone \cap p.fwd
             x == Touches("down", D)
             y == IF e.act = "move" THEN Touches("move", M) ELSE <<>>
             z == Touches("up", U)
             o == s.out \o Framed((x \o y) \o z)
             f == (p.fwd \cup stay) \ gone
             q == [s.p EXCEPT !.fwd = f]
  <2>1. r = [[s EXCEPT !.p = q] EXCEPT !.out = o]
    BY <1>2, <1>4, <1>7 DEF Forward
  <2>2. r.out = o
    BY <1>4, <2>1 DEF Result
  <2>3. /\ IsFiniteSet(D) /\ D \subseteq Ids /\ IsFiniteSet(M) /\ M \subseteq Ids
        /\ IsFiniteSet(U) /\ U \subseteq Ids
    <3>1. D \subseteq e.ids /\ M \subseteq p.fwd /\ U \subseteq p.fwd
      OBVIOUS
    <3> HIDE DEF D, U, M
    <3>2. QED
      BY <1>1, <3>1, FS_Subset
  <2> HIDE DEF D, M, U
  <2>4. Mute(x) /\ Mute(z)
    BY <2>3, TouchesMute
  <2>5. Mute(y)
    BY <2>3, TouchesMute, MutesMade
  <2> HIDE DEF x, y, z
  <2>6. Mute((x \o y) \o z)
    BY <2>4, <2>5, MutesMade
  <2>7. Mute(Framed((x \o y) \o z))
    BY <2>6, FramedMute
  <2>8. Mute(o)
    BY <1>3, <2>7, MutesMade
  <2>9. QED
    BY <2>2, <2>8
<1>8. QED
  BY <1>5, <1>6, <1>7

LEMMA TouchEventMute ==
  ASSUME NEW e, EventOf(e, active)
  PROVE  Mute(TouchEvent(e).out)
<1>1. /\ IsFiniteSet(e.ids) /\ e.ids \subseteq Ids /\ active \subseteq e.ids
      /\ e.act \in {"down", "pointer_down", "up", "pointer_up"} => e.id \in Ids
  BY DEF EventOf
<1>2. \A S : S \subseteq e.ids => IsFiniteSet(S) /\ S \subseteq Ids
  BY <1>1, FS_Subset
<1>3. \A a \in {"down", "move", "up"}, x \in Ids : IsMute(Touch(a, x)) /\ Mute(<<Touch(a, x), Frame>>)
  <2>1. \A a \in {"down", "move", "up"}, x \in Ids : IsMute(Touch(a, x))
    BY DEF IsMute, TouchEvents
  <2>2. QED
    BY <2>1, MutesMade
<1>4. \A a \in {"down", "move", "up"} : \A S : S \subseteq e.ids => Mute(Touches(a, S)) /\ Mute(Touches(a, S) \o <<Frame>>)
  <2>1. SUFFICES ASSUME NEW a \in {"down", "move", "up"}, NEW S, S \subseteq e.ids
                 PROVE  Mute(Touches(a, S)) /\ Mute(Touches(a, S) \o <<Frame>>)
    OBVIOUS
  <2>2. Mute(Touches(a, S))
    BY <1>2, <2>1, TouchesMute
  <2>3. QED
    BY <2>2, FramedMute
<1>5. CASE e.act \in {"down", "pointer_down"}
  <2>1. TouchEvent(e).out = <<Touch("down", e.id), Frame>>
    BY <1>5 DEF TouchEvent
  <2>2. QED
    BY <1>1, <1>3, <1>5, <2>1
<1>6. CASE e.act \in {"up", "pointer_up"}
  <2>1. TouchEvent(e).out = Touches("down", {e.id} \ active) \o <<Touch("up", e.id), Frame>>
    BY <1>6 DEF TouchEvent
  <2>2. {e.id} \ active \subseteq e.ids
    BY <1>6 DEF EventOf
  <2>3. QED
    BY <1>1, <1>3, <1>4, <1>6, <2>1, <2>2, MutesMade
<1>7. CASE e.act = "move"
  <2>1. TouchEvent(e).out = (Touches("down", e.ids \ active) \o Touches("move", e.ids \cap active)) \o <<Frame>>
    BY <1>7 DEF TouchEvent
  <2>2. Mute(Touches("down", e.ids \ active)) /\ Mute(Touches("move", e.ids \cap active))
    BY <1>4
  <2>3. Mute(Touches("down", e.ids \ active) \o Touches("move", e.ids \cap active))
    BY <2>2, MutesMade
  <2>4. QED
    BY <2>1, <2>3, FramedMute
<1>8. CASE e.act \notin {"down", "pointer_down", "up", "pointer_up", "move"}
  <2>1. TouchEvent(e).out = Touches("up", e.ids \cap active) \o <<Frame>>
    BY <1>8 DEF TouchEvent
  <2>2. QED
    BY <1>4, <2>1
<1>9. QED
  BY <1>5, <1>6, <1>7, <1>8

\* Nothing but clicks is ever pressed on a mouse or on the touchpad.
ButtonInv ==
  /\ hw.mouse \cup hw.pad \subseteq Clicks /\ saved \subseteq Clicks
  /\ latch \in {"none"} \cup Clicks

\* A call that edits nothing.
MuteSent == UNCHANGED seat \/ \E e : Mute(e) /\ Send(e)

\* An event on the screen, and one on the touchpad.
LEMMA ScreenMute ==
  ASSUME TouchInv, NEW e, EventOf(e, fingers.screen), NEW w, Screen(e, w)
  PROVE  MuteSent /\ UNCHANGED <<hw, saved, latch>>
<1>1. /\ IsPad(tp.screen) /\ tp.screen.fwd \subseteq fingers.screen /\ active \subseteq fingers.screen
      /\ IsFiniteSet(fingers.screen) /\ fingers.screen \subseteq Ids
  BY DEF TouchInv, PadOK
<1>2. IsFiniteSet(tp.screen.fwd) /\ tp.screen.fwd \subseteq Ids
  BY <1>1, FS_Subset
<1>3. CASE padMode /\ ~w
  <2>1. PICK r \in Pad("screen", e) : Send(r.out)
    BY <1>3 DEF Screen
  <2>2. IsPad(tp["screen"]) /\ IsFiniteSet(tp["screen"].fwd) /\ tp["screen"].fwd \subseteq Ids
    BY <1>1, <1>2
  <2>3. IsFiniteSet(e.ids) /\ e.ids \subseteq Ids
    BY DEF EventOf
  <2>4. Mute(r.out)
    BY <2>2, <2>3, PadMute
  <2>5. QED
    BY <2>1, <2>4 DEF MuteSent, Screen
<1>4. CASE ~(padMode /\ ~w)
  <2>1. EventOf(e, active)
    BY <1>1 DEF EventOf
  <2>2. Mute(TouchEvent(e).out)
    BY <2>1, TouchEventMute
  <2>3. QED
    BY <1>4, <2>2 DEF MuteSent, Screen
<1>5. QED
  BY <1>3, <1>4

LEMMA PadEventMute ==
  ASSUME TouchInv, ButtonInv, NEW e, EventOf(e, fingers.pad), NEW how, NEW ids,
         NEW pressed, IsFiniteSet(pressed), pressed \subseteq Clicks, PadEvent(e, how, ids, pressed)
  PROVE  ButtonInv' /\ MuteSent
<1>1. /\ IsPad(tp.pad) /\ tp.pad.fwd \subseteq fingers.pad
      /\ IsFiniteSet(fingers.pad) /\ fingers.pad \subseteq Ids /\ IsFiniteSet(saved)
  BY DEF TouchInv, PadOK
<1>2. IsFiniteSet(tp.pad.fwd) /\ tp.pad.fwd \subseteq Ids
  BY <1>1, FS_Subset
<1>3. hw'.pad = pressed /\ hw'.mouse = hw.mouse
  BY DEF TouchInv, IsRecord, PadEvent
<1>4. CASE ~captured
  <2>1. UNCHANGED <<tp, latch, saved, seat>>
    BY <1>4 DEF PadEvent
  <2>2. QED
    BY <1>3, <2>1 DEF ButtonInv, MuteSent
<1>5. CASE captured
  <2>1. CapturedPad(e, how, pressed)
    BY <1>5 DEF PadEvent
  <2>2. PICK r, b :
          /\ r = Cancel(tp.pad) \/ r \in Pad("pad", e)
          /\ b = [latch |-> "none", bs |-> {}] \/ b \in Buttons(e.act, pressed)
          /\ latch' = b.latch /\ saved' = b.bs /\ Send(r.out \o Change(b.bs))
    BY <2>1 DEF CapturedPad
  <2>3. Mute(r.out)
    <3>1. CASE r = Cancel(tp.pad)
      <4>1. PICK p : p = tp.pad
        OBVIOUS
      <4>2. Mute(Cancel(p).out)
        BY <1>2, <4>1, CancelMute
      <4>3. QED
        BY <3>1, <4>1, <4>2
    <3>2. CASE r \in Pad("pad", e)
      <4>1. IsPad(tp["pad"]) /\ IsFiniteSet(tp["pad"].fwd) /\ tp["pad"].fwd \subseteq Ids
        BY <1>1, <1>2
      <4>2. IsFiniteSet(e.ids) /\ e.ids \subseteq Ids
        BY DEF EventOf
      <4>3. QED
        BY <3>2, <4>1, <4>2, PadMute
    <3>3. QED
      BY <2>2, <3>1, <3>2
  <2>4. IsFiniteSet(b.bs) /\ b.bs \subseteq Clicks /\ b.latch \in {"none"} \cup Clicks
    <3>1. IsFiniteSet({}) /\ \A x : IsFiniteSet({x})
      BY FS_EmptySet, FS_Singleton
    <3>2. b.bs = {} \/ b.bs = pressed \/ \E x \in Clicks : b.bs = {x}
      BY <2>2 DEF Buttons, ButtonInv, Clicks
    <3>3. b.latch \in {"none"} \cup Clicks
      BY <2>2 DEF Buttons, ButtonInv, Clicks
    <3>4. QED
      BY <3>1, <3>2, <3>3
  <2>5. Mute(Change(b.bs))
    BY <1>1, <2>4, ChangeMute
  <2>6. Mute(r.out \o Change(b.bs))
    BY <2>3, <2>5, MutesMade
  <2>7. ButtonInv'
    BY <1>3, <2>2, <2>4 DEF ButtonInv
  <2>8. QED
    BY <2>2, <2>6, <2>7 DEF MuteSent
<1>6. QED
  BY <1>4, <1>5

\* A capture that is given up.
LEMMA LetGoMute ==
  ASSUME TouchInv, ButtonInv, LetGo
  PROVE  /\ Mute(LetGoSends) /\ Mute(Change({}))
         /\ hw' = hw => ButtonInv'
<1>1. /\ tp.pad.fwd \subseteq fingers.pad /\ IsFiniteSet(fingers.pad) /\ fingers.pad \subseteq Ids /\ IsFiniteSet(saved)
  BY DEF TouchInv, PadOK
<1>2. IsFiniteSet(tp.pad.fwd) /\ tp.pad.fwd \subseteq Ids
  BY <1>1, FS_Subset
<1>3. PICK p : p = tp.pad
  OBVIOUS
<1>4. Mute(Cancel(p).out)
  BY <1>2, <1>3, CancelMute
<1>5. Mute(Change({}))
  BY <1>1, FS_EmptySet, ChangeMute
<1>6. Mute(LetGoSends)
  BY <1>3, <1>4, <1>5, MutesMade DEF LetGoSends
<1>7. saved' = {} /\ latch' = "none"
  BY DEF LetGo
<1>8. QED
  BY <1>5, <1>6, <1>7 DEF ButtonInv

\* A mouse, and all of TouchInput.tla.
LEMMA MouseMute ==
  ASSUME TouchInv, ButtonInv, MousePress \/ MouseRelease \/ MouseMoves \/ MouseCancel
  PROVE  ButtonInv' /\ MuteSent
<1>1. IsFiniteSet(hw.mouse) /\ IsFiniteSet(saved) /\ hw.mouse \subseteq Clicks /\ hw.pad \subseteq Clicks
      /\ saved \subseteq Clicks
  BY DEF TouchInv, ButtonInv
<1>2. ASSUME NEW bs, IsFiniteSet(bs), bs \subseteq Clicks, MouseEvent(bs)
      PROVE  ButtonInv' /\ MuteSent
  <2>1. /\ hw' = [hw EXCEPT !.mouse = bs] /\ latch' = latch /\ (saved' = bs \/ saved' = saved)
        /\ (saved' = bs /\ Send(Change(bs))) \/ UNCHANGED seat
    BY <1>2 DEF MouseEvent
  <2>2. hw'.mouse = bs /\ hw'.pad = hw.pad
    BY <2>1 DEF TouchInv, IsRecord
  <2>3. Mute(Change(bs))
    BY <1>1, <1>2, ChangeMute
  <2>4. QED
    BY <1>1, <1>2, <2>1, <2>2, <2>3 DEF ButtonInv, MuteSent
<1>3. \A b : IsFiniteSet(hw.mouse \cup {b}) /\ IsFiniteSet(hw.mouse \ {b})
  <2>1. PICK S : S = hw.mouse
    OBVIOUS
  <2>2. ASSUME NEW b PROVE IsFiniteSet(S \cup {b}) /\ IsFiniteSet(S \ {b})
    BY <1>1, <2>1, FS_AddElement, FS_RemoveElement
  <2>3. QED
    BY <2>1, <2>2
<1>4. CASE MousePress
  <2>1. PICK b \in Clicks : MouseEvent(hw.mouse \cup {b})
    BY <1>4 DEF MousePress, Clicks
  <2>2. QED
    BY <1>1, <1>2, <1>3, <2>1
<1>5. CASE MouseRelease
  <2>1. PICK b : MouseEvent(hw.mouse \ {b})
    BY <1>5 DEF MouseRelease
  <2>2. QED
    BY <1>1, <1>2, <1>3, <2>1
<1>6. CASE MouseMoves
  BY <1>1, <1>2, <1>6 DEF MouseMoves
<1>7. CASE MouseCancel
  <2>1. saved' = {} /\ Send(Change({})) /\ UNCHANGED <<hw, latch>>
    BY <1>7 DEF MouseCancel
  <2>2. Mute(Change({}))
    BY <1>1, FS_EmptySet, ChangeMute
  <2>3. QED
    BY <2>1, <2>2 DEF ButtonInv, MuteSent
<1>8. QED
  BY <1>4, <1>5, <1>6, <1>7

LEMMA TouchMute ==
  ASSUME TouchInv, ButtonInv, TouchStep
  PROVE  ButtonInv' /\ MuteSent
<1>1. /\ fingers.screen \subseteq Ids /\ IsFiniteSet(fingers.screen)
      /\ fingers.pad \subseteq Ids /\ IsFiniteSet(fingers.pad)
      /\ IsFiniteSet(hw.pad) /\ hw.pad \subseteq Clicks
  BY DEF TouchInv, ButtonInv
<1>2. ASSUME NEW e, EventOf(e, fingers.screen), NEW w, Screen(e, w) PROVE ButtonInv' /\ MuteSent
  BY <1>2, ScreenMute DEF ButtonInv
<1>3. ASSUME NEW e, NEW how, NEW ids, NEW b, EventOf(e, fingers.pad), b \subseteq Clicks, IsFiniteSet(b), PadEvent(e, how, ids, b)
      PROVE  ButtonInv' /\ MuteSent
  BY <1>3, PadEventMute
<1>4. CASE ScreenDown
  <2>1. EventOf(Downs("screen"), fingers["screen"])
    BY <1>1, <1>4, DownsIs DEF ScreenDown
  <2>2. QED
    BY <1>2, <1>4, <2>1 DEF ScreenDown
<1>5. CASE ScreenMoves
  <2>1. EventOf(Event("move", fingers.screen, 0), fingers.screen)
    BY <1>1, OtherIs
  <2>2. QED
    BY <1>2, <1>5, <2>1 DEF ScreenMoves
<1>6. CASE ScreenUp
  <2>1. PICK id \in fingers.screen : Screen(Ups("screen", id), swipe)
    BY <1>6 DEF ScreenUp
  <2>2. EventOf(Ups("screen", id), fingers["screen"])
    BY <1>1, <2>1, UpsIs
  <2>3. QED
    BY <1>2, <2>1, <2>2
<1>7. CASE ScreenCancel
  <2>1. EventOf(Event("cancel", fingers.screen, 0), fingers.screen)
    BY <1>1, OtherIs
  <2>2. QED
    BY <1>2, <1>7, <2>1 DEF ScreenCancel
<1>8. CASE PadDown
  <2>1. EventOf(Downs("pad"), fingers["pad"])
    BY <1>1, <1>8, DownsIs DEF PadDown
  <2>2. QED
    BY <1>1, <1>3, <1>8, <2>1 DEF PadDown
<1>9. CASE PadMoves
  <2>1. EventOf(Event("move", fingers.pad, 0), fingers.pad)
    BY <1>1, OtherIs
  <2>2. QED
    BY <1>1, <1>3, <1>9, <2>1 DEF PadMoves
<1>10. CASE PadUp
  <2>1. PICK id \in fingers.pad : \E how : PadEvent(Ups("pad", id), how, fingers.pad \ {id}, hw.pad)
    BY <1>10 DEF PadUp
  <2>2. EventOf(Ups("pad", id), fingers["pad"])
    BY <1>1, <2>1, UpsIs
  <2>3. QED
    BY <1>1, <1>3, <2>1, <2>2
<1>11. CASE PadCancel
  <2>1. EventOf(Event("cancel", fingers.pad, 0), fingers.pad)
    BY <1>1, OtherIs
  <2>2. QED
    BY <1>1, <1>3, <1>11, <2>1 DEF PadCancel
<1>12. CASE PadPress
  <2>1. EventOf(Event("button_press", fingers.pad, 0), fingers.pad)
    BY <1>1, OtherIs
  <2>2. IsFiniteSet({"left"}) /\ {"left"} \subseteq Clicks
    BY FS_Singleton DEF Clicks
  <2>3. QED
    BY <1>3, <1>12, <2>1, <2>2 DEF PadPress
<1>13. CASE PadRelease
  <2>1. EventOf(Event("button_release", fingers.pad, 0), fingers.pad)
    BY <1>1, OtherIs
  <2>2. IsFiniteSet({}) /\ {} \subseteq Clicks
    BY FS_EmptySet
  <2>3. QED
    BY <1>3, <1>13, <2>1, <2>2 DEF PadRelease
<1>14. CASE CaptureGained
  BY <1>14 DEF CaptureGained, ButtonInv, MuteSent
<1>15. CASE CaptureReleased \/ CaptureLost
  <2>1. LetGo /\ Send(LetGoSends) /\ hw' = hw
    BY <1>15 DEF CaptureReleased, CaptureLost
  <2>2. QED
    BY <2>1, LetGoMute DEF MuteSent
<1>16. QED
  BY <1>4, <1>5, <1>6, <1>7, <1>8, <1>9, <1>10, <1>11, <1>12, <1>13, <1>14, <1>15, MouseMute DEF TouchStep

-----------------------------------------------------------------------------
(* What everything else leaves of the text.                                 *)

\* What the desktop has, and what the keyboard takes it to have, is what it was.
TextLeft == desk'.deaf \/ (~desk.deaf /\ desk'.text = desk.text /\ (Clean(desk) => Clean(desk')))
ImeLeft  ==
  ime'.alone => /\ ime.alone /\ ime'.mirror = ime.mirror /\ ime'.composing = ime.composing
                /\ ime'.doc = ime.doc /\ ime'.comp = ime.comp /\ ime'.tangled = ime.tangled

\* Then the one still is the other.
LEMMA LeftHolds ==
  ASSUME TextInv, ImeLeft, ime'.alone => TextLeft
  PROVE  TextInv'
<1>1. SUFFICES ASSUME ime'.alone, ~desk'.deaf, ~ime'.tangled
               PROVE  desk'.text = ime'.doc /\ Clean(desk') /\ Mirrored(ime')
  BY DEF TextInv, Clean, Mirrored
<1>2. /\ ime.alone /\ ~ime.tangled /\ ime'.mirror = ime.mirror /\ ime'.composing = ime.composing
      /\ ime'.doc = ime.doc /\ ime'.comp = ime.comp
  BY <1>1 DEF ImeLeft
<1>3. ~desk.deaf /\ desk'.text = desk.text /\ (Clean(desk) => Clean(desk'))
  BY <1>1 DEF TextLeft
<1>4. desk.text = ime.doc /\ Clean(desk) /\ Mirrored(ime)
  BY <1>2, <1>3 DEF TextInv
<1>5. Mirrored(ime')
  BY <1>2, <1>4 DEF Mirrored
<1>6. QED
  BY <1>2, <1>3, <1>4, <1>5

\* What edits nothing leaves the text, whether it is taken or not; so does a lost session.
LEMMA MuteLeaves ==
  ASSUME IsDesk(desk), up \in BOOLEAN, NEW e, Mute(e), Send(e) \/ SendAndStop(e)
  PROVE  TextLeft
<1>1. SUFFICES ASSUME ~desk'.deaf PROVE ~desk.deaf /\ desk'.text = desk.text /\ (Clean(desk) => Clean(desk'))
  BY DEF TextLeft
<1> DEFINE d == [desk EXCEPT !.torn = FALSE]
<1>2. /\ ~desk.deaf /\ desk'.text = TakenBy(d, e).text /\ (Clean(TakenBy(d, e)) => Clean(desk'))
  BY <1>1, MutesMade, SentHeard DEF Heard
<1>3. IsRecord(d, DeskFields) /\ d.text = desk.text /\ d.held = desk.held
  BY DEF IsDesk, IsRecord, DeskFields
<1> HIDE DEF d
<1>4. SameText(d, TakenBy(d, e))
  BY <1>3, MuteTaken
<1>5. QED
  BY <1>2, <1>3, <1>4 DEF SameText, Clean

LEMMA FallenLeaves ==
  ASSUME IsDesk(desk), desk' = [desk EXCEPT !.torn = FALSE] \/ desk' = Fallen([desk EXCEPT !.torn = FALSE])
  PROVE  TextLeft
<1>1. PICK d : d = [desk EXCEPT !.torn = FALSE]
  OBVIOUS
<1>2. IsRecord(d, DeskFields) /\ d.deaf = desk.deaf /\ d.text = desk.text /\ d.held = desk.held
  BY <1>1 DEF IsDesk, IsRecord, DeskFields
<1>3. d = [d EXCEPT !.deaf = d.deaf]
  BY <1>2 DEF IsRecord, DeskFields
<1>4. PICK y : y = d.deaf
  OBVIOUS
<1>5. LET e == Fallen([d EXCEPT !.deaf = y]) IN e.deaf = y /\ e.text = d.text /\ (Clean(d) => Clean(e))
  BY <1>2, FallenText
<1>6. desk' = d \/ desk' = Fallen([d EXCEPT !.deaf = y])
  BY <1>1, <1>3, <1>4
<1>7. QED
  BY <1>2, <1>4, <1>5, <1>6 DEF TextLeft, Clean

-----------------------------------------------------------------------------
(* All that a user does.                                                    *)

\* A call that edits nothing, and one of keys that are not the soft keyboard's own.
LEMMA MuteHolds ==
  ASSUME IsDesk(desk), up \in BOOLEAN, TextInv, UNCHANGED ime, MuteSent
  PROVE  TextInv'
<1>1. ImeLeft
  BY DEF ImeLeft
<1>2. CASE UNCHANGED seat
  <2>1. desk' = desk
    BY <1>2 DEF seat
  <2>2. ime'.alone => TextLeft
    BY <2>1 DEF TextLeft
  <2>3. QED
    BY <1>1, <2>2, LeftHolds
<1>3. CASE \E e : Mute(e) /\ Send(e)
  <2>1. TextLeft
    BY <1>3, MuteLeaves
  <2>2. QED
    BY <1>1, <2>1, LeftHolds
<1>4. QED
  BY <1>2, <1>3 DEF MuteSent

LEMMA ForeignHolds ==
  ASSUME IsDesk(desk), up \in BOOLEAN, SoftInv, TextInv, Foreign
  PROVE  TextInv'
<1>1. PICK e : Quiet(e) /\ Send(e) /\ (Disturbs(e) \/ (e = <<>> /\ ime' = ime))
  BY DEF Foreign
<1>2. CASE e = <<>> /\ ime' = ime
  <2>1. Mute(e)
    BY <1>2, MutesMade
  <2>2. QED
    BY <1>1, <1>2, <2>1, MuteHolds DEF MuteSent
<1>3. CASE Disturbs(e)
  <2>1. PICK S : e \in Seq(S) /\ \A ev \in S : IsQuiet(ev)
    BY <1>1 DEF Quiet
  <2>2. DOMAIN e = 1..Len(e) /\ \A i \in 1..Len(e) : e[i] \in S
    BY <2>1
  <2>3. PICK a : a = (ime.alone /\ \A i \in DOMAIN e : e[i].action = "up")
    OBVIOUS
  <2>4. ime' = [ime EXCEPT !.alone = a]
    <3>1. "alone" \in DOMAIN ime
      BY DEF SoftInv, IsIme, IsRecord, ImeFields
    <3>2. QED
      BY <1>3, <2>3, <3>1 DEF Disturbs
  <2>5. /\ ime'.alone = a /\ ime'.mirror = ime.mirror /\ ime'.composing = ime.composing
        /\ ime'.doc = ime.doc /\ ime'.comp = ime.comp /\ ime'.tangled = ime.tangled
    BY <2>4 DEF SoftInv, IsIme, IsRecord, ImeFields
  <2>6. ImeLeft
    BY <2>3, <2>5 DEF ImeLeft
  <2>7. ASSUME ime'.alone PROVE TextLeft
    <3>1. \A i \in 1..Len(e) : e[i].action = "up"
      BY <2>2, <2>3, <2>5, <2>7
    <3>2. ASSUME NEW i \in 1..Len(e) PROVE IsMute(e[i])
      <4>1. IsQuiet(e[i]) /\ e[i].action = "up"
        BY <2>1, <2>2, <3>1
      <4>2. QED
        BY <4>1 DEF IsQuiet, IsMute
    <3>3. List(e)
      BY <1>1, ListsMade
    <3>4. Mute(e)
      BY <3>2, <3>3, MuteEach
    <3>5. QED
      BY <1>1, <3>4, MuteLeaves
  <2>8. QED
    BY <2>6, <2>7, LeftHolds
<1>4. QED
  BY <1>1, <1>2, <1>3

\* The buttons are those they were.
LEMMA SameButtons ==
  ASSUME ButtonInv, UNCHANGED <<hw, saved, latch>>
  PROVE  ButtonInv'
BY DEF ButtonInv

\* Both together.
TextHolds == ButtonInv /\ TextInv

\* A key of a hardware keyboard, and one that gives up the capture.
LEMMA KeepsText ==
  ASSUME IsDesk(desk), up \in BOOLEAN, SoftInv, TextHolds, NEW e, Quiet(e), Keep(e)
  PROVE  TextHolds'
<1>1. Foreign /\ UNCHANGED <<hw, saved, latch>>
  BY DEF Keep, Foreign, touch
<1>2. QED
  BY <1>1, ForeignHolds, SameButtons DEF TextHolds

LEMMA LetGoText ==
  ASSUME IsDesk(desk), up \in BOOLEAN, TouchInv, TextHolds, LetGo, hw' = hw, UNCHANGED ime, NEW q, Mute(q),
         Send(q \o LetGoSends) \/ Send(LetGoSends)
  PROVE  TextHolds'
<1>1. Mute(LetGoSends) /\ ButtonInv'
  BY LetGoMute DEF TextHolds
<1>2. Mute(q \o LetGoSends)
  BY <1>1, MutesMade
<1>3. MuteSent
  BY <1>1, <1>2 DEF MuteSent
<1>4. QED
  BY <1>1, <1>3, MuteHolds DEF TextHolds

\* Nothing is sent.
LEMMA TextStays ==
  ASSUME IsDesk(desk), up \in BOOLEAN, TextHolds, desk' = desk, UNCHANGED <<ime, hw, saved, latch>>
  PROVE  TextHolds'
<1>1. ImeLeft /\ TextLeft
  BY DEF ImeLeft, TextLeft
<1>2. QED
  BY <1>1, LeftHolds, SameButtons DEF TextHolds

\* All of HardKeys.tla; and the native side that stops.
LEMMA HardText ==
  ASSUME PhoneInv, TextHolds, HardStep
  PROVE  TextHolds'
<1>1. /\ TouchInv /\ SoftInv /\ IsFiniteSet(hard.given) /\ IsDesk(desk) /\ up \in BOOLEAN
  BY DEF PhoneInv, HardInv, SeatInv
<1>2. ASSUME UNCHANGED <<seat, touch, soft>> PROVE TextHolds'
  <2>1. desk' = desk /\ UNCHANGED <<ime, hw, saved, latch>>
    BY <1>2 DEF seat, touch, soft
  <2>2. QED
    BY <1>1, <2>1, TextStays
<1>3. ASSUME NEW q, Mute(q), LetGo, Send(q \o LetGoSends) \/ Send(LetGoSends),
             UNCHANGED <<fingers, swipe, hw, active, padMode, captured, soft>>
      PROVE  TextHolds'
  <2>1. hw' = hw /\ UNCHANGED ime
    BY <1>3 DEF soft
  <2>2. QED
    BY <1>1, <1>3, <2>1, LetGoText
<1>4. CASE HwDown
  <2>1. PICK k, h : \/ UNCHANGED <<seat, touch, soft>>
                   \/ BackDown(h) \/ Down(k, h)
    BY <1>4 DEF HwDown
  <2>2. CASE BackDown(h)
    BY <1>3, <2>2, MutesMade DEF BackDown
  <2>3. CASE Down(k, h)
    <3>1. Quiet(<<>>) /\ Quiet(<<Press(Code(k, Way))>>)
      BY KeySends, KeysQuiet
    <3>2. \/ \E e : Quiet(e) /\ Keep(e)
          \/ Send(<<>>) /\ UNCHANGED <<touch, vk, ime>>
      BY <2>3, <3>1 DEF Down
    <3>3. CASE Send(<<>>) /\ UNCHANGED <<touch, vk, ime>>
      <4>1. Foreign /\ UNCHANGED <<hw, saved, latch>>
        BY <3>1, <3>3 DEF Foreign, touch
      <4>2. QED
        BY <1>1, <4>1, ForeignHolds, SameButtons DEF TextHolds
    <3>4. QED
      BY <1>1, <3>2, <3>3, KeepsText
  <2>4. QED
    BY <1>2, <2>1, <2>2, <2>3
<1>5. CASE HwUp
  <2>1. PICK k : \/ UNCHANGED <<seat, touch, soft>>
                \/ Keep(<<>>) \/ Keep(<<Release(Code(k, Way))>>)
    BY <1>5 DEF HwUp
  <2>2. Quiet(<<>>) /\ Quiet(<<Release(Code(k, Way))>>)
    BY KeySends, KeysQuiet
  <2>3. QED
    BY <1>1, <1>2, <2>1, <2>2, KeepsText
<1>6. CASE FocusLost
  <2>1. PICK gone : gone = {k \in hard.given : k = "BACK" => ~hard.backUp}
    OBVIOUS
  <2>2. PICK q : q = Each(Release, gone)
    OBVIOUS
  <2>3. /\ LetGo /\ Send(q \o LetGoSends)
        /\ UNCHANGED <<fingers, swipe, hw, active, padMode, captured, soft>>
    BY <1>6, <2>1, <2>2 DEF FocusLost
  <2>4. IsFiniteSet(gone)
    BY <1>1, <2>1, FS_Subset
  <2>5. Mute(q)
    BY <2>2, <2>4, EachMute
  <2>6. QED
    BY <1>3, <2>3, <2>5
<1>7. CASE SettingChanges \/ ServiceConnects
  BY <1>2, <1>7 DEF SettingChanges, ServiceConnects
<1>8. QED
  BY <1>4, <1>5, <1>6, <1>7 DEF HardStep

LEMMA StopsText ==
  ASSUME PhoneInv, TextHolds, Pause \/ SurfaceChanged
  PROVE  TextHolds'
<1>1. TouchInv /\ IsDesk(desk) /\ up \in BOOLEAN
  BY DEF PhoneInv, SeatInv
<1>2. PICK e : Mute(e) /\ SendAndStop(e) /\ UNCHANGED ime /\ ButtonInv'
  <2>1. CASE Pause
    <3>1. LetGo /\ hw' = hw /\ SendAndStop(LetGoSends) /\ UNCHANGED ime
      BY <2>1 DEF Pause, TouchPause, soft
    <3>2. Mute(LetGoSends) /\ ButtonInv'
      BY <1>1, <3>1, LetGoMute DEF TextHolds
    <3>3. QED
      BY <3>1, <3>2
  <2>2. CASE SurfaceChanged
    <3>1. SendAndStop(<<>>) /\ UNCHANGED <<ime, hw, saved, latch>>
      BY <2>2 DEF SurfaceChanged, touch, soft
    <3>2. QED
      BY <3>1, MutesMade, SameButtons DEF TextHolds
  <2>3. QED
    BY <2>1, <2>2
<1>3. ImeLeft
  BY <1>2 DEF ImeLeft
<1>4. TextLeft
  BY <1>1, <1>2, MuteLeaves
<1>5. QED
  BY <1>2, <1>3, <1>4, LeftHolds DEF TextHolds

\* It holds at first, and each step keeps it.
LEMMA TextInit ==
  ASSUME Init
  PROVE  TextHolds
<1>1. hw = [mouse |-> {}, pad |-> {}] /\ saved = {} /\ latch = "none"
  BY DEF Init, TouchInit
<1>2. ButtonInv
  BY <1>1 DEF ButtonInv
<1>3. /\ ime.mirror = <<>> /\ ime.composing = <<>> /\ ime.doc = <<>> /\ ime.comp = 0
  BY DEF Init, SoftInit
<1>4. desk.text = <<>> /\ desk.held = {}
  BY DEF Init, SeatInit, Desk
<1>5. Typed(<<>>, <<>>, <<>>, <<>>, <<>>)
  <2>1. PICK C : C = Chars
    OBVIOUS
  <2>2. <<>> \in Seq(C) /\ <<>> \o <<>> = <<>>
    OBVIOUS
  <2>3. QED
    BY <2>1, <2>2 DEF Typed
<1>6. Mirrored(ime)
  <2>1. PICK f : f = ime.composing
    OBVIOUS
  <2>2. Len(f) = 0
    BY <1>3, <2>1
  <2>3. QED
    BY <1>3, <1>5, <2>1, <2>2 DEF Mirrored
<1>7. QED
  BY <1>2, <1>3, <1>4, <1>6 DEF TextHolds, TextInv, Clean

LEMMA TextNext ==
  ASSUME PhoneInv, TextHolds, [Next]_vars
  PROVE  TextHolds'
<1>1. TouchInv /\ SoftInv /\ IsDesk(desk) /\ up \in BOOLEAN /\ ButtonInv /\ TextInv
  BY DEF PhoneInv, SeatInv, TextHolds
<1>2. CASE TouchStep /\ UNCHANGED <<focused, soft, hard>>
  <2>1. ButtonInv' /\ MuteSent /\ UNCHANGED ime
    BY <1>1, <1>2, TouchMute DEF soft
  <2>2. QED
    BY <1>1, <2>1, MuteHolds DEF TextHolds
<1>3. CASE SoftStep /\ UNCHANGED <<focused, touch, hard>>
  <2>1. ButtonInv'
    BY <1>1, <1>3, SameButtons DEF touch
  <2>2. TextInv'
    <3>1. CASE VkDown \/ VkUp \/ VkCancel
      BY <1>1, <3>1, VkSteps, ForeignHolds
    <3>2. CASE BarDown \/ BarSwipe \/ BarUp \/ BarCancel \/ BarRepeats \/ BarLocks \/ BarShows \/ BarHides
      BY <1>1, <3>2, BarSteps, ForeignHolds
    <3>3. CASE ImeComposes \/ ImeCommits \/ ImeFinishes \/ ImeDeletes \/ ImeReclaims \/ ImeBackspace \/ ImeEnter
      BY <1>1, <3>3, ImeKeepsText
    <3>4. QED
      BY <1>3, <3>1, <3>2, <3>3 DEF SoftStep
  <2>3. QED
    BY <2>1, <2>2 DEF TextHolds
<1>4. CASE HardStep
  BY <1>4, HardText
<1>5. ASSUME desk' = desk, UNCHANGED <<touch, soft>> PROVE TextHolds'
  <2>1. UNCHANGED <<ime, hw, saved, latch>>
    BY <1>5 DEF touch, soft
  <2>2. QED
    BY <1>1, <1>5, <2>1, TextStays DEF TextHolds
<1>6. CASE ClipStep /\ UNCHANGED <<touch, soft, hard, straddled, muddled>>
  <2>1. desk' = desk
    BY <1>6 DEF ClipStep, PhoneCopy, ListenerRuns, RenderListens, RenderStarts, RenderReads, RenderSends,
                EventTakes, EventSets, DesktopCopy, PullEnds, PullFails, DesktopTakes, seat
  <2>2. QED
    BY <1>5, <1>6, <2>1
<1>7. CASE FocusGained /\ UNCHANGED <<touch, soft, hard, straddled, muddled>>
  BY <1>5, <1>7 DEF FocusGained, seat
<1>8. CASE (SessionOpens \/ SessionLost) /\ UNCHANGED <<focused, left, touch, soft, hard>>
  <2>1. TextLeft
    BY <1>1, <1>8, FallenLeaves DEF SessionOpens, SessionLost
  <2>2. ImeLeft /\ UNCHANGED <<hw, saved, latch>>
    BY <1>8 DEF ImeLeft, touch, soft
  <2>3. QED
    BY <1>1, <2>1, <2>2, LeftHolds, SameButtons DEF TextHolds
<1>9. CASE Resume
  <2>1. desk' = desk /\ UNCHANGED <<ime, hw, saved, latch>>
    BY <1>9 DEF Resume, TouchResume, soft
  <2>2. QED
    BY <1>1, <2>1, TextStays DEF TextHolds
<1>10. CASE Pause \/ SurfaceChanged
  BY <1>10, StopsText
<1>11. CASE UNCHANGED vars
  BY <1>5, <1>11 DEF vars
<1>12. QED
  BY <1>2, <1>3, <1>4, <1>6, <1>7, <1>8, <1>9, <1>10, <1>11 DEF Next

\* As long as only the soft keyboard types and nothing is lost, and it has taken no Enter back,
\* the field holds what the soft keyboard takes it to hold: for any words, edits and texts of any
\* length, in whatever way words are composed, replaced from where they differ, committed, deleted
\* and composed again, with fingers, buttons, clipboards and sessions between (SystemIME.java,
\* replaceComposing, commitText, setComposingRegion; Seat.tla's field).
THEOREM TextIsTyped == Spec => []ImeText
<1>1. TextHolds => ImeText
  BY DEF TextHolds, TextInv, ImeText
<1>2. QED
  BY PhoneInvInit, PhoneInvNext, TextInit, TextNext, <1>1, PTL DEF Spec
=============================================================================
