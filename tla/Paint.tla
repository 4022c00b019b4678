-------------------------------- MODULE Paint --------------------------------
(* The program src/user/paint.c on one hart, at the end of Input: it reads the      *)
(* events of the keyboard and the tablet and draws lines between the places where   *)
(* the tablet reports the cursor.  What it does with the events of one get_events   *)
(* is its own and one step with the end of the call.  The buttons are the tablet's. *)
EXTENDS Input, SequencesExt

CONSTANTS
    Painter,                    \* the hart that runs paint
    EVENT_BUF_SIZE,
    Tablet,                     \* the tablet among the devices
    Reports,                    \* what it may report in the course of time
    WIDTH, HEIGHT,              \* the screen
    ABS_MAX,                    \* 0x7fff, the tablet's largest coordinate
    BRUSH_SIZE, NUM_COLORS, COLORS_HEIGHT

ASSUME PaintAssumption ==
    /\ Painter \in Readers /\ Tablet \in Device
    /\ {EVENT_BUF_SIZE, ABS_MAX, BRUSH_SIZE, NUM_COLORS} \subseteq Nat \ {0}
    /\ {WIDTH, HEIGHT, COLORS_HEIGHT} \subseteq Nat
    /\ BRUSH_SIZE % 2 = 0 /\ WIDTH > 6 * BRUSH_SIZE /\ HEIGHT > 2 * COLORS_HEIGHT + 6 * BRUSH_SIZE
    /\ \A r \in Reports : Len(r) >= MaxMade[Tablet]

VARIABLES
    reports,            \* what the tablet reports this time
    events,             \* paint's event_buffer
    app,                \* app_state, the x that waits for its y (handle_event_buffer), and
                        \* the lines drawn for the events of the last get_events
    heard               \* history: the tablet's events in the order paint got them
paint_vars == <<reports, events, app, heard>>

Rectangle(x, y, width, height) == [x |-> x, y |-> y, width |-> width, height |-> height]
NoRectangle == Rectangle(-1, -1, -1, -1)

\* app_init.
Canvas == Rectangle(0, COLORS_HEIGHT, WIDTH, HEIGHT - COLORS_HEIGHT)
ColorPicker == Rectangle(0, 0, WIDTH, COLORS_HEIGHT)
Color(i) == Rectangle((WIDTH \div NUM_COLORS) * i, 0, WIDTH \div NUM_COLORS, COLORS_HEIGHT)
White == NUM_COLORS

\* app_state is zero where app_init leaves it, prev_brush_rect included.
PaintInit ==
    /\ Init
    /\ reports \in Reports
    /\ events = <<>> /\ heard = <<>>
    /\ app = [x |-> 0, y |-> 0, left |-> 0, right |-> 0, prev_brush_rect |-> Rectangle(0, 0, 0, 0),
              active_color |-> 0, x_event |-> NoEvent, lines |-> <<>>, at |-> <<NoEvent, NoEvent>>]

What(e) == IF e.from = Tablet THEN reports[e.nth] ELSE [code |-> "KEY", value |-> 1]

-----------------------------------------------------------------------------
(* Lines. *)

Absolute(n) == IF n < 0 THEN -n ELSE n
\* Division in C.
Quotient(n, d) == IF n < 0 THEN -((-n) \div d) ELSE n \div d

\* The way from one brush to the next: at most as far as keeps them in touch.
Limited(n, abs) == IF abs > BRUSH_SIZE THEN Quotient(n, abs) * (BRUSH_SIZE - 1) ELSE n
Step_NotLimited(from, to) ==
    LET rise == to.y - from.y
        run  == to.x - from.x
        d    == IF Absolute(rise) > Absolute(run) THEN Absolute(run) ELSE Absolute(rise)
        by   == IF d = 0 THEN 1 ELSE d
    IN  [from EXCEPT !.x = @ + Quotient(run, by), !.y = @ + Quotient(rise, by)]
Step(from, to) ==
    LET rise == to.y - from.y
        run  == to.x - from.x
        d    == IF Absolute(rise) > Absolute(run) THEN Absolute(run) ELSE Absolute(rise)
        by   == IF d = 0 THEN 1 ELSE d
        on(n) == Limited(Quotient(n, by), Absolute(n) \div by)
    IN  [from EXCEPT !.x = @ + on(run), !.y = @ + on(rise)]

\* The rectangles that draw_line fills, and the one it flushes: turn is the places of the
\* brush after n turns of the loop.  It is there after far turns, as each takes it nearer.
draw_line(from, to) ==
    LET far == Absolute(to.x - from.x) + Absolute(to.y - from.y)
        turn[n \in 0 .. far] ==
            IF n = 0 THEN <<from>>
            ELSE LET before == turn[n - 1]
                     at == Last(before)
                 IN  IF at.x = to.x /\ at.y = to.y THEN before ELSE Append(before, Step(at, to))
    IN  Append(Front(turn[far]), to)
Flushed(from, to) ==
    LET low(a, b) == IF a < b THEN a ELSE b
    IN  Rectangle(low(from.x, to.x), low(from.y, to.y),
                  IF from.x < to.x THEN to.x - from.x + to.width ELSE from.x - to.x + from.width,
                  IF from.y < to.y THEN to.y - from.y + to.height ELSE from.y - to.y + from.height)

is_inside_rectangle(x, y, rect) ==
    x \in rect.x .. rect.x + rect.width - 1 /\ y \in rect.y .. rect.y + rect.height - 1

\* Where a brush begins: around the position, or at the edge.
BrushFrom(pos, size, first, length, screen) ==
    LET from == IF pos - (size \div 2) < first THEN first ELSE pos - (size \div 2)
        to   == IF pos - (size \div 2) < first THEN first + size ELSE pos + (size \div 2)
    IN  IF to >= length THEN screen - 1 - size ELSE from
get_brush_rect_from_pos(s, size) ==
    Rectangle(BrushFrom(s.x, size, Canvas.x, Canvas.width, WIDTH),
              BrushFrom(s.y, size, Canvas.y, Canvas.height, HEIGHT), size, size)

-----------------------------------------------------------------------------
(* Events. *)

\* The left button draws on from the last brush, the right one erases.
app_canvas_handle_cursor_event(s) ==
    LET to    == get_brush_rect_from_pos(s, IF s.left = 1 THEN BRUSH_SIZE ELSE 5 * BRUSH_SIZE)
        from  == IF s.left = 0 \/ s.prev_brush_rect = NoRectangle THEN to ELSE s.prev_brush_rect
        pixel == IF s.left = 1 THEN s.active_color ELSE White
    IN  IF s.left = 0 /\ s.right = 0 THEN [s EXCEPT !.prev_brush_rect = NoRectangle]
        ELSE [s EXCEPT !.prev_brush_rect = to,
                       !.lines = Append(@, [from |-> from, to |-> to, pixel |-> pixel])]

app_handle_cursor_event(s, event_x, event_y) ==
    LET t == [s EXCEPT !.x = (What(event_x).value * WIDTH) \div ABS_MAX,
                       !.y = (What(event_y).value * HEIGHT) \div ABS_MAX,
                       !.at = <<event_x, event_y>>]
    IN  IF is_inside_rectangle(t.x, t.y, Canvas) THEN app_canvas_handle_cursor_event(t) ELSE t

app_color_picker_handle_click_event(s) ==
    LET under == {i \in 0 .. NUM_COLORS - 1 : is_inside_rectangle(s.x, s.y, Color(i))}
    IN  IF s.left = 0 \/ under = {} THEN s
        ELSE [s EXCEPT !.active_color = CHOOSE i \in under : \A j \in under : i <= j]

app_handle_click_event(s, e) ==
    IF What(e).code = "BTN_RIGHT" THEN [s EXCEPT !.right = What(e).value]
    ELSE LET t == [s EXCEPT !.left = What(e).value]
         IN  IF is_inside_rectangle(s.x, s.y, ColorPicker)
             THEN app_color_picker_handle_click_event(t) ELSE t

app_handle_event_KeepsX(s, e) ==
    CASE What(e).code = "ABS_X" -> [s EXCEPT !.x_event = e]
      [] What(e).code = "ABS_Y" /\ s.x_event # NoEvent ->
             app_handle_cursor_event([s EXCEPT !.x_event = NoEvent], s.x_event, e)
      [] What(e).code \in {"BTN_LEFT", "BTN_RIGHT"} -> app_handle_click_event(s, e)
      [] OTHER -> s
\* A y counts right after an x only, and nothing else is heard right after an x.
app_handle_event(s, e) ==
    LET t == [s EXCEPT !.x_event = NoEvent]
    IN  CASE s.x_event = NoEvent /\ What(e).code = "ABS_X" -> [s EXCEPT !.x_event = e]
          [] s.x_event # NoEvent /\ What(e).code = "ABS_Y" ->
                 app_handle_cursor_event(t, s.x_event, e)
          [] s.x_event = NoEvent /\ What(e).code \in {"BTN_LEFT", "BTN_RIGHT"} ->
                 app_handle_click_event(t, e)
          [] OTHER -> t

\* What becomes of s with the events of one get_events: turn is app_state after n of them.
handle_events(s, got) ==
    LET turn[n \in 0 .. Len(got)] ==
            IF n = 0 THEN s ELSE app_handle_event(turn[n - 1], got[n])
    IN  turn[Len(got)]

\* app_loop: get_events, to whose end belongs what the program does with its events.
get_events == GetEvents(Painter, EVENT_BUF_SIZE) /\ UNCHANGED paint_vars
app_loop ==
    /\ PopEvent(Painter)
    /\ LET got == IF taken' = NoEvent THEN events ELSE Append(events, taken')
       IN  IF max_events'[Painter] # -1
           THEN events' = got /\ UNCHANGED <<app, heard>>
           ELSE /\ events' = <<>>
                /\ app' = handle_events([app EXCEPT !.lines = <<>>], got)
                /\ heard' = heard \o got
    /\ UNCHANGED reports

PaintNext ==
    \/ get_events \/ app_loop
    \/ /\ \/ Handler
          \/ \E d \in Device : Deliver(d)
          \/ \E r \in Readers \ {Painter} : PopEvent(r) \/ \E max \in MaxEventsArgs : GetEvents(r, max)
       /\ UNCHANGED paint_vars

PaintSpec == PaintInit /\ [][PaintNext]_<<vars, paint_vars>> /\ WF_vars(Handler)

-----------------------------------------------------------------------------
(* Properties. *)

\* Every line is drawn without a gap, inside the canvas, and shown: what is filled is
\* flushed.  A line between brushes of different sizes (from an eraser, or from the empty
\* rectangle that paint begins with) is not, at its end.
Within(rect, area) ==
    /\ rect.x >= area.x /\ rect.x + rect.width <= area.x + area.width
    /\ rect.y >= area.y /\ rect.y + rect.height <= area.y + area.height
LinesShown ==
    \A k \in DOMAIN app.lines :
        LET from  == app.lines[k].from
            to    == app.lines[k].to
            fills == draw_line(from, to)
        IN  /\ Within(to, Canvas)
            /\ from.width = to.width =>
                   \A i \in DOMAIN fills :
                       /\ Within(fills[i], Canvas) /\ Within(fills[i], Flushed(from, to))
                       /\ i > 1 => /\ Absolute(fills[i].x - fills[i - 1].x) <= BRUSH_SIZE
                                   /\ Absolute(fills[i].y - fills[i - 1].y) <= BRUSH_SIZE

\* Where paint has the cursor is a pair of coordinates that it got one right after the
\* other, so that at most events lost to the ring lie between them; and a button is as an
\* event of it said, after which only events right behind an x could say otherwise.
Said(code, value) ==
    LET told == {i \in DOMAIN heard : What(heard[i]).code = code}
    IN  \E i \in told \cup {0} :
            /\ value = IF i = 0 THEN 0 ELSE What(heard[i]).value
            /\ \A j \in told : j > i => j > 1 /\ What(heard[j - 1]).code = "ABS_X"
FollowsReports ==
    /\ app.at[1] # NoEvent => \E i \in 2 .. Len(heard) : app.at = <<heard[i - 1], heard[i]>>
    /\ Said("BTN_LEFT", app.left) /\ Said("BTN_RIGHT", app.right)
=============================================================================
