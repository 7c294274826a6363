------------------------------- MODULE Snake -------------------------------
(***************************************************************************)
(* The game in the flash (phase8/software/snake.c): the game loop with its *)
(* one key per tick, the body, the food and the terminal's picture, which  *)
(* is repaired cell by cell and never redrawn.  The score and the banners  *)
(* are left out.                                                           *)
(***************************************************************************)
EXTENDS Integers, Sequences

CONSTANTS Width, Height,      \* FIELD_W, FIELD_H
          MaxSnake, InitLen   \* MAX_SNAKE, INIT_LEN

ASSUME GameAssumption ==
  /\ {Width, Height, MaxSnake, InitLen} \subseteq Nat \ {0}
  /\ InitLen <= Width \div 2 + 1  \* the first snake is inside the field
  /\ 1 < InitLen /\ InitLen <= MaxSnake
  /\ MaxSnake < Width * Height    \* there is always room for food

VARIABLES
  game,        \* where main() is: "off" before it runs, "welcome", "play", "over" or "halted"
  body,        \* snake[0 .. snake_len - 1], the head first
  dir, food,
  screen,      \* what the terminal shows in each cell
  fedAtMax     \* history: food was eaten at the greatest length

snakeVars == <<game, body, dir, food, screen, fedAtMax>>

Cell == (0..Width - 1) \X (0..Height - 1)
Nowhere == <<-1, -1>>

\* The keys of the four directions, and where they lead.
Direction == {"W", "S", "A", "D"}
Step == [W |-> <<0, -1>>, S |-> <<0, 1>>, A |-> <<-1, 0>>, D |-> <<1, 0>>]
Opposite == [W |-> "S", S |-> "W", A |-> "D", D |-> "A"]
Key == Direction \cup {"Q", "R", "other"}

SnakeTypeOK ==
  /\ game \in {"off", "welcome", "play", "over", "halted"}
  /\ body \in Seq(Cell) /\ Len(body) <= MaxSnake
  /\ dir \in Direction
  /\ food \in Cell \cup {Nowhere}
  /\ screen \in [Cell -> {" ", "@", "o", "*"}]
  /\ fedAtMax \in BOOLEAN

Toward(cell, d) == <<cell[1] + Step[d][1], cell[2] + Step[d][2]>>
Covered(b) == {b[i] : i \in 1..Len(b)}

\* The terminal after characters were drawn one after the other.
Blank == [c \in Cell |-> " "]
Picture(b, f) ==
  [c \in Cell |-> IF c = Head(b) THEN "@"
                  ELSE IF c \in Covered(Tail(b)) THEN "o"
                  ELSE IF c = f THEN "*" ELSE " "]

-----------------------------------------------------------------------------
SnakeOff ==
  /\ game = "off" /\ body = <<>> /\ dir = "D" /\ food = Nowhere
  /\ screen = Blank /\ fedAtMax = FALSE

Off ==
  /\ game' = "off" /\ body' = <<>> /\ dir' = "D" /\ food' = Nowhere
  /\ screen' = Blank /\ fedAtMax' = FALSE

\* main() up to "Press any key to start..."
Welcome ==
  /\ game = "off" /\ game' = "welcome"
  /\ UNCHANGED <<body, dir, food, screen, fedAtMax>>

FirstBody == [i \in 1..InitLen |-> <<Width \div 2 - (i - 1), Height \div 2>>]

\* place_food(): the random numbers are any, drawn until the cell is free.
PlaceFood(f, b) == f \in Cell \ Covered(b)

\* game_init()
GameInit ==
  /\ game' = "play"
  /\ body' = FirstBody
  /\ dir' = "D"
  /\ \E f \in Cell :
       /\ PlaceFood(f, FirstBody)
       /\ food' = f
       /\ screen' = Picture(FirstBody, f)
  /\ fedAtMax' = FALSE

\* uart_getc() at the banner, and at the game-over box.
StartGame == game = "welcome" /\ GameInit

AnswerOver(key) ==
  /\ game = "over"
  /\ CASE key = "R" -> GameInit
       [] key = "Q" -> game' = "halted" /\ UNCHANGED <<body, dir, food, screen, fedAtMax>>
       [] OTHER -> UNCHANGED snakeVars

\* Mutant: any direction.
SteeredAnywhere(key) == IF key \in Direction THEN key ELSE dir

\* read_input(): at most one key a tick; the opposite direction is ignored.
Steered(key) ==
  IF key \in Direction /\ key # Opposite[dir] THEN key ELSE dir

\* Mutant: the last but one is passed over too.
HitsSome(cell) ==
  cell \notin Cell \/ \E i \in 1..Len(body) - 2 : body[i] = cell

\* game_tick()'s collisions.  The tail is passed over: it moves on.
Hits(cell) ==
  cell \notin Cell \/ \E i \in 1..Len(body) - 1 : body[i] = cell

\* The shift of the body: one longer when it grows.
Moved(cell, grow) ==
  <<cell>> \o (IF grow THEN body ELSE SubSeq(body, 1, Len(body) - 1))

\* Mutant: the tail is erased last.
RedrawnLate(cell, eaten) ==
  LET drawn == [screen EXCEPT ![cell] = "@", ![Head(body)] = "o"]
  IN IF eaten THEN drawn ELSE [drawn EXCEPT ![body[Len(body)]] = " "]

\* draw_at() for the tail, the new head and the old one, in this order.
Redrawn(cell, eaten) ==
  LET erased == IF eaten THEN screen ELSE [screen EXCEPT ![body[Len(body)]] = " "]
  IN [[erased EXCEPT ![cell] = "@"] EXCEPT ![Head(body)] = "o"]

\* read_input() and game_tick(); key is "none" when none has come.  'Q' ends
\* the game only after the tick it comes in.
Tick(key) ==
  /\ game = "play"
  /\ dir' = Steered(key)
  /\ LET cell == Toward(Head(body), dir')
         eaten == cell = food
         next == Moved(cell, eaten /\ Len(body) < MaxSnake)
     IN IF Hits(cell)
        THEN game' = "over" /\ UNCHANGED <<body, food, screen, fedAtMax>>
        ELSE /\ game' = IF key = "Q" THEN "over" ELSE "play"
             /\ body' = next
             /\ fedAtMax' = (fedAtMax \/ (eaten /\ Len(body) = MaxSnake))
             /\ IF eaten
                THEN \E f \in Cell :
                       /\ PlaceFood(f, next)
                       /\ food' = f
                       /\ screen' = [Redrawn(cell, eaten) EXCEPT ![f] = "*"]
                ELSE screen' = Redrawn(cell, eaten) /\ UNCHANGED food

\* The program while it runs, with any keys.
GameStep ==
  \/ StartGame
  \/ \E key \in Key : AnswerOver(key)
  \/ \E key \in Key \cup {"none"} : Tick(key)

\* With BTN0 at any time.
SnakeSpec == SnakeOff /\ [][Welcome \/ GameStep \/ Off]_snakeVars

-----------------------------------------------------------------------------
Alive == game \in {"play", "over", "halted"}
Adjacent(a, b) == \E d \in Direction : b = Toward(a, d)

\* The body never overlaps itself, has no gaps, stays in the field and off
\* the food.  The collision check passes over the tail (snake.c:225) because
\* it moves on, and it does not move on when the snake eats.
BodyIsWhole ==
  Alive =>
    /\ Len(body) \in InitLen..MaxSnake
    /\ Covered(body) \subseteq Cell
    /\ \A i, j \in 1..Len(body) : body[i] = body[j] => i = j
    /\ \A i \in 1..Len(body) - 1 : Adjacent(body[i], body[i + 1])
    /\ food \in Cell \ Covered(body)

\* The cells that were repaired one by one show the game, as long as no food
\* was eaten at the greatest length: then the tail is neither kept in the
\* body nor erased (snake.c:240-244), and an 'o' of nobody stays behind.
ScreenShowsGame ==
  game = "play" /\ ~fedAtMax => screen = Picture(body, food)

\* Turning around is never fatal: however fast keys are pressed, a game that
\* ends in a collision does not end in the neck, the cell behind the head.
NeckIsSafe ==
  [][game = "play" /\ game' = "over" /\ UNCHANGED body
       => Toward(Head(body), dir') # body[2]]_snakeVars
=============================================================================
