----------------------------- MODULE ChessGame -----------------------------
(***************************************************************************)
(* One game of chess as the server plays it (handlers/move.c): a request   *)
(* is a pair of squares, an illegal one changes nothing, a legal one is    *)
(* applied, and the game is over when the new position is mate, stalemate  *)
(* or the fifty-move rule.                                                 *)
(***************************************************************************)
EXTENDS Fen

CONSTANTS StartBoards,  \* boards on which a game begins
          StartRights,  \* castling rights it begins with
          MaxPlies      \* bound: moves made in a game

ASSUME GameAssumption ==
  /\ StartRights \subseteq Rights
  /\ MaxPlies \in Nat
  /\ \A b \in StartBoards : \A s \in DOMAIN b : s \in Squares /\ b[s] \in Piece

Home(team) == IF team = "white" THEN 1 ELSE Ranks - 2

(* init_startpos, for the board given. *)
StartPosition(b) ==
  [board |-> b, side_to_move |-> "white", halfmove_clock |-> 0,
   rights |-> StartRights, en_passant |-> NoSquare]

(* What the board of init_startpos has: no piece has moved, the pawns are  *)
(* on their home ranks, each side has one king, and black's is not in      *)
(* check.                                                                  *)
ASSUME StartAssumption ==
  \A b \in StartBoards :
    /\ \A s \in DOMAIN b :
         ~b[s].has_moved /\ (b[s].type = "pawn" => s[2] = Home(b[s].team))
    /\ \A team \in Team :
         Cardinality({s \in PiecesOf(StartPosition(b), team) : b[s].type = "king"}) = 1
    /\ ~is_in_check(StartPosition(b), "black")

VARIABLES game_state,  \* the game_t of the game's slot
          result,      \* "playing", or why the game was removed
          plies,       \* moves made
          start        \* history: the board the game began on

vars == <<game_state, result, plies, start>>

Init ==
  /\ start \in StartBoards
  /\ game_state = StartPosition(start)
  /\ result = "playing"
  /\ plies = 0

(* Mutant: the branch for stalemate is missing. *)
VerdictNoStalemate(G) ==
  CASE is_checkmate(G)       -> "checkmate"
    [] is_fifty_move_rule(G) -> "fifty"
    [] OTHER                 -> "playing"

(* The end conditions of handle_move_message, in their order. *)
Verdict(G) ==
  CASE is_checkmate(G)       -> "checkmate"
    [] is_stalemate(G)       -> "stalemate"
    [] is_fifty_move_rule(G) -> "fifty"
    [] OTHER                 -> "playing"

(* A request that passes the tests of handle_move_message, if it can be    *)
(* answered: after a lost reply the end is not looked for (ChessServer).   *)
Move ==
  /\ result = "playing"
  /\ plies < MaxPlies
  /\ \E m \in LegalMoves(game_state) : game_state' = apply_move(game_state, m[1], m[2])
  /\ result' = Verdict(game_state')
  /\ plies' = plies + 1
  /\ UNCHANGED start

(* The game has been removed, nobody has a move to request, or the bound   *)
(* is reached.                                                             *)
Over ==
  /\ result # "playing" \/ plies = MaxPlies \/ ~HasMove(game_state)
  /\ UNCHANGED vars

Next == Move \/ Over

Spec == Init /\ [][Next]_vars

(* Both players go on as long as they have a move. *)
FairSpec == Spec /\ WF_vars(Next)

-----------------------------------------------------------------------------
board == game_state.board
Mover == Other(game_state.side_to_move)  \* who made the last move
KingsOf(team) == {s \in PiecesOf(game_state, team) : board[s].type = "king"}

(* Type correctness of the position. *)
GameTypeOK ==
  /\ \A s \in DOMAIN board : s \in Squares /\ board[s] \in Piece
  /\ game_state.side_to_move \in Team
  /\ game_state.halfmove_clock \in 0..FiftyLimit
  /\ game_state.rights \subseteq Rights
  /\ game_state.en_passant \in Squares \cup {NoSquare}
  /\ result \in {"playing", "checkmate", "stalemate", "fifty"}
  /\ plies \in 0..MaxPlies

(* No king is ever taken or left to be taken: each side keeps exactly one, *)
(* and whoever has just moved is not in check, also after a capture in     *)
(* passing, which takes two pieces off a line at once.                     *)
KingsSafe ==
  /\ \A team \in Team : Cardinality(KingsOf(team)) = 1
  /\ plies > 0 => ~is_in_check(game_state, Mover)

(* An en passant target is the empty square behind a pawn that has just    *)
(* made its double step, from its home rank (has_moved is all the code     *)
(* looks at), so the capture removes that pawn and nothing else.           *)
EnPassantSound ==
  LET t == game_state.en_passant
      pawn == <<t[1], t[2] + Dir(Mover)>>
      from == <<t[1], t[2] - Dir(Mover)>>
  IN t # NoSquare =>
       /\ Dead(game_state, t) /\ Dead(game_state, from)
       /\ from[2] = Home(Mover)
       /\ ~Dead(game_state, pawn)
       /\ board[pawn] = [type |-> "pawn", team |-> Mover, has_moved |-> TRUE]

(* The two move generators agree: is_square_attacked, which walks rays,    *)
(* finds a piece attacked exactly when is_move_legal's own switch, which   *)
(* divides distances, would let one of the other side's pieces take it.    *)
AttackMeansCapture ==
  \A s \in DOMAIN board :
    LET by == Other(board[s].team)
        theirs == [game_state EXCEPT !.side_to_move = by]
    IN is_square_attacked(game_state, s, by)
         <=> \E q \in PiecesOf(game_state, by) : PseudoLegal(theirs, q, s)

(* fen_parse reads the FEN of every position a game comes to back: pieces  *)
(* to their squares across gaps and ranks, side, castling, en passant and  *)
(* clock, whatever was in the game_t before.  Only has_moved is lost.  Cut *)
(* before the clock, or with a letter that is no piece, it is refused.     *)
FenReadsBack ==
  LET fen    == FenOf(game_state, plies \div 2 + 1)
      before == [game_state EXCEPT !.board = start, !.side_to_move = Other(@)]
      bad    == [fen EXCEPT ![1] = Append(@, OtherLetter)]
  IN /\ FenParse(before, fen) = [G |-> Unmoving(game_state), ok |-> TRUE]
     /\ ~FenParse(before, SubSeq(fen, 1, 4)).ok
     /\ ~FenParse(before, bad).ok

(* What is left of a side: how many pieces it has. *)
Material(G, team) == Cardinality(PiecesOf(G, team))

(* A move takes at most one piece, of the other side; the fifty-move count *)
(* restarts exactly when the move cannot be undone: a piece is gone or a   *)
(* pawn has moved.                                                         *)
MovesAreFair ==
  [][LET G == game_state
         H == game_state'
         me == G.side_to_move
         taken == Material(G, Other(me)) - Material(H, Other(me))
         pawns(P) == {s \in DOMAIN P.board : P.board[s].type = "pawn"}
     IN G # H =>
          /\ Material(H, me) = Material(G, me)
          /\ taken \in {0, 1}
          /\ H.halfmove_clock = 0 <=> taken = 1 \/ pawns(G) # pawns(H)]_vars

(* If the players keep moving the game ends: every stretch of reversible   *)
(* moves is cut off by the fifty-move rule, and no position without a move *)
(* is taken for one in play.                                               *)
GameEnds == <>(result # "playing")

(* Castling is a move where the rules of chess allow it: the right is      *)
(* held, king and rook stand unmoved with nothing between them, and the    *)
(* king neither is, nor passes, nor arrives in check.                      *)
CastlingPossible ==
  \A s \in KingsOf(game_state.side_to_move), flank \in Flank :
    LET team == game_state.side_to_move
        dx == IF flank = "kingside" THEN 2 ELSE -2
        d == <<s[1] + dx, s[2]>>
        mid == <<s[1] + dx \div 2, s[2]>>
        corner == <<IF flank = "kingside" THEN Files - 1 ELSE 0, s[2]>>
        between == {q \in Squares : q[2] = s[2] /\
                      ((s[1] < q[1] /\ q[1] < corner[1]) \/ (corner[1] < q[1] /\ q[1] < s[1]))}
    IN /\ <<team, flank>> \in game_state.rights
       /\ ~Dead(game_state, corner)
       /\ board[corner] = [type |-> "rook", team |-> team, has_moved |-> FALSE]
       /\ \A q \in between : Dead(game_state, q)
       /\ \A q \in {s, mid, d} : ~is_square_attacked(game_state, q, Other(team))
       => is_move_legal(game_state, s, d)
=============================================================================
