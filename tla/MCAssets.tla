------------------------------ MODULE MCAssets ------------------------------
(* An icon, a picture and a movie, in well and badly named scales. *)
EXTENDS Assets, Sequences, TLC

CONSTANTS icon, picture, movie

TagOrder == <<"", "@.x", "@1.5x", "@1x", "@2x", "@3x", "@5x">>

Tags == {TagOrder[i] : i \in DOMAIN TagOrder}

PlaceOf == [t \in Tags |-> CHOOSE i \in DOMAIN TagOrder : TagOrder[i] = t]

Quarters ==
    "" :> None @@ "@.x" :> None @@ "@1.5x" :> 6 @@ "@1x" :> 4 @@ "@2x" :> 8
       @@ "@3x" :> 12 @@ "@5x" :> 20

Spelled == 4 :> "" @@ 6 :> "@1.5x" @@ 8 :> "@2x" @@ 12 :> "@3x" @@ 20 :> "@5x"

SomeFiles ==
    {icon} \X {"", "@1.5x", "@2x", "@3x"} \cup {picture} \X {"", "@1x", "@5x"}
           \cup {movie} \X {"@.x", "@5x"}

OwnPlace == [t \in Target |-> [a \in Asset |-> a]]
=============================================================================
