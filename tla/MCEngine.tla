------------------------------ MODULE MCEngine -------------------------------
(* Two nodes and two tasks whose workers end with a Get, or, as in           *)
(* examples2/kmeans, an initialisation task that ends with a Clock.           *)
EXTENDS Engine
CONSTANTS n1, n2
MCLambdas ==
    << {<<"kAdd", "kClock", "kGet">>},
       {<<"kAdd", "kGet">>} >>
MCInitTask ==
    << {<<>>, <<"kAdd", "kClock">>}, {<<"kGet">>} >>
=============================================================================
