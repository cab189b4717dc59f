-------------------------------- MODULE MCLive --------------------------------
(* One session whose game, casino, token and player are listed and delisted,   *)
(* with a TTL that init may change: is every session ended?                    *)
EXTENDS GameContract

CONSTANTS s1, alice, c1, BET, platform

AllSwitches == {<<"game">>, <<"casino", c1>>, <<"listing", c1>>,
                <<"token", c1, BET>>, <<"params", c1, BET>>, <<"banned", alice>>}
===============================================================================
