SPECIFICATION Spec
CONSTANTS Checkers={c1,c2} MaxFailures=1 RclpyAvailable=TRUE
Kinds={"navi_lidar","uli_lidar","camera","imu","thruster","battery","pi5_sensors"}
Regimes={"gone","healthy"}
INVARIANTS TypeOK AlertsPerCooldown
PROPERTIES CardSettles
