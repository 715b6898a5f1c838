SPECIFICATION MCSpec
CONSTANTS TicksPerMinute = 3
          MaxMinutes = 2
          Commanded <- MCCommanded
INVARIANTS TimerTracked UnitFollows Understood
PROPERTY ReportsTimer
